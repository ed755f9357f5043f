---------------------------- MODULE Guests_proofs ----------------------------
(***************************************************************************)
(* Proofs about the guests of a cluster: that they implement the promise   *)
(* of GuestOwnership.tla, that the sweep reaps what was approved, and that *)
(* the warm pool stays within its target, for any number of instances,     *)
(* vmids and guests.                                                       *)
(***************************************************************************)
EXTENDS Guests, FiniteSetTheorems, TLAPS

-----------------------------------------------------------------------------
(* The inductive invariant of the types and of the pool.                   *)

Waiting == RowsIn({"building", "warm"})

\* What a run is about to build fits, and only a row it has found building
\* becomes warm.
PoolBounded ==
    /\ worker.pc \in {"pool", "expire"} => Cardinality(Waiting) <= worker.rows
    /\ At("record") => Cardinality(Waiting) < Target
    /\ worker.pc \in {"pool", "expire"} =>
          \A v \in worker.todo \cap Vmids :
              warm_pool_vms[v].state = "building" \/ (At("expire") /\ worker.vmid = v)

\* Where a run works on an instance, and on a vmid, it has one.
KnowsItsWork ==
    /\ worker.pc \in {"finish_delete", "claim", "configure", "attach", "done", "verify", "failing"} =>
          worker.instance \in InstanceIds
    /\ worker.pc \in {"expire", "record", "mark", "configure", "attach"} => worker.vmid \in Vmids

PoolInv == TypeOK /\ KnowsItsWork /\ PoolBounded

-----------------------------------------------------------------------------
(* The inductive invariant of the guests.                                  *)

\* The guest of the run, which no row names yet.
InHand(v) == worker.pc \in {"record", "configure", "attach"} /\ worker.vmid = v

Unnamed(v) == \A i \in InstanceIds : instances[i].vmid # v

\* A guest the control plane cannot account for.
Stray(v) == Running(v) /\ warm_pool_vms[v].state = "none" /\ Unnamed(v) /\ ~InHand(v)

GuestsAreMade ==
    \A v \in Vmids :
        /\ guest_at[v] <= made
        /\ \A u \in Vmids : guest_at[v] # NoGuest /\ guest_at[u] = guest_at[v] => u = v

VmidsDistinct ==
    \A i, j \in InstanceIds :
        instances[i].vmid # NoVmid /\ instances[j].vmid = instances[i].vmid => j = i

\* The pool's guests run, and are nobody else's.
PoolRuns ==
    \A v \in Waiting :
        /\ Running(v) /\ Unnamed(v) /\ ~InHand(v)
        /\ At("expire") => worker.vmid # v

\* An instance names a guest that is gone only while it is being deleted:
\* before the run clones anything it has finished every such deletion.
BeingDeleted(i) ==
    At("idle") \/ (worker.pc \in {"deletions", "finish_delete"} /\ i \in worker.todo)

NamedIsThere ==
    \A i \in InstanceIds :
        /\ instances[i].vmid # NoVmid =>
              Running(instances[i].vmid) \/ (instances[i].state = "deleting" /\ BeingDeleted(i))
        /\ instances[i].state = "ready" => instances[i].vmid # NoVmid
        /\ instances[i].state = "none" => instances[i].vmid = NoVmid

\* What each part of a run knows of the rows it works on.
Deleting ==
    /\ worker.pc \in {"deletions", "finish_delete"} => worker.todo \subseteq InstancesIn({"deleting"})
    /\ At("finish_delete") =>
          worker.instance \in worker.todo /\ ~Running(instances[worker.instance].vmid)

Building ==
    /\ At("expire") => warm_pool_vms[worker.vmid].state = "failed"
    /\ worker.pc \in {"expire", "record", "configure", "attach"} => Unnamed(worker.vmid)
    /\ worker.pc \in {"record", "attach"} => Running(worker.vmid)

Creating ==
    /\ worker.pc \in {"claim", "configure", "attach", "done"} =>
          instances[worker.instance].state = "requested"
    /\ At("verify") => instances[worker.instance].state = "cloned"
    /\ At("failing") => instances[worker.instance].state \in {"requested", "cloned"}

\* What a finding says of a guest stays true until the guest is reaped:
\* nothing else touches a guest that nobody names.
Shown(v, g) == (Stray(v) /\ guest_at[v] = g) \/ (At("mark") /\ worker.vmid = v)

FindingsTrue ==
    \A v \in Vmids : findings[v].reaped \/
        /\ findings[v].observations > 0 /\ ~findings[v].resolved => Shown(v, findings[v].guest)
        /\ findings[v].approved # NoGuest => Shown(v, findings[v].approved)
        /\ prompt.vmid = v => Shown(v, prompt.guest)

Approved(v) == findings[v].approved # NoGuest /\ ~findings[v].reaped

Reaping ==
    /\ prompt.vmid # NoVmid => prompt.guest # NoGuest
    /\ worker.pc \in {"reaping", "mark"} => \A v \in worker.todo : v \in Vmids /\ Approved(v)
    /\ At("mark") => Approved(worker.vmid) /\ ~Running(worker.vmid)

RowsInv == GuestsAreMade /\ VmidsDistinct /\ PoolRuns /\ NamedIsThere
RunInv == Deleting /\ Building /\ Creating
GuestsInv == PoolInv /\ RowsInv /\ RunInv /\ FindingsTrue /\ Reaping

\* A guest that was reaped is marked so in the same run.
MarksArrive == "mark_lost" \notin Faults

\* What every type invariant gives the proofs of the steps.
LEMMA GuestsTyped ==
    ASSUME TypeOK
    PROVE  /\ guest_at \in [Vmids -> 0 .. MaxGuests]
           /\ made \in 0 .. MaxGuests
           /\ instances \in [InstanceIds -> InstanceType]
           /\ warm_pool_vms \in [Vmids -> PoolRowType]
           /\ findings \in [Vmids -> FindingType]
           /\ prompt \in PromptType
           /\ worker \in WorkerType
           /\ Cardinality(Waiting) <= Target
BY DEF TypeOK, Waiting, RowsIn

LEMMA VmidSets ==
    ASSUME NEW S \in SUBSET Vmids
    PROVE  /\ IsFiniteSet(S) /\ Cardinality(S) \in Nat /\ Cardinality(S) <= Cardinality(Vmids)
           /\ \A T \in SUBSET S : Cardinality(T) <= Cardinality(S)
           /\ \A v \in Vmids : Cardinality(S \cup {v}) <= Cardinality(S) + 1
<1>1. IsFiniteSet(Vmids)
  BY VmidsAreNumbers
<1>2. IsFiniteSet(S)
  BY <1>1, FS_Subset
<1> QED
  BY <1>1, <1>2, FS_Subset, FS_CardinalityType, FS_AddElement

LEMMA WorkerFields ==
    ASSUME TypeOK
    PROVE  /\ worker.pc \in ProgramPoints /\ worker.todo \in SUBSET (Vmids \cup InstanceIds)
           /\ worker.rows \in 0 .. Cardinality(Vmids) /\ worker.vmid \in Vmids \cup {NoVmid}
           /\ worker.instance \in InstanceIds \cup {NoInstance}
BY GuestsTyped DEF WorkerType

LEMMA IdleTyped ==
    /\ Idle \in WorkerType /\ 0 \in 0 .. Cardinality(Vmids)
    /\ NoFinding \in FindingType /\ NoPoolRow \in PoolRowType
<1>1. Cardinality(Vmids) \in Nat
  BY VmidSets
<1> QED
  BY <1>1, BoundsAreNumbers DEF Idle, WorkerType, NoFinding, FindingType, NoPoolRow, PoolRowType,
     ProgramPoints, NoGuest

\* The worker after a step of its own.
LEMMA WorkerTyped ==
    ASSUME TypeOK, NEW pc \in ProgramPoints, NEW v \in Vmids \cup {NoVmid},
           NEW i \in InstanceIds \cup {NoInstance}, NEW todo \in SUBSET (Vmids \cup InstanceIds),
           NEW rows \in 0 .. Cardinality(Vmids)
    PROVE  /\ [worker EXCEPT !.pc = pc] \in WorkerType
           /\ [worker EXCEPT !.pc = pc, !.vmid = v] \in WorkerType
           /\ [worker EXCEPT !.pc = pc, !.instance = i] \in WorkerType
           /\ [worker EXCEPT !.pc = pc, !.todo = todo] \in WorkerType
           /\ [worker EXCEPT !.pc = pc, !.vmid = v, !.todo = todo] \in WorkerType
           /\ [worker EXCEPT !.pc = pc, !.todo = todo, !.instance = i] \in WorkerType
           /\ [Idle EXCEPT !.pc = pc] \in WorkerType
           /\ [Idle EXCEPT !.pc = pc, !.todo = todo] \in WorkerType
           /\ [Idle EXCEPT !.pc = pc, !.todo = todo, !.rows = rows] \in WorkerType
BY GuestsTyped, IdleTyped DEF WorkerType

LEMMA FindingAfterIs ==
    ASSUME NEW v, NEW seen
    PROVE  /\ Closed(v) => FindingAfter(v, seen) = findings[v]
           /\ ~Closed(v) /\ v \in seen =>
                FindingAfter(v, seen) =
                    [findings[v] EXCEPT !.observations = IF @ < 2 THEN @ + 1 ELSE 2,
                                        !.resolved = FALSE, !.guest = guest_at[v]]
           /\ ~Closed(v) /\ v \notin seen =>
                FindingAfter(v, seen) = [findings[v] EXCEPT !.resolved = findings[v].observations > 0]
BY DEF FindingAfter

LEMMA FindingTyped ==
    ASSUME TypeOK, NEW v \in Vmids, NEW seen
    PROVE  FindingAfter(v, seen) \in FindingType
<1>1. findings[v] \in FindingType /\ guest_at[v] \in 0 .. MaxGuests
  BY GuestsTyped
<1>2. CASE Closed(v)
  BY <1>1, <1>2, FindingAfterIs
<1>3. CASE ~Closed(v) /\ v \in seen
  <2> DEFINE n == IF findings[v].observations < 2 THEN findings[v].observations + 1 ELSE 2
  <2>1. n \in 0 .. 2
    BY <1>1 DEF FindingType
  <2>2. FindingAfter(v, seen) =
            [findings[v] EXCEPT !.observations = n, !.resolved = FALSE, !.guest = guest_at[v]]
    BY <1>3, FindingAfterIs
  <2> HIDE DEF n
  <2> QED
    BY <1>1, <2>1, <2>2 DEF FindingType
<1>4. CASE ~Closed(v) /\ v \notin seen
  <2>1. FindingAfter(v, seen) = [findings[v] EXCEPT !.resolved = findings[v].observations > 0]
    BY <1>4, FindingAfterIs
  <2>2. (findings[v].observations > 0) \in BOOLEAN
    BY <1>1 DEF FindingType
  <2>3. PICK b \in BOOLEAN : b = (findings[v].observations > 0)
    BY <2>2
  <2>4. FindingAfter(v, seen) = [findings[v] EXCEPT !.resolved = b]
    BY <2>1, <2>3
  <2> QED
    BY <1>1, <2>4 DEF FindingType
<1> QED
  BY <1>2, <1>3, <1>4

-----------------------------------------------------------------------------
(* The types and the pool, for each kind of step.                          *)

\* The parts of TypeOK a step changes.
LEMMA TypeParts ==
    ASSUME TypeOK, guest_at' \in [Vmids -> 0 .. MaxGuests], made' \in 0 .. MaxGuests,
           instances' \in [InstanceIds -> InstanceType], warm_pool_vms' \in [Vmids -> PoolRowType],
           findings' \in [Vmids -> FindingType], prompt' \in PromptType, worker' \in WorkerType,
           Cardinality(Waiting') <= Target
    PROVE  TypeOK'
BY DEF TypeOK, Waiting, RowsIn

LEMMA InstanceTyped ==
    ASSUME TypeOK, NEW i \in InstanceIds, NEW s \in InstanceStates, NEW v \in Vmids \cup {NoVmid},
           InstanceBecomes(i, s, v)
    PROVE  /\ instances' \in [InstanceIds -> InstanceType]
           /\ instances'[i].state = s /\ instances'[i].vmid = v
           /\ \A j \in InstanceIds \ {i} : instances'[j] = instances[j]
BY GuestsTyped DEF InstanceBecomes, InstanceType

LEMMA RemovedTyped ==
    ASSUME TypeOK, NEW v \in Vmids \cup {NoVmid}, GuestRemoved(v)
    PROVE  /\ guest_at' \in [Vmids -> 0 .. MaxGuests]
           /\ v \in Vmids => guest_at'[v] = NoGuest
           /\ \A u \in Vmids : u # v => guest_at'[u] = guest_at[u]
<1>1. NoGuest \in 0 .. MaxGuests
  BY BoundsAreNumbers DEF NoGuest
<1> QED
  BY <1>1, GuestsTyped, NullsAreNotNames DEF GuestRemoved

LEMMA CloneTyped ==
    ASSUME TypeOK, NEW v, CloneAs(v)
    PROVE  /\ guest_at' \in [Vmids -> 0 .. MaxGuests] /\ made' \in 0 .. MaxGuests
           /\ v \in Vmids /\ guest_at[v] = NoGuest /\ guest_at'[v] = made + 1 /\ made' = made + 1
           /\ \A u \in Vmids : u # v => guest_at'[u] = guest_at[u]
<1>1. made \in Nat /\ made < MaxGuests /\ MaxGuests \in Nat
  BY GuestsTyped, BoundsAreNumbers DEF CloneAs, CanClone
<1>2. made + 1 \in 0 .. MaxGuests
  BY <1>1
<1>3. v \in Vmids /\ guest_at[v] = NoGuest /\ made' = made + 1
      /\ guest_at' = [guest_at EXCEPT ![v] = made + 1]
  BY DEF CloneAs, FreeVmids
<1> QED
  BY <1>2, <1>3, GuestsTyped

LEMMA RowTyped ==
    ASSUME TypeOK, NEW v \in Vmids, NEW s \in {"building", "warm", "claimed", "failed"},
           RowBecomes(v, s)
    PROVE  /\ warm_pool_vms' \in [Vmids -> PoolRowType]
           /\ warm_pool_vms'[v].state = s
           /\ \A u \in Vmids : u # v => warm_pool_vms'[u] = warm_pool_vms[u]
BY GuestsTyped DEF RowBecomes, PoolRowType

LEMMA SamePool ==
    ASSUME PoolInv, \A v \in Vmids : warm_pool_vms'[v].state = warm_pool_vms[v].state
    PROVE  Waiting' = Waiting /\ Cardinality(Waiting') <= Target
<1>1. Waiting' = Waiting
  BY DEF Waiting, RowsIn
<1> QED
  BY <1>1, GuestsTyped DEF PoolInv

LEMMA SmallerPool ==
    ASSUME PoolInv, Waiting' \subseteq Waiting
    PROVE  /\ Cardinality(Waiting') <= Cardinality(Waiting) /\ Cardinality(Waiting') <= Target
           /\ Cardinality(Waiting) \in Nat /\ Cardinality(Waiting') \in Nat /\ Target \in Nat
<1>1. Waiting \subseteq Vmids
  BY DEF Waiting, RowsIn
<1>2. /\ Cardinality(Waiting') <= Cardinality(Waiting)
      /\ Cardinality(Waiting) \in Nat /\ Cardinality(Waiting') \in Nat /\ Target \in Nat
  BY <1>1, VmidSets, BoundsAreNumbers
<1>3. Cardinality(Waiting) <= Target
  BY GuestsTyped DEF PoolInv
<1> QED
  BY <1>2, <1>3

\* A step outside the pool's part of the run that leaves its rows alone.
LEMMA PoolUntouched ==
    ASSUME PoolInv, warm_pool_vms' = warm_pool_vms,
           worker'.pc \notin {"pool", "expire", "record"} \/ worker' = worker
    PROVE  PoolBounded' /\ Cardinality(Waiting') <= Target
<1>1. Waiting' = Waiting /\ Cardinality(Waiting') <= Target
  BY SamePool
<1>2. CASE worker' = worker
  BY <1>1, <1>2 DEF PoolInv, PoolBounded, At
<1>3. CASE worker'.pc \notin {"pool", "expire", "record"}
  <2>1. worker'.pc \notin {"pool", "expire"} /\ worker'.pc # "record"
    BY <1>3
  <2> QED
    BY <1>1, <2>1 DEF PoolBounded, At
<1> QED
  BY <1>1, <1>2, <1>3

-----------------------------------------------------------------------------
(* What a step does to each of the variables.                              *)

\* Guests are cloned by the pool and by a create, and removed by four others.
Removes(v) ==
    \/ \E i \in InstanceIds : DestroyListed(i) /\ v = instances[i].vmid
    \/ DestroyExpired /\ v = worker.vmid
    \/ v \in Vmids /\ ReapGuest(v)
    \/ RollBack /\ v = instances[worker.instance].vmid

LEMMA GuestEffect ==
    ASSUME TypeOK, Next
    PROVE  \/ UNCHANGED <<guest_at, made>>
           \/ \E v \in Vmids : CloneAs(v) /\ (BuildOne(v) \/ CloneCold(v))
           \/ \E v : made' = made /\ GuestRemoved(v) /\ Removes(v)
<1>1. CASE Customers \/ Operator \/ Crash \/ EndRun \/ StartRun
  BY <1>1 DEF Customers, request_instance_create, request_instance_deletion, Operator,
     operator_approve_orphan_reap, operator_list_orphan_guests, operator_dismiss_orphan_guest,
     Crash, EndRun, StartRun
<1>2. CASE Deletions
  BY <1>2 DEF Deletions, DestroyListed, DestroyThrows, FinishDelete, Removes
<1>3. CASE WarmPool
  BY <1>3
     DEF WarmPool, ListPool, DestroyExpired, PoolIsFull, worker_record_warm_pool_vm, BuildThrows,
     RowEnrolled, RowWaits, RowExpires, BuildOne, Removes
<1>4. CASE OrphanSweep
  BY <1>4 DEF OrphanSweep, worker_report_orphan_guests, SweepThrows, worker_list_approved_reaps,
     worker_mark_orphan_reaped, EndReaps, ReapGuest, ReapThrows, Removes
<1>5. CASE Creates
  BY <1>5 DEF Creates, ConfigureClaimed, CloneThrows, worker_update_instance_runtime, MarkDone,
     Verify, RollBack, PickCreate, worker_claim_warm_pool_vm, CloneCold, Removes
<1> QED
  BY <1>1, <1>2, <1>3, <1>4, <1>5 DEF Next, Run

LEMMA RowEffect ==
    ASSUME TypeOK, Next
    PROVE  \/ UNCHANGED warm_pool_vms
           \/ FinishDelete
           \/ \E v \in Vmids : RowEnrolled(v) \/ RowExpires(v) \/ worker_claim_warm_pool_vm(v)
           \/ worker_record_warm_pool_vm
<1>1. CASE Customers \/ Operator \/ Crash \/ EndRun \/ StartRun
  BY <1>1 DEF Customers, request_instance_create, request_instance_deletion, Operator,
     operator_approve_orphan_reap, operator_list_orphan_guests, operator_dismiss_orphan_guest,
     Crash, EndRun, StartRun
<1>2. CASE Deletions
  BY <1>2 DEF Deletions, DestroyListed, DestroyThrows
<1>3. CASE WarmPool
  BY <1>3 DEF WarmPool, ListPool, DestroyExpired, PoolIsFull, BuildThrows, RowWaits, BuildOne
<1>4. CASE OrphanSweep
  BY <1>4 DEF OrphanSweep, worker_report_orphan_guests, SweepThrows, worker_list_approved_reaps,
     worker_mark_orphan_reaped, EndReaps, ReapGuest, ReapThrows
<1>5. CASE Creates
  BY <1>5 DEF Creates, ConfigureClaimed, CloneThrows, worker_update_instance_runtime, MarkDone,
     Verify, RollBack, PickCreate, CloneCold
<1> QED
  BY <1>1, <1>2, <1>3, <1>4, <1>5 DEF Next, Run

LEMMA InstanceEffect ==
    ASSUME TypeOK, Next
    PROVE  \/ UNCHANGED instances
           \/ Customers \/ FinishDelete \/ worker_update_instance_runtime \/ MarkDone \/ Verify \/ RollBack
           \/ \E i \in InstanceIds : DestroyThrows(i)
<1>1. CASE Operator \/ Crash \/ EndRun \/ StartRun
  BY <1>1 DEF Operator,
     operator_approve_orphan_reap, operator_list_orphan_guests, operator_dismiss_orphan_guest,
     Crash, EndRun, StartRun
<1>2. CASE Deletions
  BY <1>2 DEF Deletions, DestroyListed
<1>3. CASE WarmPool
  BY <1>3
     DEF WarmPool, ListPool, DestroyExpired, PoolIsFull, worker_record_warm_pool_vm, BuildThrows,
     RowEnrolled, RowWaits, RowExpires, BuildOne
<1>4. CASE OrphanSweep
  BY <1>4 DEF OrphanSweep, worker_report_orphan_guests, SweepThrows, worker_list_approved_reaps,
     worker_mark_orphan_reaped, EndReaps, ReapGuest, ReapThrows
<1>5. CASE Creates
  BY <1>5
     DEF Creates, ConfigureClaimed, CloneThrows, PickCreate, worker_claim_warm_pool_vm, CloneCold
<1> QED
  BY <1>1, <1>2, <1>3, <1>4, <1>5 DEF Next, Run

LEMMA FindingEffect ==
    ASSUME TypeOK, Next
    PROVE  \/ UNCHANGED <<findings, prompt>>
           \/ Operator
           \/ (worker_report_orphan_guests \/ worker_mark_orphan_reaped) /\ UNCHANGED prompt
<1>1. CASE Customers \/ Crash \/ EndRun \/ StartRun
  BY <1>1
     DEF Customers, request_instance_create, request_instance_deletion, Crash, EndRun, StartRun
<1>2. CASE Deletions
  BY <1>2 DEF Deletions, DestroyListed, DestroyThrows, FinishDelete
<1>3. CASE WarmPool
  BY <1>3
     DEF WarmPool, ListPool, DestroyExpired, PoolIsFull, worker_record_warm_pool_vm, BuildThrows,
     RowEnrolled, RowWaits, RowExpires, BuildOne
<1>4. CASE OrphanSweep
  BY <1>4 DEF OrphanSweep, worker_report_orphan_guests, SweepThrows, worker_list_approved_reaps,
     worker_mark_orphan_reaped, EndReaps, ReapGuest, ReapThrows
<1>5. CASE Creates
  BY <1>5 DEF Creates, ConfigureClaimed, CloneThrows, worker_update_instance_runtime, MarkDone,
     Verify, RollBack, PickCreate, worker_claim_warm_pool_vm, CloneCold
<1> QED
  BY <1>1, <1>2, <1>3, <1>4, <1>5 DEF Next, Run

-----------------------------------------------------------------------------
(* The types and the pool.                                                 *)

LEMMA RemovesTyped ==
    ASSUME TypeOK, KnowsItsWork, NEW v, Removes(v)
    PROVE  v \in Vmids \cup {NoVmid}
<1>1. \A i \in InstanceIds : instances[i].vmid \in Vmids \cup {NoVmid}
  BY GuestsTyped DEF InstanceType
<1>2. CASE RollBack /\ v = instances[worker.instance].vmid
  BY <1>1, <1>2 DEF RollBack, KnowsItsWork, At
<1> QED
  BY <1>1, <1>2, WorkerFields DEF Removes

LEMMA GuestTypes ==
    ASSUME TypeOK, KnowsItsWork, Next
    PROVE  guest_at' \in [Vmids -> 0 .. MaxGuests] /\ made' \in 0 .. MaxGuests
<1>1. CASE UNCHANGED <<guest_at, made>>
  BY <1>1, GuestsTyped
<1>2. CASE \E v \in Vmids : CloneAs(v) /\ (BuildOne(v) \/ CloneCold(v))
  BY <1>2, CloneTyped
<1>3. ASSUME NEW v, made' = made, GuestRemoved(v), Removes(v)
      PROVE  guest_at' \in [Vmids -> 0 .. MaxGuests] /\ made' \in 0 .. MaxGuests
  <2>1. v \in Vmids \cup {NoVmid}
    BY <1>3, RemovesTyped
  <2> QED
    BY <1>3, <2>1, RemovedTyped, GuestsTyped
<1> QED
  BY <1>1, <1>2, <1>3, GuestEffect

\* The rows of the pool after a step.
LEMMA RowTypes ==
    ASSUME TypeOK, KnowsItsWork, Next
    PROVE  /\ warm_pool_vms' \in [Vmids -> PoolRowType]
           /\ \A v \in Vmids : warm_pool_vms'[v].state # warm_pool_vms[v].state =>
                \/ RowEnrolled(v) /\ warm_pool_vms'[v].state = "warm"
                \/ RowExpires(v) /\ warm_pool_vms'[v].state = "failed"
                \/ /\ worker_claim_warm_pool_vm(v)
                   /\ warm_pool_vms[v].state = "warm" /\ warm_pool_vms'[v].state = "claimed"
                \/ /\ worker_record_warm_pool_vm /\ worker.vmid = v
                   /\ warm_pool_vms[v].state = "none" /\ warm_pool_vms'[v].state = "building"
<1>t. warm_pool_vms \in [Vmids -> PoolRowType] /\ NoInstance \in InstanceIds \cup {NoInstance}
  BY GuestsTyped
<1>1. CASE UNCHANGED warm_pool_vms
  BY <1>1, <1>t
<1>2. CASE FinishDelete
  <2>1. \A v \in Vmids : /\ warm_pool_vms'[v] \in PoolRowType
                         /\ warm_pool_vms'[v].state = warm_pool_vms[v].state
    BY <1>2, <1>t DEF FinishDelete, PoolRowType
  <2>2. warm_pool_vms' \in [Vmids -> PoolRowType]
    BY <1>2, <2>1 DEF FinishDelete
  <2> QED
    BY <2>1, <2>2
<1>3. ASSUME NEW v \in Vmids, RowEnrolled(v) \/ RowExpires(v)
      PROVE  /\ warm_pool_vms' \in [Vmids -> PoolRowType]
             /\ \A u \in Vmids : u # v => warm_pool_vms'[u] = warm_pool_vms[u]
             /\ RowEnrolled(v) => warm_pool_vms'[v].state = "warm"
             /\ RowExpires(v) => warm_pool_vms'[v].state = "failed"
  BY <1>3, RowTyped DEF RowEnrolled, RowExpires
<1>4. ASSUME NEW v \in Vmids, worker_claim_warm_pool_vm(v)
      PROVE  /\ warm_pool_vms' \in [Vmids -> PoolRowType]
             /\ \A u \in Vmids : u # v => warm_pool_vms'[u] = warm_pool_vms[u]
             /\ warm_pool_vms[v].state = "warm" /\ warm_pool_vms'[v].state = "claimed"
  <2>1. [state |-> "claimed", claimed_by |-> worker.instance] \in PoolRowType
    BY WorkerFields DEF PoolRowType
  <2> QED
    BY <1>4, <1>t, <2>1 DEF worker_claim_warm_pool_vm, Claimable, RowsIn
<1>5. CASE worker_record_warm_pool_vm
  <2>1. worker.vmid \in Vmids
    BY <1>5 DEF worker_record_warm_pool_vm, KnowsItsWork, At
  <2>2. CASE warm_pool_vms[worker.vmid].state = "none"
    <3>1. RowBecomes(worker.vmid, "building")
      BY <1>5, <2>2 DEF worker_record_warm_pool_vm, RowBecomes
    <3> QED
      BY <1>5, <2>1, <2>2, <3>1, RowTyped
  <2>3. CASE warm_pool_vms[worker.vmid].state # "none"
    BY <1>5, <1>t, <2>3 DEF worker_record_warm_pool_vm
  <2> QED
    BY <2>2, <2>3
<1> QED
  BY <1>1, <1>2, <1>3, <1>4, <1>5, RowEffect

LEMMA InstanceTypes ==
    ASSUME TypeOK, KnowsItsWork, Next
    PROVE  instances' \in [InstanceIds -> InstanceType]
<1> USE DEF At, InstanceStates
<1>t. /\ instances \in [InstanceIds -> InstanceType] /\ NoVmid \in Vmids \cup {NoVmid}
      /\ \A i \in InstanceIds : instances[i].vmid \in Vmids \cup {NoVmid}
  BY GuestsTyped DEF InstanceType
<1>1. CASE UNCHANGED instances
  BY <1>1, <1>t
<1>2. CASE Customers
  BY <1>2, <1>t, InstanceTyped DEF Customers, request_instance_create, request_instance_deletion
<1>3. CASE FinishDelete
  BY <1>3, <1>t, InstanceTyped DEF FinishDelete, KnowsItsWork
<1>4. CASE worker_update_instance_runtime
  BY <1>4, <1>t, InstanceTyped DEF worker_update_instance_runtime, KnowsItsWork
<1>5. CASE MarkDone \/ Verify
  BY <1>5, <1>t DEF MarkDone, Verify, KnowsItsWork, InstanceType
<1>6. CASE RollBack
  BY <1>6, <1>t, InstanceTyped DEF RollBack, KnowsItsWork
<1>7. CASE \E i \in InstanceIds : DestroyThrows(i)
  BY <1>7, <1>t, InstanceTyped DEF DestroyThrows
<1> QED
  BY <1>1, <1>2, <1>3, <1>4, <1>5, <1>6, <1>7, InstanceEffect

LEMMA FindingTypes ==
    ASSUME TypeOK, KnowsItsWork, Next
    PROVE  findings' \in [Vmids -> FindingType] /\ prompt' \in PromptType
<1>t. /\ findings \in [Vmids -> FindingType] /\ prompt \in PromptType
      /\ NoVmid \in Vmids \cup {NoVmid} /\ NoGuest \in 0 .. MaxGuests
  BY GuestsTyped, BoundsAreNumbers DEF NoGuest
<1>1. CASE UNCHANGED <<findings, prompt>>
  BY <1>1, <1>t
<1>2. CASE worker_report_orphan_guests /\ UNCHANGED prompt
  BY <1>2, <1>t, FindingTyped DEF worker_report_orphan_guests
<1>3. CASE worker_mark_orphan_reaped /\ UNCHANGED prompt
  <2> DEFINE v == worker.vmid
             x == [findings[v] EXCEPT !.reaped = TRUE, !.resolved = TRUE]
  <2>1. v \in Vmids /\ x \in FindingType
    BY <1>3, <1>t DEF worker_mark_orphan_reaped, KnowsItsWork, At, FindingType
  <2>2. findings' = findings \/ findings' = [findings EXCEPT ![v] = x]
    BY <1>3, <1>t, <2>1 DEF worker_mark_orphan_reaped
  <2> HIDE DEF x
  <2> QED
    BY <1>3, <1>t, <2>1, <2>2
<1>4. CASE operator_approve_orphan_reap
  <2>1. prompt.vmid \in Vmids /\ prompt.guest \in 0 .. MaxGuests
    BY <1>4, <1>t DEF operator_approve_orphan_reap, PromptType
  <2>2. prompt' \in PromptType
    BY <1>4, <1>t DEF operator_approve_orphan_reap, PromptType
  <2>3. findings' \in [Vmids -> FindingType]
    BY <1>4, <1>t, <2>1 DEF operator_approve_orphan_reap, FindingType
  <2> QED
    BY <2>2, <2>3
<1>5. ASSUME NEW v \in Vmids, operator_list_orphan_guests(v)
      PROVE  findings' \in [Vmids -> FindingType] /\ prompt' \in PromptType
  BY <1>5, <1>t DEF operator_list_orphan_guests, FindingType, PromptType
<1>6. ASSUME NEW v \in Vmids, operator_dismiss_orphan_guest(v)
      PROVE  findings' \in [Vmids -> FindingType] /\ prompt' \in PromptType
  BY <1>6, <1>t DEF operator_dismiss_orphan_guest, FindingType
<1> QED
  BY <1>1, <1>2, <1>3, <1>4, <1>5, <1>6, FindingEffect DEF Operator

\* The worker after a step, and what it then works on.
LEMMA WorkerTypes ==
    ASSUME PoolInv, Next
    PROVE  worker' \in WorkerType /\ KnowsItsWork'
<1> USE DEF At, ProgramPoints
<1>0. /\ TypeOK /\ KnowsItsWork /\ worker \in WorkerType /\ Idle \in WorkerType
      /\ worker.todo \in SUBSET (Vmids \cup InstanceIds) /\ worker.rows \in 0 .. Cardinality(Vmids)
      /\ worker.vmid \in Vmids \cup {NoVmid} /\ worker.instance \in InstanceIds \cup {NoInstance}
  BY GuestsTyped, WorkerFields, IdleTyped DEF PoolInv
<1>1. CASE Customers \/ Operator
  BY <1>0, <1>1 DEF Customers, request_instance_create, request_instance_deletion, Operator,
     operator_approve_orphan_reap, operator_list_orphan_guests, operator_dismiss_orphan_guest,
     KnowsItsWork
<1>2. CASE Crash \/ EndRun
  BY <1>0, <1>2 DEF Crash, EndRun, KnowsItsWork, Idle
<1>3. CASE StartRun
  <2>1. InstancesIn({"deleting"}) \in SUBSET (Vmids \cup InstanceIds)
    BY DEF InstancesIn
  <2> QED
    BY <1>0, <1>3, <2>1 DEF StartRun, KnowsItsWork, Idle, WorkerType
<1>4. CASE Deletions
  <2>1. ASSUME NEW i \in InstanceIds, DestroyListed(i) PROVE worker' \in WorkerType /\ KnowsItsWork'
    BY <1>0, <2>1 DEF DestroyListed, KnowsItsWork, WorkerType
  <2>2. ASSUME NEW i \in InstanceIds, DestroyThrows(i) PROVE worker' \in WorkerType /\ KnowsItsWork'
    BY <1>0, <2>2 DEF DestroyThrows, Done, KnowsItsWork, WorkerType
  <2>3. CASE FinishDelete
    BY <1>0, <2>3 DEF FinishDelete, KnowsItsWork, WorkerType
  <2> QED
    BY <1>4, <2>1, <2>2, <2>3 DEF Deletions
<1>5. CASE ListPool
  <2>1. /\ RowsIn({"building"}) \in SUBSET (Vmids \cup InstanceIds)
        /\ Cardinality(RowsIn({"building", "warm"})) \in 0 .. Cardinality(Vmids)
    <3>1. RowsIn({"building"}) \in SUBSET Vmids /\ RowsIn({"building", "warm"}) \in SUBSET Vmids
      BY DEF RowsIn
    <3>2. Cardinality(Vmids) \in Nat
      BY VmidSets
    <3> QED
      BY <3>1, <3>2, VmidSets
  <2> QED
    BY <1>0, <1>5, <2>1 DEF ListPool, KnowsItsWork, Idle, WorkerType
<1>6. CASE PoolIsFull \/ worker_record_warm_pool_vm \/ BuildThrows
  BY <1>0, <1>6
     DEF PoolIsFull, worker_record_warm_pool_vm, BuildThrows, GoTo, WithVmid, KnowsItsWork,
     WorkerType
<1>7. ASSUME NEW v \in Vmids, RowEnrolled(v) \/ RowWaits(v) \/ RowExpires(v) \/ BuildOne(v)
      PROVE  worker' \in WorkerType /\ KnowsItsWork'
  BY <1>0, <1>7
     DEF RowEnrolled, RowWaits, RowExpires, BuildOne, Done, WithVmid, KnowsItsWork, WorkerType
<1>8. CASE DestroyExpired
  BY <1>0, <1>8 DEF DestroyExpired, Done, KnowsItsWork, WorkerType
<1>9. CASE worker_report_orphan_guests \/ SweepThrows \/ EndReaps
  BY <1>0, <1>9 DEF worker_report_orphan_guests, SweepThrows, EndReaps, GoTo, ToLoop, Idle,
     KnowsItsWork, WorkerType
<1>10. CASE worker_list_approved_reaps
  <2>1. ApprovedReaps \in SUBSET (Vmids \cup InstanceIds)
    BY DEF ApprovedReaps
  <2> QED
    BY <1>0, <1>10, <2>1 DEF worker_list_approved_reaps, KnowsItsWork, WorkerType
<1>11. CASE worker_mark_orphan_reaped
  BY <1>0, <1>11 DEF worker_mark_orphan_reaped, Done, KnowsItsWork, WorkerType
<1>12. ASSUME NEW v \in Vmids, ReapGuest(v) \/ ReapThrows(v)
       PROVE  worker' \in WorkerType /\ KnowsItsWork'
  BY <1>0, <1>12 DEF ReapGuest, ReapThrows, Done, WithVmid, KnowsItsWork, WorkerType
<1>13. CASE ConfigureClaimed \/ CloneThrows
  BY <1>0, <1>13 DEF ConfigureClaimed, CloneThrows, GoTo, KnowsItsWork, WorkerType
<1>14. CASE worker_update_instance_runtime \/ MarkDone \/ Verify \/ RollBack
  BY <1>0, <1>14
     DEF worker_update_instance_runtime, MarkDone, Verify, RollBack, GoTo, ToLoop, Idle,
     KnowsItsWork, WorkerType
<1>15. CASE \E i \in InstanceIds : PickCreate(i)
  BY <1>0, <1>15 DEF PickCreate, KnowsItsWork, WorkerType
<1>16. ASSUME NEW v \in Vmids, worker_claim_warm_pool_vm(v) \/ CloneCold(v)
       PROVE  worker' \in WorkerType /\ KnowsItsWork'
  BY <1>0, <1>16 DEF worker_claim_warm_pool_vm, CloneCold, WithVmid, KnowsItsWork, WorkerType
<1> QED
  BY <1>1, <1>2, <1>3, <1>4, <1>5, <1>6, <1>7, <1>8, <1>9, <1>10, <1>11, <1>12, <1>13, <1>14,
     <1>15,
     <1>16 DEF Next, Run, WarmPool, OrphanSweep, Creates

LEMMA PoolNext ==
    ASSUME PoolInv, Next
    PROVE  PoolBounded' /\ Cardinality(Waiting') <= Target
<1> USE DEF At
<1>0. /\ TypeOK /\ KnowsItsWork /\ PoolBounded /\ worker \in WorkerType
      /\ warm_pool_vms \in [Vmids -> PoolRowType] /\ Waiting \subseteq Vmids
      /\ worker.todo \in SUBSET (Vmids \cup InstanceIds) /\ worker.rows \in Nat
      /\ Cardinality(Waiting) \in Nat /\ Cardinality(Waiting) <= Target /\ Target \in Nat
  <2>1. Waiting \in SUBSET Vmids
    BY DEF Waiting, RowsIn
  <2>2. Cardinality(Waiting) \in Nat /\ Cardinality(Vmids) \in Nat
    BY <2>1, VmidSets
  <2> QED
    BY <2>1, <2>2, GuestsTyped, WorkerFields, BoundsAreNumbers DEF PoolInv
<1>1. CASE ListPool
  <2>1. Waiting' = Waiting /\ RowsIn({"building", "warm"}) = Waiting
    BY <1>1 DEF ListPool, Waiting, RowsIn
  <2>2. worker'.pc = "pool" /\ worker'.rows = Cardinality(Waiting) /\ worker'.todo = RowsIn({"building"})
    BY <1>1, <2>1 DEF ListPool, Idle
  <2>3. \A v \in worker'.todo : warm_pool_vms'[v].state = "building"
    BY <1>1, <2>2 DEF ListPool, RowsIn
  <2> QED
    BY <1>0, <2>1, <2>2, <2>3 DEF PoolBounded
<1>2. ASSUME NEW v \in Vmids, RowEnrolled(v) \/ RowWaits(v)
      PROVE  PoolBounded' /\ Cardinality(Waiting') <= Target
  <2>1. /\ worker.pc = "pool" /\ worker'.pc = "pool" /\ worker'.todo = worker.todo \ {v}
        /\ worker'.rows = worker.rows /\ warm_pool_vms[v].state = "building"
    BY <1>0, <1>2 DEF RowEnrolled, RowWaits, Done, PoolBounded, WorkerType
  <2>2. \A u \in Vmids : u # v => warm_pool_vms'[u] = warm_pool_vms[u]
    BY <1>0, <1>2, RowTyped DEF RowEnrolled, RowWaits
  <2>3. warm_pool_vms'[v].state \in {"building", "warm"}
    BY <1>0, <1>2, <2>1, RowTyped DEF RowEnrolled, RowWaits
  <2>4. Waiting' = Waiting
    BY <2>1, <2>2, <2>3 DEF Waiting, RowsIn
  <2> QED
    BY <1>0, <2>1, <2>2, <2>4 DEF PoolBounded
<1>3. ASSUME NEW v \in Vmids, RowExpires(v)
      PROVE  PoolBounded' /\ Cardinality(Waiting') <= Target
  <2>1. /\ worker.pc = "pool" /\ worker'.pc = "expire" /\ worker'.todo = worker.todo
        /\ worker'.rows = worker.rows /\ worker'.vmid = v
    BY <1>0, <1>3 DEF RowExpires, WithVmid, WorkerType
  <2>2. /\ \A u \in Vmids : u # v => warm_pool_vms'[u] = warm_pool_vms[u]
        /\ warm_pool_vms'[v].state = "failed"
    BY <1>0, <1>3, RowTyped DEF RowExpires
  <2>3. Waiting' \subseteq Waiting
    BY <2>2 DEF Waiting, RowsIn
  <2>4. Cardinality(Waiting') <= Cardinality(Waiting) /\ Cardinality(Waiting') \in Nat
    BY <2>3, SmallerPool
  <2> QED
    BY <1>0, <2>1, <2>2, <2>4 DEF PoolBounded
<1>4. CASE DestroyExpired
  <2>1. /\ worker.pc = "expire" /\ worker'.pc = "pool" /\ worker'.todo = worker.todo \ {worker.vmid}
        /\ worker'.rows = worker.rows /\ warm_pool_vms' = warm_pool_vms
    BY <1>0, <1>4 DEF DestroyExpired, Done, WorkerType
  <2>2. Waiting' = Waiting
    BY <2>1 DEF Waiting, RowsIn
  <2> QED
    BY <1>0, <2>1, <2>2 DEF PoolBounded
<1>5. ASSUME NEW v \in Vmids, BuildOne(v)
      PROVE  PoolBounded' /\ Cardinality(Waiting') <= Target
  <2>1. /\ worker.pc = "pool" /\ worker.rows < Target /\ worker'.pc = "record"
        /\ warm_pool_vms' = warm_pool_vms
    BY <1>0, <1>5 DEF BuildOne, WithVmid, WorkerType
  <2>2. Waiting' = Waiting
    BY <2>1 DEF Waiting, RowsIn
  <2> QED
    BY <1>0, <2>1, <2>2 DEF PoolBounded
<1>6. CASE worker_record_warm_pool_vm
  <2>1. worker.pc = "record" /\ worker.vmid \in Vmids /\ worker'.pc = "sweep"
    BY <1>0, <1>6 DEF worker_record_warm_pool_vm, WithVmid, KnowsItsWork, WorkerType
  <2>2. Waiting' \subseteq Waiting \cup {worker.vmid} /\ Waiting' \subseteq Vmids
    BY <1>0, <1>6, <2>1 DEF worker_record_warm_pool_vm, Waiting, RowsIn
  <2>3. Waiting \cup {worker.vmid} \in SUBSET Vmids /\ Waiting' \in SUBSET Vmids
    BY <1>0, <2>1, <2>2
  <2>4. /\ Cardinality(Waiting') <= Cardinality(Waiting \cup {worker.vmid})
        /\ Cardinality(Waiting \cup {worker.vmid}) <= Cardinality(Waiting) + 1
        /\ Cardinality(Waiting') \in Nat /\ Cardinality(Waiting \cup {worker.vmid}) \in Nat
    BY <1>0, <2>1, <2>2, <2>3, VmidSets
  <2> QED
    BY <1>0, <2>1, <2>4 DEF PoolBounded
<1>7. ASSUME NEW v \in Vmids, worker_claim_warm_pool_vm(v)
      PROVE  PoolBounded' /\ Cardinality(Waiting') <= Target
  <2>1. worker'.pc \notin {"pool", "expire"} /\ worker'.pc # "record"
    BY <1>0, <1>7 DEF worker_claim_warm_pool_vm, WithVmid, WorkerType
  <2>2. Waiting' \subseteq Waiting
    BY <1>0, <1>7 DEF worker_claim_warm_pool_vm, Waiting, RowsIn
  <2> QED
    BY <2>1, <2>2, SmallerPool DEF PoolBounded
<1>8. CASE FinishDelete
  <2>1. worker'.pc \notin {"pool", "expire"} /\ worker'.pc # "record"
    BY <1>0, <1>8 DEF FinishDelete, WorkerType
  <2>2. \A v \in Vmids : warm_pool_vms'[v].state = warm_pool_vms[v].state
    BY <1>0, <1>8 DEF FinishDelete, PoolRowType
  <2> QED
    BY <2>1, <2>2, SamePool DEF PoolBounded
<1>9. CASE Customers \/ Operator
  BY <1>9, PoolUntouched
     DEF Customers, request_instance_create, request_instance_deletion, Operator,
     operator_approve_orphan_reap, operator_list_orphan_guests, operator_dismiss_orphan_guest
<1>10. CASE Crash \/ EndRun \/ StartRun \/ PoolIsFull \/ BuildThrows
  <2>1. CASE Crash \/ EndRun \/ StartRun
    <3>1. CASE Crash \/ EndRun
      <4>1. worker'.pc = "idle"
        BY <3>1 DEF Crash, EndRun, Idle
      <4>2. warm_pool_vms' = warm_pool_vms
        BY <3>1 DEF Crash, EndRun
      <4> QED
        BY <4>1, <4>2, PoolUntouched
    <3>2. CASE StartRun
      <4>1. worker'.pc = "deletions"
        BY <3>2 DEF StartRun, Idle
      <4>2. warm_pool_vms' = warm_pool_vms
        BY <3>2 DEF StartRun
      <4> QED
        BY <4>1, <4>2, PoolUntouched
    <3> QED
      BY <2>1, <3>1, <3>2
  <2>2. CASE PoolIsFull \/ BuildThrows
    <3>1. worker'.pc = "sweep" /\ warm_pool_vms' = warm_pool_vms
      BY <1>0, <2>2 DEF PoolIsFull, BuildThrows, GoTo, WithVmid, WorkerType
    <3> QED
      BY <3>1, PoolUntouched
  <2> QED
    BY <1>10, <2>1, <2>2
<1>11. ASSUME NEW i \in InstanceIds, DestroyListed(i) \/ DestroyThrows(i) \/ PickCreate(i)
       PROVE  PoolBounded' /\ Cardinality(Waiting') <= Target
  BY <1>0, <1>11, PoolUntouched DEF DestroyListed, DestroyThrows, PickCreate, Done, WorkerType
<1>12. CASE OrphanSweep
  BY <1>0, <1>12, PoolUntouched
     DEF OrphanSweep, worker_report_orphan_guests, SweepThrows, ToLoop, Idle,
     worker_list_approved_reaps, worker_mark_orphan_reaped, EndReaps, ReapGuest, ReapThrows, GoTo,
     Done, WithVmid, WorkerType
<1>13. CASE \/ ConfigureClaimed \/ CloneThrows \/ worker_update_instance_runtime \/ MarkDone
            \/ Verify \/ RollBack \/ \E v \in Vmids : CloneCold(v)
  BY <1>0, <1>13, PoolUntouched DEF ConfigureClaimed, CloneThrows, worker_update_instance_runtime,
     MarkDone, Verify, RollBack, CloneCold, GoTo, ToLoop, Idle, WithVmid, WorkerType
<1> QED
  BY <1>1, <1>2, <1>3, <1>4, <1>5, <1>6, <1>7, <1>8, <1>9, <1>10, <1>11, <1>12, <1>13
     DEF Next, Run, Deletions, WarmPool, Creates

LEMMA PoolInvNext ==
    ASSUME PoolInv, [Next]_vars
    PROVE  PoolInv'
<1>1. CASE UNCHANGED vars
  BY <1>1 DEF vars, PoolInv, TypeOK, KnowsItsWork, PoolBounded, Waiting, RowsIn, At
<1>2. CASE Next
  <2>1. TypeOK'
    BY <1>2, GuestTypes, RowTypes, InstanceTypes, FindingTypes, WorkerTypes, PoolNext, TypeParts
       DEF PoolInv
  <2> QED
    BY <1>2, <2>1, WorkerTypes, PoolNext DEF PoolInv
<1> QED
  BY <1>1, <1>2

LEMMA PoolInvInit == Init => PoolInv
<1> SUFFICES ASSUME Init PROVE PoolInv
  OBVIOUS
<1>1. Waiting = {} /\ worker.pc = "idle"
  BY DEF Init, Waiting, RowsIn, NoPoolRow, Idle
<1>2. Cardinality({}) = 0 /\ 0 \in 0 .. MaxGuests /\ Target \in Nat
  BY FS_EmptySet, BoundsAreNumbers
<1>3. TypeOK
  BY <1>1, <1>2, IdleTyped
     DEF Init, TypeOK, Waiting, RowsIn, NoGuest, InstanceType, InstanceStates,
     PromptType
<1> QED
  BY <1>1, <1>3 DEF PoolInv, KnowsItsWork, PoolBounded, At

LEMMA PoolInvHolds == Spec => []PoolInv
BY PoolInvInit, PoolInvNext, PTL DEF Spec

-----------------------------------------------------------------------------
(* What a step does to the run.                                            *)

StepsTo(from, to) == worker.pc = from /\ worker'.pc = to
SameTodo == worker'.todo = worker.todo
SameInstance == worker'.instance = worker.instance

DeletionStep ==
    \/ /\ StartRun /\ StepsTo("idle", "deletions") /\ worker'.todo = InstancesIn({"deleting"})
    \/ \E i \in InstanceIds :
        /\ DestroyListed(i) /\ i \in worker.todo
        /\ StepsTo("deletions", "finish_delete") /\ SameTodo /\ worker'.instance = i
    \/ \E i \in InstanceIds :
        /\ DestroyThrows(i) /\ i \in worker.todo
        /\ StepsTo("deletions", "deletions") /\ worker'.todo = worker.todo \ {i}
    \/ /\ FinishDelete /\ StepsTo("finish_delete", "deletions")
       /\ worker'.todo = worker.todo \ {worker.instance}

PoolStep ==
    \/ /\ ListPool /\ worker.todo = {}
       /\ StepsTo("deletions", "pool") /\ worker'.todo = RowsIn({"building"})
    \/ \E v \in Vmids :
        /\ RowEnrolled(v) \/ RowWaits(v)
        /\ v \in worker.todo /\ StepsTo("pool", "pool") /\ worker'.todo = worker.todo \ {v}
    \/ \E v \in Vmids :
        /\ RowExpires(v) /\ v \in worker.todo
        /\ StepsTo("pool", "expire") /\ SameTodo /\ worker'.vmid = v
    \/ /\ DestroyExpired /\ StepsTo("expire", "pool") /\ worker'.todo = worker.todo \ {worker.vmid}
    \/ \E v \in Vmids : BuildOne(v) /\ StepsTo("pool", "record") /\ worker'.vmid = v
    \/ PoolIsFull /\ StepsTo("pool", "sweep")
    \/ (worker_record_warm_pool_vm \/ BuildThrows) /\ StepsTo("record", "sweep")

SweepStep ==
    \/ worker_report_orphan_guests /\ StepsTo("sweep", "approved")
    \/ SweepThrows /\ StepsTo("sweep", "loop")
    \/ EndReaps /\ StepsTo("reaping", "loop")
    \/ /\ worker_list_approved_reaps /\ StepsTo("approved", "reaping") /\ worker'.todo = ApprovedReaps
    \/ \E v \in Vmids :
        /\ ReapGuest(v) /\ v \in worker.todo /\ StepsTo("reaping", "mark")
        /\ SameTodo /\ worker'.vmid = v
    \/ \E v \in Vmids :
        /\ ReapThrows(v) /\ StepsTo("reaping", "reaping") /\ worker'.todo = worker.todo \ {v}
    \/ /\ worker_mark_orphan_reaped /\ StepsTo("mark", "reaping")
       /\ worker'.todo = worker.todo \ {worker.vmid}

CreateStep ==
    \/ \E i \in InstanceIds :
        /\ PickCreate(i) /\ worker'.instance = i
        /\ \/ instances[i].state = "requested" /\ StepsTo("loop", "claim")
           \/ instances[i].state = "cloned" /\ StepsTo("loop", "verify")
    \/ \E v \in Vmids :
        /\ worker_claim_warm_pool_vm(v) /\ StepsTo("claim", "configure")
        /\ SameInstance /\ worker'.vmid = v
    \/ \E v \in Vmids :
        CloneCold(v) /\ StepsTo("claim", "attach") /\ SameInstance /\ worker'.vmid = v
    \/ CloneThrows /\ StepsTo("claim", "failing") /\ SameInstance
    \/ /\ ConfigureClaimed /\ SameInstance /\ worker'.vmid = worker.vmid
       /\ \/ StepsTo("configure", "attach") /\ Running(worker.vmid)
          \/ StepsTo("configure", "failing")
    \/ /\ worker_update_instance_runtime /\ SameInstance
       /\ StepsTo("attach", "done") \/ (StepsTo("attach", "failing") /\ UNCHANGED instances)
    \/ MarkDone /\ StepsTo("done", "loop")
    \/ Verify /\ StepsTo("verify", "loop")
    \/ Verify /\ StepsTo("verify", "failing") /\ SameInstance /\ UNCHANGED instances
    \/ RollBack /\ StepsTo("failing", "loop")

LEMMA WorkerEffect ==
    ASSUME PoolInv, Next
    PROVE  \/ /\ worker' = worker
              /\ Customers \/ Operator \/ \E v \in Vmids : worker_claim_warm_pool_vm(v) /\ At("claim")
           \/ (Crash \/ EndRun) /\ worker'.pc = "idle"
           \/ DeletionStep \/ PoolStep \/ SweepStep \/ CreateStep
<1> USE DEF At, StepsTo, SameTodo, SameInstance
<1>0. worker \in WorkerType
  BY GuestsTyped DEF PoolInv
<1>1. CASE Customers \/ Operator
  BY <1>1 DEF Customers, request_instance_create, request_instance_deletion, Operator,
     operator_approve_orphan_reap, operator_list_orphan_guests, operator_dismiss_orphan_guest
<1>2. CASE Crash \/ EndRun
  BY <1>2 DEF Crash, EndRun, Idle
<1>3. CASE StartRun
  BY <1>3 DEF StartRun, Idle, DeletionStep
<1>4. ASSUME NEW i \in InstanceIds, DestroyListed(i) \/ DestroyThrows(i) PROVE DeletionStep
  BY <1>0, <1>4 DEF DestroyListed, DestroyThrows, Done, WorkerType, DeletionStep
<1>5. CASE FinishDelete
  BY <1>0, <1>5 DEF FinishDelete, WorkerType, DeletionStep
<1>6. CASE ListPool \/ DestroyExpired \/ PoolIsFull \/ worker_record_warm_pool_vm \/ BuildThrows
  BY <1>0, <1>6 DEF ListPool, DestroyExpired, PoolIsFull, worker_record_warm_pool_vm, BuildThrows,
     Idle, Done, GoTo, WithVmid, WorkerType, PoolStep
<1>7. ASSUME NEW v \in Vmids, RowEnrolled(v) \/ RowWaits(v) \/ RowExpires(v) \/ BuildOne(v)
      PROVE  PoolStep
  BY <1>0, <1>7
     DEF RowEnrolled, RowWaits, RowExpires, BuildOne, Done, WithVmid, WorkerType, PoolStep
<1>8. CASE \/ worker_report_orphan_guests \/ SweepThrows \/ EndReaps \/ worker_list_approved_reaps
           \/ worker_mark_orphan_reaped
  BY <1>0, <1>8
     DEF worker_report_orphan_guests, SweepThrows, EndReaps, worker_list_approved_reaps,
     worker_mark_orphan_reaped, ToLoop, Idle, Done, GoTo, WorkerType, SweepStep
<1>9. ASSUME NEW v \in Vmids, ReapGuest(v) \/ ReapThrows(v) PROVE SweepStep
  BY <1>0, <1>9 DEF ReapGuest, ReapThrows, Done, WithVmid, WorkerType, SweepStep
<1>10. ASSUME NEW i \in InstanceIds, PickCreate(i) PROVE CreateStep
  BY <1>0, <1>10 DEF PickCreate, WorkerType, CreateStep
<1>11. ASSUME NEW v \in Vmids, worker_claim_warm_pool_vm(v)
       PROVE  CreateStep \/ (worker' = worker /\ At("claim"))
  BY <1>0, <1>11 DEF worker_claim_warm_pool_vm, WithVmid, WorkerType, CreateStep
<1>12. ASSUME NEW v \in Vmids, CloneCold(v) PROVE CreateStep
  BY <1>0, <1>12 DEF CloneCold, WithVmid, WorkerType, CreateStep
<1>13. CASE CloneThrows \/ ConfigureClaimed \/ worker_update_instance_runtime
  BY <1>0, <1>13
     DEF CloneThrows, ConfigureClaimed, worker_update_instance_runtime, GoTo, WorkerType,
     CreateStep
<1>14. CASE MarkDone \/ Verify \/ RollBack
  BY <1>0, <1>14 DEF MarkDone, Verify, RollBack, ToLoop, GoTo, Idle, WorkerType, CreateStep
<1> QED
  BY <1>1, <1>2, <1>3, <1>4, <1>5, <1>6, <1>7, <1>8, <1>9, <1>10, <1>11, <1>12, <1>13, <1>14
     DEF Next, Run, Deletions, WarmPool, OrphanSweep, Creates

\* What becomes of the row of an instance.
InstanceStep(i) ==
    \/ /\ request_instance_create(i) /\ instances[i].state = "none"
       /\ instances'[i].state = "requested" /\ instances'[i].vmid = NoVmid
    \/ /\ request_instance_deletion(i) /\ instances[i].state \in {"ready", "failed", "delete_failed"}
       /\ instances'[i].state = "deleting" /\ instances'[i].vmid = instances[i].vmid
    \/ /\ FinishDelete /\ i = worker.instance
       /\ instances'[i].state = "gone" /\ instances'[i].vmid = NoVmid
    \/ /\ DestroyThrows(i) /\ Running(instances[i].vmid)
       /\ instances'[i].state = "delete_failed" /\ instances'[i].vmid = instances[i].vmid
    \/ /\ worker_update_instance_runtime /\ i = worker.instance /\ worker'.pc = "done"
       /\ VmidIsFree(worker.vmid)
       /\ instances'[i].state = "requested" /\ instances'[i].vmid = worker.vmid
    \/ /\ MarkDone /\ i = worker.instance
       /\ instances'[i].state = "cloned" /\ instances'[i].vmid = instances[i].vmid
    \/ /\ Verify /\ i = worker.instance /\ Running(instances[i].vmid)
       /\ instances'[i].state = "ready" /\ instances'[i].vmid = instances[i].vmid
    \/ /\ RollBack /\ i = worker.instance /\ instances'[i].state = "failed"
       /\ \/ GuestRemoved(instances[i].vmid) /\ instances'[i].vmid = NoVmid
          \/ UNCHANGED guest_at /\ instances'[i].vmid = instances[i].vmid

LEMMA InstanceMoves ==
    ASSUME PoolInv, Next, NEW i \in InstanceIds
    PROVE  instances'[i] = instances[i] \/ InstanceStep(i)
<1> USE DEF At, InstanceStates
<1>t. /\ TypeOK /\ KnowsItsWork /\ instances \in [InstanceIds -> InstanceType]
      /\ NoVmid \in Vmids \cup {NoVmid} /\ \A j \in InstanceIds : instances[j].vmid \in Vmids \cup {NoVmid}
  BY GuestsTyped DEF InstanceType, PoolInv
<1>1. CASE UNCHANGED instances
  BY <1>1
<1>2. CASE Customers
  BY <1>2, <1>t, InstanceTyped DEF Customers, request_instance_create, request_instance_deletion,
     InstanceStep
<1>3. CASE FinishDelete
  BY <1>3, <1>t, InstanceTyped DEF FinishDelete, KnowsItsWork, InstanceStep
<1>4. CASE worker_update_instance_runtime
  <2>1. worker.instance \in InstanceIds /\ worker.vmid \in Vmids /\ worker \in WorkerType
    BY <1>t, <1>4, GuestsTyped DEF worker_update_instance_runtime, KnowsItsWork
  <2> QED
    BY <1>4, <1>t, <2>1, InstanceTyped
       DEF worker_update_instance_runtime, GoTo, WorkerType, InstanceStep
<1>5. CASE MarkDone \/ Verify
  BY <1>5, <1>t DEF MarkDone, Verify, KnowsItsWork, InstanceType, InstanceStep
<1>6. CASE RollBack
  <2>1. worker.instance \in InstanceIds
    BY <1>t, <1>6 DEF RollBack, KnowsItsWork
  <2> QED
    BY <1>6, <1>t, <2>1, InstanceTyped DEF RollBack, InstanceStep
<1>7. CASE \E j \in InstanceIds : DestroyThrows(j)
  BY <1>7, <1>t, InstanceTyped DEF DestroyThrows, InstanceStep
<1> QED
  BY <1>1, <1>2, <1>3, <1>4, <1>5, <1>6, <1>7, <1>t, InstanceEffect

-----------------------------------------------------------------------------
(* The rows, for each step.                                                *)

LEMMA GuestsHave ==
    ASSUME GuestsInv
    PROVE  /\ PoolInv /\ TypeOK /\ KnowsItsWork /\ PoolBounded
           /\ GuestsAreMade /\ VmidsDistinct /\ PoolRuns /\ NamedIsThere
           /\ Deleting /\ Building /\ Creating /\ FindingsTrue /\ Reaping
           /\ \A i \in InstanceIds : instances[i].vmid \in Vmids \cup {NoVmid}
           /\ made \in Nat /\ \A v \in Vmids : guest_at[v] \in Nat
<1>1. made \in Nat /\ (\A v \in Vmids : guest_at[v] \in Nat)
      /\ \A i \in InstanceIds : instances[i].vmid \in Vmids \cup {NoVmid}
  BY GuestsTyped, BoundsAreNumbers DEF GuestsInv, PoolInv, InstanceType
<1> QED
  BY <1>1 DEF GuestsInv, PoolInv, RowsInv, RunInv

\* Whose guest a step may remove.
LEMMA RemovesOwn ==
    ASSUME GuestsInv, NEW v \in Vmids, Removes(v)
    PROVE  /\ v \notin Waiting /\ ~InHand(v)
           /\ Stray(v) => ReapGuest(v)
           /\ \A i \in InstanceIds : instances[i].vmid = v =>
                \/ DestroyListed(i) /\ instances[i].state = "deleting"
                \/ RollBack /\ i = worker.instance
<1> USE DEF At
<1>0. v # NoVmid
  BY NullsAreNotNames
<1>1. ASSUME NEW i \in InstanceIds, DestroyListed(i), v = instances[i].vmid
      PROVE  /\ v \notin Waiting /\ ~InHand(v) /\ ~Stray(v) /\ instances[i].state = "deleting"
             /\ \A j \in InstanceIds : instances[j].vmid = v => j = i
  BY <1>0, <1>1, GuestsHave
     DEF DestroyListed, PoolRuns, Unnamed, InHand, Stray, VmidsDistinct, Deleting,
     InstancesIn
<1>2. CASE DestroyExpired /\ v = worker.vmid
  BY <1>0, <1>2, GuestsHave DEF DestroyExpired, PoolRuns, Unnamed, InHand, Stray, Building
<1>3. CASE ReapGuest(v)
  <2>1. worker.pc = "reaping" /\ Approved(v)
    BY <1>3, GuestsHave DEF ReapGuest, Reaping
  <2>2. Stray(v)
    BY <2>1, GuestsHave DEF Approved, FindingsTrue, Shown
  <2> QED
    BY <1>3, <2>1, <2>2 DEF Stray, Waiting, RowsIn, Unnamed
<1>4. CASE RollBack /\ v = instances[worker.instance].vmid
  <2>1. worker.pc = "failing" /\ worker.instance \in InstanceIds
    BY <1>4, GuestsHave DEF RollBack, KnowsItsWork
  <2> QED
    BY <1>0, <1>4, <2>1, GuestsHave DEF PoolRuns, Unnamed, InHand, Stray, VmidsDistinct
<1> QED
  BY <1>1, <1>2, <1>3, <1>4 DEF Removes

\* The guests after a step: a new one at a free vmid, or one removed.
LEMMA GuestMoves ==
    ASSUME GuestsInv, Next
    PROVE  \/ guest_at' = guest_at /\ made' = made
           \/ \E v \in Vmids :
                /\ BuildOne(v) \/ CloneCold(v)
                /\ guest_at[v] = NoGuest /\ guest_at'[v] = made + 1 /\ made' = made + 1
                /\ \A u \in Vmids : u # v => guest_at'[u] = guest_at[u]
           \/ /\ made' = made
              /\ \E v \in Vmids :
                /\ Removes(v) /\ guest_at'[v] = NoGuest
                /\ \A u \in Vmids : u # v => guest_at'[u] = guest_at[u]
<1>0. TypeOK /\ KnowsItsWork
  BY GuestsHave
<1>1. CASE UNCHANGED <<guest_at, made>>
  BY <1>1
<1>2. CASE \E v \in Vmids : CloneAs(v) /\ (BuildOne(v) \/ CloneCold(v))
  BY <1>0, <1>2, CloneTyped
<1>3. ASSUME NEW v, made' = made, GuestRemoved(v), Removes(v)
      PROVE  \/ guest_at' = guest_at
             \/ /\ v \in Vmids /\ guest_at'[v] = NoGuest
                /\ \A u \in Vmids : u # v => guest_at'[u] = guest_at[u]
  <2>1. v \in Vmids \cup {NoVmid}
    BY <1>0, <1>3, RemovesTyped
  <2> QED
    BY <1>0, <1>3, <2>1, RemovedTyped DEF GuestRemoved
<1> QED
  BY <1>0, <1>1, <1>2, <1>3, GuestEffect

LEMMA MadeNext ==
    ASSUME GuestsInv, Next
    PROVE  GuestsAreMade'
<1>0. GuestsAreMade /\ made \in Nat /\ \A v \in Vmids : guest_at[v] \in Nat
  BY GuestsHave
<1>1. CASE guest_at' = guest_at /\ made' = made
  BY <1>0, <1>1 DEF GuestsAreMade
<1>2. ASSUME NEW v \in Vmids, guest_at'[v] = made + 1, made' = made + 1,
             \A u \in Vmids : u # v => guest_at'[u] = guest_at[u]
      PROVE  GuestsAreMade'
  <2>1. \A u \in Vmids : u # v => guest_at'[u] <= made
    BY <1>0, <1>2 DEF GuestsAreMade
  <2> QED
    BY <1>0, <1>2, <2>1 DEF GuestsAreMade
<1>3. ASSUME made' = made, NEW v \in Vmids, guest_at'[v] = NoGuest,
             \A u \in Vmids : u # v => guest_at'[u] = guest_at[u]
      PROVE  GuestsAreMade'
  BY <1>0, <1>3 DEF GuestsAreMade, NoGuest
<1> QED
  BY <1>1, <1>2, <1>3, GuestMoves

LEMMA DistinctNext ==
    ASSUME GuestsInv, Next
    PROVE  VmidsDistinct'
<1>0. PoolInv /\ VmidsDistinct
  BY GuestsHave
<1>1. ASSUME NEW i \in InstanceIds
      PROVE  \/ instances'[i].vmid \in {NoVmid, instances[i].vmid}
             \/ /\ i = worker.instance /\ instances'[i].vmid = worker.vmid
                /\ \A j \in InstanceIds \ {i} : instances[j].vmid # worker.vmid
  BY <1>0, InstanceMoves DEF InstanceStep, VmidIsFree
<1> QED
  BY <1>0, <1>1 DEF VmidsDistinct

\* What names, what is in hand, and what runs, from a step to the next.
LEMMA NameMoves ==
    ASSUME GuestsInv, Next, NEW i \in InstanceIds
    PROVE  \/ instances'[i].vmid = instances[i].vmid
           \/ instances'[i].vmid = NoVmid
           \/ /\ worker_update_instance_runtime /\ i = worker.instance
              /\ worker'.pc = "done" /\ InHand(worker.vmid) /\ VmidIsFree(worker.vmid)
              /\ instances'[i].vmid = worker.vmid
<1>1. PoolInv
  BY GuestsHave
<1>2. worker_update_instance_runtime => InHand(worker.vmid)
  BY DEF worker_update_instance_runtime, InHand, At
<1> QED
  BY <1>1, <1>2, InstanceMoves DEF InstanceStep

LEMMA HandMoves ==
    ASSUME GuestsInv, Next, NEW v \in Vmids, InHand(v)'
    PROVE  \/ InHand(v)
           \/ worker_claim_warm_pool_vm(v) /\ StepsTo("claim", "configure")
           \/ BuildOne(v) /\ StepsTo("pool", "record")
           \/ CloneCold(v) /\ StepsTo("claim", "attach")
<1> USE DEF StepsTo
<1>0. PoolInv
  BY GuestsHave
<1>1. worker'.pc \in {"record", "configure", "attach"} /\ worker'.vmid = v
  BY DEF InHand
<1>2. CASE worker' = worker
  BY <1>2 DEF InHand
<1>3. CASE worker'.pc = "idle"
  BY <1>1, <1>3
<1>4. CASE DeletionStep \/ SweepStep
  BY <1>1, <1>4 DEF DeletionStep, SweepStep
<1>5. CASE PoolStep
  BY <1>1, <1>5 DEF PoolStep, InHand
<1>6. CASE CreateStep
  BY <1>1, <1>6 DEF CreateStep, InHand
<1> QED
  BY <1>0, <1>2, <1>3, <1>4, <1>5, <1>6, WorkerEffect

LEMMA GuestStays ==
    ASSUME GuestsInv, Next, NEW v \in Vmids
    PROVE  /\ guest_at'[v] = guest_at[v]
                \/ (guest_at[v] = NoGuest /\ (BuildOne(v) \/ CloneCold(v)) /\ guest_at'[v] = made + 1)
                \/ (Removes(v) /\ guest_at'[v] = NoGuest)
           /\ BuildOne(v) \/ CloneCold(v) =>
                guest_at[v] = NoGuest /\ guest_at'[v] = made + 1 /\ made' = made + 1
<1>1. BuildOne(v) \/ CloneCold(v) =>
        guest_at[v] = NoGuest /\ guest_at'[v] = made + 1 /\ made' = made + 1
  BY GuestsHave, CloneTyped DEF BuildOne, CloneCold
<1> QED
  BY <1>1, GuestMoves

LEMMA PoolRunsNext ==
    ASSUME GuestsInv, Next
    PROVE  PoolRuns'
<1>0. PoolInv /\ PoolRuns /\ TypeOK /\ KnowsItsWork /\ Building
  BY GuestsHave
<1> SUFFICES ASSUME NEW v \in Vmids, v \in Waiting'
             PROVE  (Running(v) /\ Unnamed(v) /\ ~InHand(v) /\ (At("expire") => worker.vmid # v))'
  BY DEF PoolRuns, Waiting, RowsIn
<1>v. v # NoVmid
  BY NullsAreNotNames
<1>1. CASE v \in Waiting
  <2>0. Running(v) /\ Unnamed(v) /\ ~InHand(v) /\ (At("expire") => worker.vmid # v)
    BY <1>0, <1>1 DEF PoolRuns
  <2>1. Running(v)'
    BY <1>1, <1>v, <2>0, GuestStays, RemovesOwn DEF Running
  <2>2. Unnamed(v)'
    BY <1>v, <2>0, NameMoves DEF Unnamed
  <2>3. ~InHand(v)'
    <3>1. ~worker_claim_warm_pool_vm(v)
      BY <1>0, GuestsTyped DEF worker_claim_warm_pool_vm, Waiting, RowsIn
    <3> QED
      BY <2>0, <3>1, HandMoves, GuestStays DEF Running
  <2>4. (At("expire") => worker.vmid # v)'
    <3>1. ~RowExpires(v)
      BY <1>0, RowTyped DEF RowExpires, Waiting, RowsIn
    <3>2. CASE worker' = worker
      BY <2>0, <3>2 DEF At
    <3>3. CASE worker'.pc = "idle"
      BY <3>3 DEF At
    <3>4. CASE DeletionStep \/ SweepStep \/ CreateStep
      BY <3>4 DEF DeletionStep, SweepStep, CreateStep, At, StepsTo
    <3>5. CASE PoolStep
      BY <3>1, <3>5 DEF PoolStep, At, StepsTo
    <3> QED
      BY <1>0, <3>2, <3>3, <3>4, <3>5, WorkerEffect
  <2> QED
    BY <2>1, <2>2, <2>3, <2>4
<1>2. CASE v \notin Waiting
  <2>1. worker_record_warm_pool_vm /\ worker.vmid = v
    BY <1>0, <1>2, RowTypes DEF Waiting, RowsIn, RowEnrolled, PoolBounded, PoolInv, At
  <2>2. UNCHANGED <<guest_at, instances>> /\ worker'.pc = "sweep" /\ worker.pc = "record"
    BY <1>0, <2>1, GuestsTyped DEF worker_record_warm_pool_vm, WithVmid, WorkerType, At
  <2>3. Running(v) /\ Unnamed(v)
    BY <1>0, <2>1, <2>2 DEF Building
  <2> QED
    BY <2>2, <2>3 DEF Running, Unnamed, InHand, At
<1> QED
  BY <1>1, <1>2

LEMMA NamedNext ==
    ASSUME GuestsInv, Next, NEW i \in InstanceIds
    PROVE  /\ instances'[i].state = "ready" => instances'[i].vmid # NoVmid
           /\ instances'[i].state = "none" => instances'[i].vmid = NoVmid
           /\ instances'[i].vmid # NoVmid =>
                \/ Running(instances[i].vmid)'
                \/ instances'[i].state = "deleting" /\ BeingDeleted(i)'
<1>0. PoolInv /\ NamedIsThere /\ TypeOK /\ KnowsItsWork /\ Building /\ VmidsDistinct
      /\ \A j \in InstanceIds : instances[j].vmid \in Vmids \cup {NoVmid}
  BY GuestsHave
<1>1. /\ instances'[i].state = "ready" => instances'[i].vmid # NoVmid
      /\ instances'[i].state = "none" => instances'[i].vmid = NoVmid
  BY <1>0, InstanceMoves DEF InstanceStep, NamedIsThere, Running
<1>2. SUFFICES ASSUME instances'[i].vmid # NoVmid
               PROVE  Running(instances[i].vmid)' \/ (instances'[i].state = "deleting" /\ BeingDeleted(i)')
  BY <1>1
<1>3. CASE instances'[i].vmid # instances[i].vmid
  <2>1. worker_update_instance_runtime /\ instances'[i].vmid = worker.vmid
    BY <1>2, <1>3, NameMoves
  <2>2. Running(worker.vmid) /\ guest_at' = guest_at
    BY <1>0, <2>1 DEF worker_update_instance_runtime, Building, At
  <2> QED
    BY <1>2, <2>1, <2>2 DEF Running
<1>4. CASE instances'[i].vmid = instances[i].vmid /\ Running(instances[i].vmid)
  <2> DEFINE v == instances[i].vmid
  <2>0. v \in Vmids
    BY <1>0, <1>2, <1>4
  <2>1. CASE guest_at'[v] # NoGuest
    BY <1>4, <2>0, <2>1 DEF Running
  <2>2. CASE guest_at'[v] = NoGuest
    <3>1. Removes(v)
      BY <2>0, <2>2, <1>4, GuestStays DEF Running, NoGuest
    <3>2. CASE DestroyListed(i) /\ instances[i].state = "deleting"
      <4>1. /\ worker'.todo = worker.todo /\ i \in worker.todo
            /\ worker'.pc = "finish_delete" /\ instances' = instances
        BY <1>0, <3>2, GuestsTyped DEF DestroyListed, WorkerType
      <4> QED
        BY <3>2, <4>1 DEF BeingDeleted
    <3>3. CASE RollBack /\ i = worker.instance
      <4>1. CASE InstanceBecomes(i, "failed", NoVmid)
        BY <1>0, <1>2, <4>1, InstanceTyped DEF InstanceStates
      <4>2. CASE UNCHANGED guest_at
        BY <1>4, <2>0, <2>2, <4>2 DEF Running
      <4> QED
        BY <3>3, <4>1, <4>2 DEF RollBack
    <3> QED
      BY <2>0, <3>1, <3>2, <3>3, RemovesOwn
  <2> QED
    BY <2>1, <2>2
<1>5. CASE instances'[i].vmid = instances[i].vmid /\ ~Running(instances[i].vmid)
  <2>0. instances[i].state = "deleting" /\ BeingDeleted(i)
    BY <1>0, <1>2, <1>5 DEF NamedIsThere
  <2>1. instances'[i].state = "deleting"
    <3>1. worker.pc \in {"idle", "deletions", "finish_delete"}
      BY <2>0 DEF BeingDeleted, At
    <3>2. ~worker_update_instance_runtime /\ ~MarkDone /\ ~RollBack
      BY <3>1 DEF worker_update_instance_runtime, MarkDone, RollBack, At
    <3> QED
      BY <1>0, <1>2, <1>5, <2>0, <3>2, InstanceMoves DEF InstanceStep
  <2>2. BeingDeleted(i)'
    <3>1. /\ ~(FinishDelete /\ worker.instance = i) /\ ~DestroyThrows(i)
          /\ At("idle") \/ (worker.pc \in {"deletions", "finish_delete"} /\ i \in worker.todo)
          /\ i \in InstancesIn({"deleting"})
      <4>1. FinishDelete /\ worker.instance = i => instances'[i].vmid = NoVmid
        BY <1>0, InstanceTyped DEF FinishDelete, InstanceStates
      <4>2. ~DestroyThrows(i)
        BY <1>5 DEF DestroyThrows
      <4> QED
        BY <1>2, <2>0, <4>1, <4>2 DEF BeingDeleted, InstancesIn
    <3>2. CASE worker' = worker
      BY <3>1, <3>2 DEF BeingDeleted, At
    <3>3. CASE worker'.pc = "idle"
      BY <3>3 DEF BeingDeleted, At
    <3>4. CASE DeletionStep
      BY <3>1, <3>4 DEF DeletionStep, BeingDeleted, StepsTo, SameTodo, At
    <3>5. CASE PoolStep
      BY <3>1, <3>5 DEF PoolStep, StepsTo, At
    <3>6. CASE SweepStep \/ CreateStep
      BY <3>1, <3>6 DEF SweepStep, CreateStep, StepsTo, At
    <3> QED
      BY <1>0, <3>2, <3>3, <3>4, <3>5, <3>6, WorkerEffect
  <2> QED
    BY <2>1, <2>2
<1> QED
  BY <1>3, <1>4, <1>5

-----------------------------------------------------------------------------
(* What each part of a run knows of its rows, for each step.               *)

\* Beside the run, customers and the operator move rows that it leaves alone.
LEMMA BesideTheRun ==
    ASSUME GuestsInv, Next, worker' = worker
    PROVE  /\ guest_at' = guest_at
           /\ At("claim") \/ warm_pool_vms' = warm_pool_vms
           /\ \A i \in InstanceIds :
                \/ instances'[i] = instances[i]
                \/ /\ instances[i].state \in {"none", "ready", "failed", "delete_failed"}
                   /\ instances'[i].vmid \in {NoVmid, instances[i].vmid}
<1>0. PoolInv
  BY GuestsHave
<1>1. CASE Customers
  <2>1. guest_at' = guest_at /\ warm_pool_vms' = warm_pool_vms /\ worker' = worker
    BY <1>1 DEF Customers, request_instance_create, request_instance_deletion
  <2>2. ASSUME NEW i \in InstanceIds
        PROVE  \/ instances'[i] = instances[i]
               \/ /\ instances[i].state \in {"none", "ready", "failed", "delete_failed"}
                  /\ instances'[i].vmid \in {NoVmid, instances[i].vmid}
    <3>1. ASSUME NEW j \in InstanceIds, request_instance_create(j)
          PROVE  IF j = i THEN instances[i].state = "none" /\ instances'[i].vmid = NoVmid
                          ELSE instances'[i] = instances[i]
      BY <1>0, <3>1, InstanceTyped DEF request_instance_create, InstanceStates, PoolInv
    <3>2. ASSUME NEW j \in InstanceIds, request_instance_deletion(j)
          PROVE  IF j = i THEN /\ instances[i].state \in {"ready", "failed", "delete_failed"}
                               /\ instances'[i].vmid = instances[i].vmid
                          ELSE instances'[i] = instances[i]
      BY <1>0, <3>2, GuestsHave, InstanceTyped DEF request_instance_deletion, InstanceStates
    <3> QED
      BY <1>1, <3>1, <3>2 DEF Customers
  <2> QED
    BY <2>1, <2>2
<1>2. CASE Operator
  BY <1>2 DEF Operator, operator_approve_orphan_reap, operator_list_orphan_guests,
     operator_dismiss_orphan_guest
<1>3. CASE \E v \in Vmids : worker_claim_warm_pool_vm(v) /\ At("claim")
  BY <1>3 DEF worker_claim_warm_pool_vm
<1>4. ~((Crash \/ EndRun) /\ worker'.pc = "idle")
  BY DEF Crash, EndRun, At
<1>5. DeletionStep \/ PoolStep \/ SweepStep \/ CreateStep =>
        \/ \E i \in InstanceIds : DestroyThrows(i) /\ i \in worker.todo /\ worker'.todo = worker.todo \ {i}
        \/ \E v \in Vmids :
            (RowEnrolled(v) \/ RowWaits(v)) /\ v \in worker.todo /\ worker'.todo = worker.todo \ {v}
        \/ \E v \in Vmids : ReapThrows(v) /\ worker'.todo = worker.todo \ {v}
  BY DEF DeletionStep, PoolStep, SweepStep, CreateStep, StepsTo
<1>6. ~(DeletionStep \/ PoolStep \/ SweepStep \/ CreateStep)
  BY <1>5 DEF ReapThrows
<1> QED
  BY <1>0, <1>1, <1>2, <1>3, <1>4, <1>6, WorkerEffect

LEMMA DeletingNext ==
    ASSUME GuestsInv, Next
    PROVE  Deleting'
<1> USE DEF At
<1>0. PoolInv /\ Deleting /\ TypeOK /\ KnowsItsWork
      /\ worker.todo \in SUBSET (Vmids \cup InstanceIds)
  BY GuestsHave, WorkerFields
<1>1. CASE worker' = worker
  BY <1>0, <1>1, BesideTheRun, NullsAreNotNames DEF Deleting, InstancesIn, KnowsItsWork, Running
<1>2. CASE worker'.pc = "idle"
  BY <1>2 DEF Deleting
<1>3. CASE StartRun /\ StepsTo("idle", "deletions") /\ worker'.todo = InstancesIn({"deleting"})
  BY <1>3 DEF StartRun, Deleting, InstancesIn, StepsTo
<1>4. ASSUME NEW i \in InstanceIds, DestroyListed(i), i \in worker.todo,
             StepsTo("deletions", "finish_delete"), SameTodo, worker'.instance = i
      PROVE  Deleting'
  <2>1. instances' = instances /\ instances[i].vmid \in Vmids \cup {NoVmid}
    BY <1>4, GuestsHave DEF DestroyListed
  <2>2. ~Running(instances[i].vmid)'
    BY <1>0, <1>4, <2>1, RemovedTyped DEF DestroyListed, Running
  <2> QED
    BY <1>0, <1>4, <2>1, <2>2 DEF Deleting, StepsTo, SameTodo, InstancesIn
<1>5. ASSUME NEW i \in InstanceIds, DestroyThrows(i), StepsTo("deletions", "deletions"),
             worker'.todo = worker.todo \ {i}
      PROVE  Deleting'
  <2>1. \A j \in InstanceIds \ {i} : instances'[j] = instances[j]
    BY <1>0, <1>5, GuestsHave, InstanceTyped DEF DestroyThrows, InstanceStates
  <2> QED
    BY <1>0, <1>5, <2>1 DEF Deleting, StepsTo, InstancesIn
<1>6. CASE FinishDelete /\ StepsTo("finish_delete", "deletions")
           /\ worker'.todo = worker.todo \ {worker.instance}
  <2>1. \A j \in InstanceIds \ {worker.instance} : instances'[j] = instances[j]
    BY <1>0, <1>6, InstanceTyped DEF FinishDelete, InstanceStates, KnowsItsWork
  <2> QED
    BY <1>0, <1>6, <2>1 DEF Deleting, StepsTo, InstancesIn
<1>7. CASE PoolStep \/ SweepStep \/ CreateStep
  BY <1>7 DEF PoolStep, SweepStep, CreateStep, StepsTo, Deleting
<1> QED
  BY <1>0, <1>1, <1>2, <1>3, <1>4, <1>5, <1>6, <1>7, WorkerEffect DEF DeletionStep

\* Nobody names a vmid that is free while the run makes guests.
LEMMA FreeIsUnnamed ==
    ASSUME GuestsInv, NEW v \in Vmids, guest_at[v] = NoGuest,
           worker.pc \notin {"idle", "deletions", "finish_delete"}
    PROVE  Unnamed(v)
BY GuestsHave, NullsAreNotNames DEF NamedIsThere, BeingDeleted, Running, Unnamed, At

LEMMA UnnamedStays ==
    ASSUME GuestsInv, Next, NEW v \in Vmids, Unnamed(v),
           ~worker_update_instance_runtime \/ worker.vmid # v
    PROVE  Unnamed(v)'
BY NameMoves, NullsAreNotNames DEF Unnamed

LEMMA BuildingNext ==
    ASSUME GuestsInv, Next
    PROVE  Building'
<1> USE DEF At
<1>0. /\ PoolInv /\ Building /\ PoolRuns /\ TypeOK /\ KnowsItsWork
      /\ KnowsItsWork' /\ worker.vmid \in Vmids \cup {NoVmid}
  BY GuestsHave, WorkerFields, WorkerTypes
<1>1. CASE worker' = worker
  <2>1. /\ At("expire") => warm_pool_vms' = warm_pool_vms
        /\ guest_at' = guest_at
    BY <1>1, BesideTheRun
  <2>2. worker.pc \in {"expire", "record", "configure", "attach"} => Unnamed(worker.vmid)'
    <3> SUFFICES ASSUME worker.pc \in {"expire", "record", "configure", "attach"}
                 PROVE  Unnamed(worker.vmid)'
      OBVIOUS
    <3>1. worker.vmid \in Vmids
      BY <1>0 DEF KnowsItsWork
    <3>2. worker.vmid # NoVmid
      BY <3>1, NullsAreNotNames
    <3> QED
      BY <1>0, <1>1, <3>1, <3>2, BesideTheRun DEF Building, Unnamed
  <2> QED
    BY <1>0, <1>1, <2>1, <2>2 DEF Building, Running
<1>2. CASE worker'.pc = "idle" \/ DeletionStep \/ SweepStep
  BY <1>2 DEF DeletionStep, SweepStep, StepsTo, Building
<1>3. ASSUME NEW v \in Vmids, RowExpires(v), v \in worker.todo, StepsTo("pool", "expire"), worker'.vmid = v
      PROVE  Building'
  <2>1. warm_pool_vms'[v].state = "failed" /\ UNCHANGED <<guest_at, instances>>
    BY <1>0, <1>3, RowTyped DEF RowExpires
  <2>2. v \in Waiting
    BY <1>0, <1>3 DEF PoolInv, PoolBounded, StepsTo, Waiting, RowsIn
  <2> QED
    BY <1>0, <1>3, <2>1, <2>2 DEF Building, StepsTo, PoolRuns, Unnamed
<1>4. ASSUME NEW v \in Vmids, BuildOne(v) \/ CloneCold(v), worker'.vmid = v,
             StepsTo("pool", "record") \/ StepsTo("claim", "attach")
      PROVE  Building'
  <2>1. /\ guest_at[v] = NoGuest /\ guest_at'[v] = made + 1 /\ made \in Nat
        /\ UNCHANGED instances /\ v # NoVmid
    BY <1>4, GuestsHave, GuestStays, NullsAreNotNames DEF BuildOne, CloneCold
  <2>2. Unnamed(v)
    BY <1>4, <2>1, FreeIsUnnamed DEF StepsTo
  <2>3. Unnamed(v)' /\ Running(v)'
    BY <2>1, <2>2 DEF Unnamed, Running, NoGuest
  <2> QED
    BY <1>4, <2>3 DEF Building, StepsTo
<1>5. ASSUME NEW v \in Vmids, worker_claim_warm_pool_vm(v), StepsTo("claim", "configure"), worker'.vmid = v
      PROVE  Building'
  <2>1. v \in Waiting /\ UNCHANGED instances
    BY <1>5 DEF worker_claim_warm_pool_vm, Waiting, RowsIn, Claimable
  <2> QED
    BY <1>0, <1>5, <2>1 DEF Building, StepsTo, PoolRuns, Unnamed
<1>6. CASE /\ ConfigureClaimed /\ worker'.vmid = worker.vmid
           /\ \/ StepsTo("configure", "attach") /\ Running(worker.vmid)
              \/ StepsTo("configure", "failing")
  <2>1. UNCHANGED <<instances, guest_at>>
    BY <1>6 DEF ConfigureClaimed
  <2> QED
    BY <1>0, <1>6, <2>1 DEF Building, StepsTo, Unnamed, Running
<1>7. CASE worker'.pc \notin {"expire", "record", "configure", "attach"}
  BY <1>7 DEF Building
<1>8. CASE PoolStep
  BY <1>8, <1>3, <1>4, <1>7 DEF PoolStep, StepsTo
<1>9. CASE CreateStep
  BY <1>9, <1>4, <1>5, <1>6, <1>7 DEF CreateStep, StepsTo
<1> QED
  BY <1>0, <1>1, <1>2, <1>8, <1>9, WorkerEffect

LEMMA CreatingNext ==
    ASSUME GuestsInv, Next
    PROVE  Creating'
<1> USE DEF At, StepsTo
<1>0. /\ PoolInv /\ Creating /\ TypeOK /\ KnowsItsWork
  BY GuestsHave
<1>1. CASE worker' = worker
  <2> DEFINE i == worker.instance
  <2>1. worker.pc \in {"claim", "configure", "attach", "done", "verify", "failing"} =>
          i \in InstanceIds /\ instances[i].state \in {"requested", "cloned"}
    BY <1>0 DEF Creating, KnowsItsWork
  <2>2. worker.pc \in {"claim", "configure", "attach", "done", "verify", "failing"} =>
          instances'[i] = instances[i]
    BY <1>1, <2>1, BesideTheRun
  <2> QED
    BY <1>0, <1>1, <2>2 DEF Creating
<1>2. CASE worker'.pc = "idle" \/ DeletionStep \/ PoolStep \/ SweepStep
  BY <1>2 DEF DeletionStep, PoolStep, SweepStep, Creating
<1>3. CASE CreateStep
  <2>1. ASSUME NEW i \in InstanceIds, PickCreate(i), worker'.instance = i,
               \/ instances[i].state = "requested" /\ StepsTo("loop", "claim")
               \/ instances[i].state = "cloned" /\ StepsTo("loop", "verify")
        PROVE  Creating'
    BY <2>1 DEF PickCreate, Creating
  <2>2. CASE \/ \E v \in Vmids : /\ worker_claim_warm_pool_vm(v) \/ CloneCold(v)
                                 /\ StepsTo("claim", "configure") \/ StepsTo("claim", "attach")
                                 /\ SameInstance
             \/ CloneThrows /\ StepsTo("claim", "failing") /\ SameInstance
             \/ /\ ConfigureClaimed /\ SameInstance
                /\ StepsTo("configure", "attach") \/ StepsTo("configure", "failing")
    <3>1. UNCHANGED instances
      BY <2>2 DEF worker_claim_warm_pool_vm, CloneCold, CloneThrows, ConfigureClaimed
    <3> QED
      BY <1>0, <2>2, <3>1 DEF Creating, SameInstance
  <2>3. CASE worker_update_instance_runtime /\ SameInstance /\ StepsTo("attach", "done")
    <3>1. worker.instance \in InstanceIds /\ worker.vmid \in Vmids
      BY <1>0, <2>3 DEF KnowsItsWork
    <3>2. instances[worker.instance].state = "requested"
      BY <1>0, <2>3 DEF Creating
    <3>3. instances'[worker.instance].state = "requested"
      <4>1. CASE InstanceBecomes(worker.instance, "requested", worker.vmid)
        BY <1>0, <3>1, <4>1, InstanceTyped DEF InstanceStates
      <4>2. CASE UNCHANGED instances
        BY <3>2, <4>2
      <4> QED
        BY <2>3, <4>1, <4>2 DEF worker_update_instance_runtime
    <3> QED
      BY <2>3, <3>3 DEF Creating, SameInstance
  <2>4. CASE StepsTo("attach", "failing") /\ UNCHANGED instances /\ SameInstance
    BY <1>0, <2>4 DEF Creating, SameInstance
  <2>5. CASE StepsTo("verify", "failing") /\ UNCHANGED instances /\ SameInstance
    BY <1>0, <2>5 DEF Creating, SameInstance
  <2>6. CASE worker'.pc = "loop"
    BY <2>6 DEF Creating
  <2> QED
    BY <1>3, <2>1, <2>2, <2>3, <2>4, <2>5, <2>6 DEF CreateStep
<1> QED
  BY <1>0, <1>1, <1>2, <1>3, WorkerEffect

-----------------------------------------------------------------------------
(* The sweep and its findings, for each step.                              *)

LEMMA StrayStays ==
    ASSUME GuestsInv, Next, NEW v \in Vmids, Stray(v)
    PROVE  \/ Stray(v)' /\ guest_at'[v] = guest_at[v]
           \/ ReapGuest(v) /\ worker'.pc = "mark" /\ worker'.vmid = v
<1>0. PoolInv /\ TypeOK /\ KnowsItsWork /\ v # NoVmid
  BY GuestsHave, NullsAreNotNames
<1>1. Running(v) /\ warm_pool_vms[v].state = "none" /\ Unnamed(v) /\ ~InHand(v)
  BY DEF Stray
<1>2. CASE ReapGuest(v)
  <2>1. worker'.pc = "mark" /\ worker'.vmid = v
    BY <1>0, <1>2, WorkerFields, GuestsTyped DEF ReapGuest, WithVmid, WorkerType
  <2> QED
    BY <1>2, <2>1
<1>3. CASE ~ReapGuest(v)
  <2>1. guest_at'[v] = guest_at[v]
    BY <1>1, <1>3, GuestStays, RemovesOwn DEF Running
  <2>2. warm_pool_vms'[v].state = "none"
    <3>1. ~RowEnrolled(v) /\ ~RowExpires(v)
      BY <1>0, <1>1 DEF RowEnrolled, RowExpires, PoolInv, PoolBounded, At
    <3>2. ~(worker_record_warm_pool_vm /\ worker.vmid = v)
      BY <1>1 DEF worker_record_warm_pool_vm, InHand, At
    <3> QED
      BY <1>0, <1>1, <3>1, <3>2, RowTypes
  <2>3. Unnamed(v)'
    BY <1>1, UnnamedStays DEF worker_update_instance_runtime, InHand, At
  <2>4. ~InHand(v)'
    <3>1. ~worker_claim_warm_pool_vm(v)
      BY <1>1 DEF worker_claim_warm_pool_vm, Claimable, RowsIn
    <3> QED
      BY <1>1, <3>1, HandMoves, GuestStays DEF Running
  <2> QED
    BY <1>1, <2>1, <2>2, <2>3, <2>4 DEF Stray, Running
<1> QED
  BY <1>2, <1>3

\* A run at a mark makes it.
LEMMA MarkStays ==
    ASSUME MarksArrive, GuestsInv, Next, At("mark")
    PROVE  \/ worker' = worker /\ ~worker_mark_orphan_reaped
           \/ /\ worker_mark_orphan_reaped /\ StepsTo("mark", "reaping")
              /\ worker'.todo = worker.todo \ {worker.vmid}
              /\ findings' = [findings EXCEPT ![worker.vmid].reaped = TRUE, ![worker.vmid].resolved = TRUE]
<1> USE DEF At, StepsTo
<1>0. PoolInv
  BY GuestsHave
<1>1. CASE worker_mark_orphan_reaped
  <2>1. StepsTo("mark", "reaping") /\ worker'.todo = worker.todo \ {worker.vmid}
    BY <1>0, <1>1, GuestsTyped DEF worker_mark_orphan_reaped, Done, WorkerType, PoolInv
  <2> QED
    BY <1>1, <2>1 DEF worker_mark_orphan_reaped, MarksArrive
<1>2. CASE ~worker_mark_orphan_reaped
  <2>1. ~Crash /\ ~EndRun
    BY DEF Crash, EndRun, MarksArrive
  <2>2. ~DeletionStep /\ ~PoolStep /\ ~CreateStep
    BY DEF DeletionStep, PoolStep, CreateStep
  <2>3. ~SweepStep
    BY <1>2 DEF SweepStep
  <2> QED
    BY <1>0, <1>2, <2>1, <2>2, <2>3, WorkerEffect
<1> QED
  BY <1>1, <1>2

\* A finding once shown stays so, or its guest is marked reaped.
LEMMA ShownStays ==
    ASSUME MarksArrive, GuestsInv, Next, NEW v \in Vmids, NEW g, Shown(v, g)
    PROVE  Shown(v, g)' \/ findings'[v].reaped
<1>1. CASE Stray(v) /\ guest_at[v] = g
  BY <1>1, StrayStays DEF Shown, At
<1>2. CASE At("mark") /\ worker.vmid = v
  <2>1. CASE worker' = worker
    BY <1>2, <2>1 DEF Shown, At
  <2>2. CASE findings' = [findings EXCEPT ![worker.vmid].reaped = TRUE, ![worker.vmid].resolved = TRUE]
    <3>1. findings \in [Vmids -> FindingType]
      BY GuestsHave, GuestsTyped
    <3> QED
      BY <1>2, <2>2, <3>1 DEF FindingType
  <2> QED
    BY <1>2, <2>1, <2>2, MarkStays
<1> QED
  BY <1>1, <1>2 DEF Shown

\* What a step makes of a finding, as far as a reap depends on it.
LEMMA FindingMoves ==
    ASSUME GuestsInv, Next, NEW v \in Vmids
    PROVE  /\ findings[v].reaped => findings'[v].reaped
           /\ findings'[v].reaped /\ ~findings[v].reaped => worker_mark_orphan_reaped /\ worker.vmid = v
           /\ \/ findings'[v].approved = findings[v].approved
              \/ /\ operator_approve_orphan_reap /\ prompt.vmid = v
                 /\ findings'[v].approved = prompt.guest /\ ~findings[v].reaped
           /\ \/ /\ findings'[v].guest = findings[v].guest
                 /\ findings'[v].observations > 0 /\ ~findings'[v].resolved =>
                        findings[v].observations > 0 /\ ~findings[v].resolved
              \/ /\ findings'[v].guest = guest_at[v] /\ Stray(v)
                 /\ Stray(v)' /\ guest_at'[v] = guest_at[v]
           /\ prompt'.vmid = v =>
                \/ prompt' = prompt
                \/ /\ findings[v].observations > 0 /\ ~findings[v].resolved /\ ~findings[v].reaped
                   /\ findings[v].approved = NoGuest /\ prompt'.guest = findings[v].guest
<1> USE DEF At
<1>0. /\ PoolInv /\ TypeOK /\ KnowsItsWork /\ findings \in [Vmids -> FindingType]
      /\ v # NoVmid /\ prompt \in PromptType
  BY GuestsHave, GuestsTyped, NullsAreNotNames
<1>f. findings[v] \in FindingType
  BY <1>0
<1>1. CASE UNCHANGED <<findings, prompt>>
  BY <1>1
<1>2. CASE operator_approve_orphan_reap
  <2>1. prompt'.vmid # v
    BY <1>0, <1>2 DEF operator_approve_orphan_reap
  <2>2. CASE findings' = findings
    BY <2>1, <2>2
  <2>3. CASE /\ findings' = [findings EXCEPT ![prompt.vmid].approved = prompt.guest]
             /\ ~findings[prompt.vmid].reaped
    <3>1. CASE prompt.vmid = v
      BY <1>0, <1>f, <1>2, <2>1, <2>3, <3>1 DEF FindingType
    <3>2. CASE prompt.vmid # v
      BY <1>0, <1>2, <2>1, <2>3, <3>2
    <3> QED
      BY <3>1, <3>2
  <2> QED
    BY <1>2, <2>2, <2>3 DEF operator_approve_orphan_reap
<1>3. ASSUME NEW u \in Vmids, operator_list_orphan_guests(u)
      PROVE  /\ findings' = findings
             /\ prompt'.vmid = v =>
                  \/ prompt' = prompt
                  \/ /\ findings[v].observations > 0 /\ ~findings[v].resolved /\ ~findings[v].reaped
                     /\ findings[v].approved = NoGuest /\ prompt'.guest = findings[v].guest
  BY <1>3 DEF operator_list_orphan_guests, OpenFinding
<1>4. ASSUME NEW u \in Vmids, operator_dismiss_orphan_guest(u)
      PROVE  /\ prompt' = prompt /\ findings'[v].approved = findings[v].approved
             /\ findings'[v].reaped = findings[v].reaped /\ findings'[v].guest = findings[v].guest
             /\ findings'[v].observations = findings[v].observations
             /\ findings'[v].resolved = findings[v].resolved
  BY <1>0, <1>4 DEF operator_dismiss_orphan_guest, FindingType
<1>5. CASE worker_report_orphan_guests
  <2>1. /\ findings'[v] = FindingAfter(v, findOrphanGuests) /\ prompt' = prompt
        /\ UNCHANGED <<guest_at, instances, warm_pool_vms>> /\ worker'.pc = "approved" /\ worker.pc = "sweep"
    BY <1>0, <1>5, GuestsTyped DEF worker_report_orphan_guests, GoTo, WorkerType
  <2>2. CASE Closed(v)
    BY <2>1, <2>2, FindingAfterIs
  <2>3. CASE ~Closed(v) /\ v \notin findOrphanGuests
    <3>1. findings'[v] = [findings[v] EXCEPT !.resolved = findings[v].observations > 0]
      BY <2>1, <2>3, FindingAfterIs
    <3>2. /\ findings'[v].observations = findings[v].observations
          /\ findings'[v].approved = findings[v].approved /\ findings'[v].guest = findings[v].guest
          /\ findings'[v].reaped = findings[v].reaped
      BY <1>f, <3>1 DEF FindingType
    <3>3. findings'[v].resolved = (findings[v].observations > 0)
      BY <1>f, <3>1 DEF FindingType
    <3> QED
      BY <2>1, <3>2, <3>3
  <2>4. CASE ~Closed(v) /\ v \in findOrphanGuests
    <3>1. findings'[v] = [findings[v] EXCEPT !.observations = IF @ < 2 THEN @ + 1 ELSE 2,
                                             !.resolved = FALSE, !.guest = guest_at[v]]
      BY <2>1, <2>4, FindingAfterIs
    <3>2. /\ findings'[v].approved = findings[v].approved /\ findings'[v].guest = guest_at[v]
          /\ findings'[v].reaped = findings[v].reaped
      BY <1>f, <3>1 DEF FindingType
    <3>3. Stray(v)
      BY <1>0, <2>1, <2>4, GuestsTyped
         DEF findOrphanGuests, worker_list_known_vmids, Stray, Unnamed, InHand,
         PoolRowType
    <3>4. Stray(v)' /\ guest_at'[v] = guest_at[v]
      BY <2>1, <3>3 DEF Stray, Running, Unnamed, InHand
    <3> QED
      BY <2>1, <3>2, <3>3, <3>4
  <2> QED
    BY <2>2, <2>3, <2>4
<1>6. CASE worker_mark_orphan_reaped /\ prompt' = prompt
  <2>1. /\ findings'[v].approved = findings[v].approved /\ findings'[v].guest = findings[v].guest
        /\ findings'[v].observations = findings[v].observations
        /\ findings'[v].resolved \/ findings'[v].resolved = findings[v].resolved
        /\ worker.vmid # v => findings'[v].reaped = findings[v].reaped
        /\ findings[v].reaped => findings'[v].reaped
    <3>1. CASE findings' = findings
      BY <3>1
    <3>2. CASE findings' = [findings EXCEPT ![worker.vmid].reaped = TRUE, ![worker.vmid].resolved = TRUE]
      BY <1>0, <1>f, <3>2 DEF FindingType
    <3> QED
      BY <1>6, <3>1, <3>2 DEF worker_mark_orphan_reaped
  <2> QED
    BY <1>6, <2>1
<1> QED
  BY <1>0, <1>1, <1>2, <1>3, <1>4, <1>5, <1>6, FindingEffect DEF Operator

LEMMA FindingsNext ==
    ASSUME MarksArrive, GuestsInv, Next
    PROVE  FindingsTrue'
<1> SUFFICES ASSUME NEW v \in Vmids, ~findings'[v].reaped
             PROVE  /\ findings'[v].observations > 0 /\ ~findings'[v].resolved => Shown(v, findings[v].guest)'
                    /\ findings'[v].approved # NoGuest => Shown(v, findings[v].approved)'
                    /\ prompt'.vmid = v => Shown(v, prompt.guest)'
  BY DEF FindingsTrue
<1>1. ~findings[v].reaped
  BY FindingMoves
<1>2. /\ findings[v].observations > 0 /\ ~findings[v].resolved => Shown(v, findings[v].guest)
      /\ findings[v].approved # NoGuest => Shown(v, findings[v].approved)
      /\ prompt.vmid = v => Shown(v, prompt.guest)
  BY <1>1, GuestsHave DEF FindingsTrue
<1>3. ASSUME NEW g, Shown(v, g)
      PROVE  (Stray(v)' /\ guest_at'[v] = g) \/ (worker'.pc = "mark" /\ worker'.vmid = v)
  BY <1>3, ShownStays DEF Shown, At
<1>4. findings'[v].observations > 0 /\ ~findings'[v].resolved => Shown(v, findings[v].guest)'
  <2> SUFFICES ASSUME findings'[v].observations > 0, ~findings'[v].resolved
               PROVE  \/ Stray(v)' /\ guest_at'[v] = findings'[v].guest
                      \/ worker'.pc = "mark" /\ worker'.vmid = v
    BY DEF Shown, At
  <2> QED
    BY <1>2, <1>3, FindingMoves
<1>5. findings'[v].approved # NoGuest => Shown(v, findings[v].approved)'
  <2> SUFFICES ASSUME findings'[v].approved # NoGuest
               PROVE  \/ Stray(v)' /\ guest_at'[v] = findings'[v].approved
                      \/ worker'.pc = "mark" /\ worker'.vmid = v
    BY DEF Shown, At
  <2> QED
    BY <1>2, <1>3, FindingMoves
<1>6. prompt'.vmid = v => Shown(v, prompt.guest)'
  <2> SUFFICES ASSUME prompt'.vmid = v
               PROVE  (Stray(v)' /\ guest_at'[v] = prompt'.guest) \/ (worker'.pc = "mark" /\ worker'.vmid = v)
    BY DEF Shown, At
  <2> QED
    BY <1>2, <1>3, FindingMoves
<1> QED
  BY <1>4, <1>5, <1>6

LEMMA ReapingNext ==
    ASSUME MarksArrive, GuestsInv, Next
    PROVE  Reaping'
<1> USE DEF At
<1>0. /\ PoolInv /\ Reaping /\ FindingsTrue /\ TypeOK /\ KnowsItsWork
      /\ prompt \in PromptType /\ findings \in [Vmids -> FindingType]
      /\ worker.vmid \in Vmids \cup {NoVmid}
  BY GuestsHave, GuestsTyped, WorkerFields
<1>1. prompt'.vmid # NoVmid => prompt'.guest # NoGuest
  <2>1. CASE prompt' = prompt
    BY <1>0, <2>1 DEF Reaping
  <2>2. CASE operator_approve_orphan_reap
    BY <2>2 DEF operator_approve_orphan_reap
  <2>3. ASSUME NEW v \in Vmids, operator_list_orphan_guests(v)
        PROVE  prompt'.guest # NoGuest
    <3>1. Shown(v, findings[v].guest) /\ findings[v].approved = NoGuest /\ prompt'.guest = findings[v].guest
      BY <1>0, <2>3 DEF operator_list_orphan_guests, OpenFinding, FindingsTrue
    <3>2. ~(At("mark") /\ worker.vmid = v)
      BY <1>0, <3>1 DEF Reaping, Approved
    <3> QED
      BY <3>1, <3>2 DEF Shown, Stray, Running
  <2>4. ASSUME NEW v \in Vmids, operator_dismiss_orphan_guest(v)
        PROVE  prompt' = prompt
    BY <2>4 DEF operator_dismiss_orphan_guest
  <2> QED
    BY <1>0, <2>1, <2>2, <2>3, <2>4, FindingEffect DEF Operator
\* An approval is only withdrawn by the mark of the reap.
<1>2. ASSUME NEW v \in Vmids, Approved(v), ~(worker_mark_orphan_reaped /\ worker.vmid = v)
      PROVE  Approved(v)'
  <2>1. ~findings'[v].reaped
    BY <1>2, FindingMoves DEF Approved
  <2>2. findings'[v].approved # NoGuest
    <3>1. CASE findings'[v].approved = findings[v].approved
      BY <1>2, <3>1 DEF Approved
    <3>2. CASE prompt.vmid = v /\ findings'[v].approved = prompt.guest
      BY <1>0, <3>2, NullsAreNotNames DEF Reaping
    <3> QED
      BY <3>1, <3>2, FindingMoves
  <2> QED
    BY <2>1, <2>2 DEF Approved
<1>3. CASE worker' = worker
  <2>1. guest_at' = guest_at
    BY <1>3, BesideTheRun
  <2>2. At("mark") => ~worker_mark_orphan_reaped
    BY <1>3, MarkStays DEF StepsTo
  <2>3. At("reaping") => ~worker_mark_orphan_reaped
    BY DEF worker_mark_orphan_reaped
  <2>4. At("mark") => worker.vmid \in Vmids
    BY <1>0 DEF KnowsItsWork
  <2> QED
    BY <1>0, <1>1, <1>2, <1>3, <2>1, <2>2, <2>3, <2>4 DEF Reaping, Running
<1>4. CASE worker'.pc = "idle" \/ DeletionStep \/ PoolStep \/ CreateStep
  <2>1. worker'.pc \notin {"reaping", "mark"} /\ worker'.pc # "mark"
    BY <1>4 DEF DeletionStep, PoolStep, CreateStep, StepsTo
  <2> QED
    BY <1>1, <2>1 DEF Reaping
<1>5. CASE worker_list_approved_reaps /\ StepsTo("approved", "reaping") /\ worker'.todo = ApprovedReaps
  <2>1. \A v \in worker'.todo : v \in Vmids /\ Approved(v)
    BY <1>5 DEF ApprovedReaps, Approved
  <2>2. \A v \in worker'.todo : v \in Vmids /\ Approved(v)'
    BY <1>5, <2>1 DEF worker_list_approved_reaps, Approved
  <2> QED
    BY <1>1, <1>5, <2>2 DEF Reaping, StepsTo
<1>6. ASSUME NEW v \in Vmids, ReapGuest(v), v \in worker.todo, StepsTo("reaping", "mark"), SameTodo,
             worker'.vmid = v
      PROVE  Reaping'
  <2>1. ~Running(v)'
    BY <1>0, <1>6, RemovedTyped DEF ReapGuest, Running
  <2>2. \A u \in worker.todo : u \in Vmids /\ Approved(u)'
    BY <1>0, <1>2, <1>6 DEF Reaping, StepsTo, worker_mark_orphan_reaped
  <2> QED
    BY <1>1, <1>6, <2>1, <2>2 DEF Reaping, StepsTo, SameTodo
<1>7. ASSUME NEW v \in Vmids, ReapThrows(v), StepsTo("reaping", "reaping"), worker'.todo = worker.todo \ {v}
      PROVE  Reaping'
  <2>1. \A u \in worker.todo : u \in Vmids /\ Approved(u)'
    BY <1>0, <1>2, <1>7 DEF Reaping, StepsTo, worker_mark_orphan_reaped
  <2> QED
    BY <1>1, <1>7, <2>1 DEF Reaping, StepsTo
<1>8. CASE /\ worker_mark_orphan_reaped /\ StepsTo("mark", "reaping")
           /\ worker'.todo = worker.todo \ {worker.vmid}
  <2>1. \A u \in worker'.todo : u \in Vmids /\ Approved(u)'
    BY <1>0, <1>2, <1>8 DEF Reaping, StepsTo
  <2> QED
    BY <1>1, <1>8, <2>1 DEF Reaping, StepsTo
<1>9. CASE worker'.pc \in {"approved", "loop"}
  BY <1>1, <1>9 DEF Reaping
<1>10. CASE SweepStep
  BY <1>5, <1>6, <1>7, <1>8, <1>9, <1>10 DEF SweepStep, StepsTo
<1> QED
  BY <1>0, <1>3, <1>4, <1>10, WorkerEffect

-----------------------------------------------------------------------------
LEMMA GuestsInvNext ==
    ASSUME MarksArrive, GuestsInv, [Next]_vars
    PROVE  GuestsInv'
<1>1. CASE UNCHANGED vars
  <2>1. PoolInv' /\ RowsInv'
    BY <1>1, GuestsHave, PoolInvNext
       DEF GuestsInv, RowsInv, GuestsAreMade, VmidsDistinct, PoolRuns,
       NamedIsThere, BeingDeleted, Running, Unnamed, InHand, Waiting, RowsIn, At, vars
  <2>2. RunInv' /\ FindingsTrue' /\ Reaping'
    BY <1>1
       DEF GuestsInv, RunInv, Deleting, Building, Creating, FindingsTrue, Shown, Stray, Reaping,
       Approved, Running, Unnamed, InHand, InstancesIn, At, vars
  <2> QED
    BY <2>1, <2>2 DEF GuestsInv
<1>2. CASE Next
  <2>1. PoolInv'
    BY <1>2, GuestsHave, PoolInvNext
  <2>2. NamedIsThere'
    BY <1>2, NamedNext DEF NamedIsThere
  <2>3. RowsInv' /\ RunInv'
    BY <1>2, <2>2, MadeNext, DistinctNext, PoolRunsNext, DeletingNext, BuildingNext, CreatingNext
       DEF RowsInv, RunInv
  <2> QED
    BY <1>2, <2>1, <2>3, FindingsNext, ReapingNext DEF GuestsInv
<1> QED
  BY <1>1, <1>2

LEMMA GuestsInvInit == Init => GuestsInv
<1> SUFFICES ASSUME Init PROVE GuestsInv
  OBVIOUS
<1>1. PoolInv
  BY PoolInvInit
<1>2. /\ worker.pc = "idle" /\ Waiting = {} /\ made = 0 /\ prompt.vmid = NoVmid
      /\ \A v \in Vmids : guest_at[v] = NoGuest /\ findings[v] = NoFinding
      /\ \A i \in InstanceIds : instances[i].vmid = NoVmid /\ instances[i].state = "none"
  BY DEF Init, Idle, Waiting, RowsIn, NoPoolRow
<1>3. RowsInv
  BY <1>2 DEF RowsInv, GuestsAreMade, VmidsDistinct, PoolRuns, NamedIsThere, NoGuest
<1>4. RunInv
  BY <1>2 DEF RunInv, Deleting, Building, Creating, At
<1>5. FindingsTrue /\ Reaping
  BY <1>2, NullsAreNotNames DEF FindingsTrue, Reaping, NoFinding, At
<1> QED
  BY <1>1, <1>3, <1>4, <1>5 DEF GuestsInv

LEMMA GuestsInvHolds ==
    ASSUME MarksArrive
    PROVE  Spec => []GuestsInv
BY GuestsInvInit, GuestsInvNext, PTL DEF Spec

-----------------------------------------------------------------------------
(* The theorems.                                                           *)

\* Every variable has its type, and no more guests than the target wait in the
\* pool, whatever fails (maintainWarmPool).
THEOREM TypeCorrect == Spec => []TypeOK
<1>1. PoolInv => TypeOK
  BY DEF PoolInv
<1> QED
  BY <1>1, PoolInvHolds, PTL

\* What the sweep reaps is the guest the operator meant, or there is none any
\* more, as long as every mark of a reap arrives (reconcileOrphanGuests).
THEOREM ReapedWasApproved ==
    ASSUME MarksArrive
    PROVE  Spec => ReapsWhatWasApproved
<1>1. ASSUME GuestsInv, NEW v \in Vmids, ReapGuest(v)
      PROVE  guest_at[v] \in {NoGuest, findings[v].approved}
  BY <1>1, GuestsHave DEF ReapGuest, Reaping, FindingsTrue, Shown, Approved, At
<1>2. GuestsInv /\ [Next]_vars =>
        [\A v \in Vmids : ReapGuest(v) => guest_at[v] \in {NoGuest, findings[v].approved}]_vars
  BY <1>1
<1> QED
  BY <1>2, GuestsInvHolds, PTL DEF Spec, ReapsWhatWasApproved

-----------------------------------------------------------------------------
(* The guests implement GuestOwnership.                                    *)

\* Who owns a guest, read off its vmid.
OwnersAre ==
    \A g \in GuestIds :
        /\ g > made => OwnerOf(g) = "unmade"
        /\ g <= made /\ (\A v \in Vmids : guest_at[v] # g) => OwnerOf(g) = "destroyed"
        /\ \A v \in Vmids : guest_at[v] = g =>
            /\ \A i \in InstanceIds : instances[i].vmid = v => OwnerOf(g) = i
            /\ v \in Waiting => OwnerOf(g) = "pool"
            /\ Unnamed(v) /\ v \notin Waiting => OwnerOf(g) = "nobody"

LEMMA OwnersKnown == GuestsInv => OwnersAre
<1> SUFFICES ASSUME GuestsInv, NEW g \in GuestIds
             PROVE  /\ g > made => OwnerOf(g) = "unmade"
                    /\ g <= made /\ (\A v \in Vmids : guest_at[v] # g) => OwnerOf(g) = "destroyed"
                    /\ \A v \in Vmids : guest_at[v] = g =>
                        /\ \A i \in InstanceIds : instances[i].vmid = v => OwnerOf(g) = i
                        /\ v \in Waiting => OwnerOf(g) = "pool"
                        /\ Unnamed(v) /\ v \notin Waiting => OwnerOf(g) = "nobody"
  BY DEF OwnersAre
<1>0. /\ GuestsAreMade /\ VmidsDistinct /\ PoolRuns /\ made \in Nat /\ g \in Nat /\ g # NoGuest
      /\ \A v \in Vmids : guest_at[v] \in Nat
  BY GuestsHave, BoundsAreNumbers DEF GuestIds, NoGuest
<1>1. g > made => OwnerOf(g) = "unmade"
  BY DEF OwnerOf
<1>2. g <= made /\ (\A v \in Vmids : guest_at[v] # g) => OwnerOf(g) = "destroyed"
  BY <1>0 DEF OwnerOf
<1>3. ASSUME NEW v \in Vmids, guest_at[v] = g
      PROVE  /\ \A i \in InstanceIds : instances[i].vmid = v => OwnerOf(g) = i
             /\ v \in Waiting => OwnerOf(g) = "pool"
             /\ Unnamed(v) /\ v \notin Waiting => OwnerOf(g) = "nobody"
  <2>1. {u \in Vmids : guest_at[u] = g} = {v}
    BY <1>0, <1>3 DEF GuestsAreMade
  <2>2. (CHOOSE u \in {v} : TRUE) = v /\ {v} # {}
    OBVIOUS
  <2>3. ~(g > made)
    BY <1>0, <1>3 DEF GuestsAreMade
  <2>4. OwnerOf(g) = CASE OwnersAt(v) = {} -> "nobody"
                       [] Cardinality(OwnersAt(v)) = 1 -> CHOOSE o \in OwnersAt(v) : TRUE
                       [] OTHER -> "shared"
    BY <2>1, <2>2, <2>3 DEF OwnerOf
  <2>5. ASSUME NEW o, OwnersAt(v) = {o}
        PROVE  OwnerOf(g) = o
    <3>1. Cardinality({o}) = 1 /\ {o} # {} /\ (CHOOSE x \in {o} : TRUE) = o
      BY FS_Singleton
    <3> QED
      BY <2>4, <2>5, <3>1
  <2>6. ASSUME NEW i \in InstanceIds, instances[i].vmid = v
        PROVE  OwnerOf(g) = i
    <3>1. v \notin Waiting /\ \A j \in InstanceIds : instances[j].vmid = v => j = i
      BY <1>0, <2>6, NullsAreNotNames DEF PoolRuns, Unnamed, VmidsDistinct
    <3>2. OwnersAt(v) = {i}
      BY <2>6, <3>1 DEF OwnersAt, Waiting, RowsIn
    <3> QED
      BY <2>5, <3>2
  <2>7. ASSUME v \in Waiting
        PROVE  OwnerOf(g) = "pool"
    <3>1. Unnamed(v)
      BY <1>0, <2>7 DEF PoolRuns
    <3>2. OwnersAt(v) = {"pool"}
      BY <2>7, <3>1 DEF OwnersAt, Waiting, RowsIn, Unnamed
    <3> QED
      BY <2>5, <3>2
  <2>8. ASSUME Unnamed(v), v \notin Waiting
        PROVE  OwnerOf(g) = "nobody"
    <3>1. OwnersAt(v) = {}
      BY <2>8 DEF OwnersAt, Waiting, RowsIn, Unnamed
    <3> QED
      BY <2>4, <3>1
  <2> QED
    BY <2>6, <2>7, <2>8
<1> QED
  BY <1>1, <1>2, <1>3

LEMMA OwnersKnownNext == GuestsInv' => OwnersAre'
BY OwnersKnown, PTL

\* The variables of GuestOwnership.
owner == [g \in GuestIds |-> OwnerOf(g)]
serving == InstancesIn({"ready"})
AbstractStep == Ownership!Next \/ UNCHANGED <<owner, serving>>

SameOwners(v) ==
    /\ v \in Waiting' <=> v \in Waiting
    /\ \A i \in InstanceIds : instances'[i].vmid = v <=> instances[i].vmid = v

LEMMA OwnerKept ==
    ASSUME GuestsInv, GuestsInv', NEW g \in GuestIds,
           g > made' <=> g > made,
           \A v \in Vmids : guest_at'[v] = g <=> guest_at[v] = g,
           \A v \in Vmids : guest_at[v] = g => SameOwners(v)
    PROVE  OwnerOf(g)' = OwnerOf(g)
<1>0. OwnersAre /\ OwnersAre' /\ made \in Nat /\ made' \in Nat /\ g \in Nat /\ g' = g
  <2>1. made' \in Nat
    BY BoundsAreNumbers DEF GuestsInv, PoolInv, TypeOK
  <2> QED
    BY <2>1, OwnersKnown, OwnersKnownNext, GuestsHave, BoundsAreNumbers DEF GuestIds
<1>1. CASE g > made
  <2>1. OwnerOf(g) = "unmade" /\ OwnerOf(g)' = "unmade"
    BY <1>0, <1>1 DEF OwnersAre
  <2> QED
    BY <2>1
<1>2. CASE g <= made /\ \A v \in Vmids : guest_at[v] # g
  <2>1. OwnerOf(g) = "destroyed" /\ OwnerOf(g)' = "destroyed"
    BY <1>0, <1>2 DEF OwnersAre
  <2> QED
    BY <2>1
<1>3. ASSUME NEW v \in Vmids, guest_at[v] = g
      PROVE  OwnerOf(g)' = OwnerOf(g)
  <2>0. guest_at'[v] = g /\ SameOwners(v)
    BY <1>3
  <2>1. ASSUME NEW i \in InstanceIds, instances[i].vmid = v
        PROVE  OwnerOf(g)' = OwnerOf(g)
    BY <1>0, <1>3, <2>0, <2>1 DEF OwnersAre, SameOwners
  <2>2. CASE v \in Waiting
    BY <1>0, <1>3, <2>0, <2>2 DEF OwnersAre, SameOwners
  <2>3. CASE Unnamed(v) /\ v \notin Waiting
    BY <1>0, <1>3, <2>0, <2>3 DEF OwnersAre, SameOwners, Unnamed
  <2> QED
    BY <2>1, <2>2, <2>3 DEF Unnamed
<1> QED
  BY <1>0, <1>1, <1>2, <1>3

LEMMA Stutters ==
    ASSUME GuestsInv, GuestsInv', UNCHANGED <<guest_at, made>>,
           \A v \in Vmids : Running(v) => SameOwners(v)
    PROVE  owner' = owner
<1>1. ASSUME NEW g \in GuestIds PROVE OwnerOf(g)' = OwnerOf(g)
  <2>1. g # NoGuest
    BY BoundsAreNumbers DEF GuestIds, NoGuest
  <2>2. \A v \in Vmids : guest_at[v] = g => SameOwners(v)
    BY <2>1, NullsAreNotNames DEF Running
  <2> QED
    BY <2>2, OwnerKept
<1> QED
  BY <1>1 DEF owner

\* A step at one vmid moves one guest.
LEMMA OneOwner ==
    ASSUME GuestsInv, GuestsInv', NEW v \in Vmids, NEW g \in GuestIds,
           guest_at[v] \in {NoGuest, g}, guest_at'[v] \in {NoGuest, g},
           made' = made \/ (made' = made + 1 /\ g = made'),
           \A u \in Vmids : u # v => guest_at'[u] = guest_at[u],
           \A u \in Vmids : u # v /\ Running(u) => SameOwners(u)
    PROVE  owner' = [owner EXCEPT ![g] = OwnerOf(g)']
<1>1. ASSUME NEW h \in GuestIds, h # g PROVE OwnerOf(h)' = OwnerOf(h)
  <2>1. h # NoGuest /\ h \in Nat /\ made \in Nat
    BY BoundsAreNumbers, GuestsHave DEF GuestIds, NoGuest
  <2>2. \A u \in Vmids : guest_at[u] = h => SameOwners(u)
    BY <1>1, <2>1, NullsAreNotNames DEF Running
  <2>3. \A u \in Vmids : guest_at'[u] = h <=> guest_at[u] = h
    BY <1>1, <2>1
  <2>4. h > made' <=> h > made
    BY <1>1, <2>1
  <2> QED
    BY <2>2, <2>3, <2>4, OwnerKept
<1> QED
  BY <1>1 DEF owner

LEMMA ServingMoves ==
    ASSUME GuestsInv, Next
    PROVE  \/ serving' = serving
           \/ \E i \in serving : request_instance_deletion(i) /\ serving' = serving \ {i}
           \/ /\ Verify /\ serving' = serving \cup {worker.instance}
              /\ worker.instance \in InstanceIds /\ Running(instances[worker.instance].vmid)
<1>0. PoolInv /\ TypeOK /\ KnowsItsWork /\ \A i \in InstanceIds : instances[i].vmid \in Vmids \cup {NoVmid}
  BY GuestsHave
<1>1. ASSUME NEW i \in InstanceIds, request_instance_deletion(i)
      PROVE  \/ serving' = serving
             \/ i \in serving /\ serving' = serving \ {i}
  <2>1. instances'[i].state = "deleting" /\ \A j \in InstanceIds \ {i} : instances'[j] = instances[j]
    BY <1>0, <1>1, InstanceTyped DEF request_instance_deletion, InstanceStates
  <2> QED
    BY <2>1 DEF serving, InstancesIn
<1>2. CASE Verify
  <2>1. worker.instance \in InstanceIds /\ instances \in [InstanceIds -> InstanceType]
    BY <1>0, <1>2, GuestsTyped DEF Verify, KnowsItsWork, At
  <2>2. CASE /\ Running(instances[worker.instance].vmid)
             /\ instances' = [instances EXCEPT ![worker.instance].state = "ready"]
    <3>1. \A i \in InstanceIds :
            instances'[i].state = IF i = worker.instance THEN "ready" ELSE instances[i].state
      BY <2>1, <2>2 DEF InstanceType
    <3> QED
      BY <1>2, <2>1, <2>2, <3>1 DEF serving, InstancesIn
  <2>3. CASE UNCHANGED instances
    BY <2>3 DEF serving, InstancesIn
  <2> QED
    BY <1>2, <2>2, <2>3 DEF Verify
<1>3. CASE ~Verify /\ ~\E i \in InstanceIds : request_instance_deletion(i)
  <2>1. ASSUME NEW i \in InstanceIds
        PROVE  instances'[i].state = "ready" <=> instances[i].state = "ready"
    <3>1. /\ FinishDelete /\ i = worker.instance => instances[i].state = "deleting"
          /\ RollBack /\ i = worker.instance => instances[i].state \in {"requested", "cloned"}
          /\ MarkDone /\ i = worker.instance => instances[i].state = "requested"
          /\ worker_update_instance_runtime /\ i = worker.instance => instances[i].state = "requested"
      BY GuestsHave
         DEF FinishDelete, RollBack, MarkDone, worker_update_instance_runtime, Deleting,
         Creating, InstancesIn, At
    <3>2. DestroyThrows(i) => instances[i].state = "deleting"
      BY GuestsHave DEF DestroyThrows, Deleting, InstancesIn, At
    <3> QED
      BY <1>0, <1>3, <3>1, <3>2, InstanceMoves DEF InstanceStep
  <2> QED
    BY <2>1 DEF serving, InstancesIn
<1> QED
  BY <1>1, <1>2, <1>3

\* What no step but these five changes: who is named, and who waits.
LEMMA NamesMove ==
    ASSUME GuestsInv, Next, NEW i \in InstanceIds,
           instances'[i].vmid # instances[i].vmid
    PROVE  \/ FinishDelete /\ ~Running(instances[i].vmid) /\ instances'[i].vmid = NoVmid
           \/ /\ RollBack /\ i = worker.instance
              /\ GuestRemoved(instances[i].vmid) /\ instances'[i].vmid = NoVmid
           \/ worker_update_instance_runtime /\ i = worker.instance /\ instances'[i].vmid = worker.vmid
<1>1. FinishDelete /\ i = worker.instance => ~Running(instances[i].vmid)
  BY GuestsHave DEF FinishDelete, Deleting, At
<1>2. instances[i].state = "none" => instances[i].vmid = NoVmid
  BY GuestsHave DEF NamedIsThere
<1> QED
  BY <1>1, <1>2, GuestsHave, InstanceMoves DEF InstanceStep

LEMMA WaitingMoves ==
    ASSUME GuestsInv, Next, NEW v \in Vmids
    PROVE  \/ v \in Waiting' <=> v \in Waiting
           \/ v \in Waiting /\ v \notin Waiting' /\ (RowExpires(v) \/ worker_claim_warm_pool_vm(v))
           \/ v \notin Waiting /\ v \in Waiting' /\ worker_record_warm_pool_vm /\ worker.vmid = v
<1>1. v \in Waiting <=> warm_pool_vms[v].state \in {"building", "warm"}
  BY DEF Waiting, RowsIn
<1>2. v \in Waiting' <=> warm_pool_vms'[v].state \in {"building", "warm"}
  BY DEF Waiting, RowsIn
<1>3. RowEnrolled(v) => v \in Waiting
  BY GuestsHave DEF RowEnrolled, PoolBounded, Waiting, RowsIn, At
<1> QED
  BY <1>1, <1>2, <1>3, GuestsHave, RowTypes

\* The steps of the specification, as steps of GuestOwnership.
LEMMA AbstractSteps ==
    ASSUME GuestsInv, NEW g \in GuestIds, OwnerOf(g) \notin serving, serving' = serving,
           owner' = [owner EXCEPT ![g] = OwnerOf(g)']
    PROVE  /\ OwnerOf(g) = "unmade" /\ OwnerOf(g)' = "nobody" => Ownership!Next
           /\ OwnerOf(g) = "nobody" /\ OwnerOf(g)' = "pool" => Ownership!Next
           /\ OwnerOf(g) \in InstanceIds \cup {"pool"} /\ OwnerOf(g)' = "nobody" => Ownership!Next
           /\ OwnerOf(g) \in InstanceIds \cup {"nobody"} /\ OwnerOf(g)' = "destroyed" => Ownership!Next
<1>1. owner[g] = OwnerOf(g)
  BY DEF owner
<1>2. OwnerOf(g) = "unmade" /\ OwnerOf(g)' = "nobody" => Ownership!Make(g)
  BY <1>1 DEF Ownership!Make, Ownership!OwnerBecomes, owner, serving
<1>3. OwnerOf(g) = "nobody" /\ OwnerOf(g)' = "pool" => Ownership!Adopt(g)
  BY <1>1 DEF Ownership!Adopt, Ownership!OwnerBecomes, owner, serving
<1>4. OwnerOf(g) \in InstanceIds \cup {"pool"} /\ OwnerOf(g)' = "nobody" => Ownership!Lose(g)
  BY <1>1 DEF Ownership!Lose, Ownership!OwnerBecomes, owner, serving
<1>5. OwnerOf(g) \in InstanceIds \cup {"nobody"} /\ OwnerOf(g)' = "destroyed" => Ownership!Destroy(g)
  BY <1>1 DEF Ownership!Destroy, Ownership!OwnerBecomes, owner, serving
<1> QED
  BY <1>2, <1>3, <1>4, <1>5 DEF Ownership!Next

\* Neither the pool nor nobody is an instance that serves.
LEMMA OwnersNotServing ==
    /\ "nobody" \notin serving /\ "pool" \notin serving /\ "unmade" \notin serving
    /\ serving \subseteq InstanceIds
BY OwnersAreNoInstances DEF serving, InstancesIn

LEMMA GuestAt ==
    ASSUME GuestsInv, NEW v \in Vmids, guest_at[v] # NoGuest
    PROVE  guest_at[v] \in GuestIds
<1>1. guest_at[v] \in 0 .. MaxGuests
  BY GuestsHave, GuestsTyped
<1> QED
  BY <1>1, BoundsAreNumbers DEF GuestIds, NoGuest

LEMMA CloneMakes ==
    ASSUME GuestsInv, GuestsInv', Next, NEW v \in Vmids, BuildOne(v) \/ CloneCold(v)
    PROVE  AbstractStep
<1>0. made + 1 \in GuestIds
  BY GuestsHave, GuestsTyped, BoundsAreNumbers
     DEF BuildOne, CloneCold, CloneAs, CanClone, GuestIds
<1> PICK g \in GuestIds : g = made + 1
  BY <1>0
<1>1. /\ guest_at[v] = NoGuest /\ guest_at'[v] = g /\ made' = g /\ made \in Nat /\ g = made + 1
      /\ UNCHANGED <<instances, warm_pool_vms>>
      /\ \A u \in Vmids : u # v => guest_at'[u] = guest_at[u]
  BY GuestsHave, GuestStays, CloneTyped DEF BuildOne, CloneCold
<1>2. g \in GuestIds /\ g # NoGuest /\ g \in Nat
  BY BoundsAreNumbers DEF GuestIds, NoGuest
<1>3. v \notin Waiting /\ Unnamed(v)
  BY <1>1, GuestsHave, FreeIsUnnamed DEF PoolRuns, Running, BuildOne, CloneCold, At
<1>4. v \notin Waiting' /\ Unnamed(v)' /\ \A u \in Vmids : SameOwners(u)
  BY <1>1, <1>3 DEF SameOwners, Waiting, RowsIn, Unnamed
<1>5. owner' = [owner EXCEPT ![g] = OwnerOf(g)']
  BY <1>1, <1>2, <1>4, OneOwner
<1>6. OwnerOf(g) = "unmade"
  BY <1>1, <1>2, OwnersKnown DEF OwnersAre
<1>7. OwnerOf(g)' = "nobody"
  BY <1>1, <1>2, <1>4, OwnersKnownNext DEF OwnersAre
<1>8. serving' = serving
  BY <1>1 DEF serving, InstancesIn
<1> QED
  BY <1>2, <1>5, <1>6, <1>7, <1>8, AbstractSteps, OwnersNotServing DEF AbstractStep

LEMMA PoolLoses ==
    ASSUME GuestsInv, GuestsInv', Next, NEW v \in Vmids, RowExpires(v) \/ worker_claim_warm_pool_vm(v)
    PROVE  AbstractStep
<1>1. /\ UNCHANGED <<guest_at, made, instances>>
      /\ v \in Waiting /\ v \notin Waiting' /\ \A u \in Vmids : u # v => SameOwners(u)
  <2>1. CASE RowExpires(v)
    <3>1. /\ warm_pool_vms'[v].state = "failed"
          /\ \A u \in Vmids : u # v => warm_pool_vms'[u] = warm_pool_vms[u]
      BY <2>1, GuestsHave, RowTyped DEF RowExpires
    <3>2. UNCHANGED <<guest_at, made, instances>> /\ v \in Waiting
      BY <2>1, GuestsHave DEF RowExpires, PoolBounded, Waiting, RowsIn, At
    <3> QED
      BY <3>1, <3>2 DEF SameOwners, Waiting, RowsIn
  <2>2. CASE worker_claim_warm_pool_vm(v)
    <3>1. /\ warm_pool_vms'[v].state = "claimed"
          /\ \A u \in Vmids : u # v => warm_pool_vms'[u] = warm_pool_vms[u]
      BY <2>2, GuestsHave, GuestsTyped DEF worker_claim_warm_pool_vm
    <3> QED
      BY <2>2, <3>1 DEF worker_claim_warm_pool_vm, SameOwners, Waiting, RowsIn, Claimable
  <2> QED
    BY <2>1, <2>2
<1>2. Running(v) /\ Unnamed(v) /\ Unnamed(v)'
  BY <1>1, GuestsHave DEF PoolRuns, Unnamed
<1>3. PICK g \in GuestIds : g = guest_at[v] /\ g = guest_at'[v]
  BY <1>1, <1>2, GuestAt DEF Running
<1>4. owner' = [owner EXCEPT ![g] = OwnerOf(g)']
  BY <1>1, <1>3, OneOwner
<1>5. OwnerOf(g) = "pool"
  BY <1>1, <1>3, OwnersKnown DEF OwnersAre
<1>6. OwnerOf(g)' = "nobody"
  BY <1>1, <1>2, <1>3, OwnersKnownNext DEF OwnersAre
<1>7. serving' = serving
  BY <1>1 DEF serving, InstancesIn
<1> QED
  BY <1>3, <1>4, <1>5, <1>6, <1>7, AbstractSteps, OwnersNotServing DEF AbstractStep

LEMMA RecordAdopts ==
    ASSUME GuestsInv, GuestsInv', Next, worker_record_warm_pool_vm
    PROVE  AbstractStep
<1>v. PICK v \in Vmids : v = worker.vmid
  BY GuestsHave DEF worker_record_warm_pool_vm, KnowsItsWork, At
<1>0. UNCHANGED <<guest_at, made, instances>> /\ serving' = serving
  BY GuestsHave DEF worker_record_warm_pool_vm, serving, InstancesIn
<1>1. CASE warm_pool_vms' = warm_pool_vms
  <2>1. \A u \in Vmids : SameOwners(u)
    BY <1>0, <1>1 DEF SameOwners, Waiting, RowsIn
  <2> QED
    BY <1>0, <2>1, Stutters DEF AbstractStep
<1>2. CASE /\ warm_pool_vms[v].state = "none"
           /\ warm_pool_vms' = [warm_pool_vms EXCEPT ![v].state = "building"]
  <2>1. /\ warm_pool_vms'[v].state = "building"
        /\ \A u \in Vmids : u # v => warm_pool_vms'[u] = warm_pool_vms[u]
    BY <1>0, <1>2, GuestsHave, RowTyped DEF RowBecomes
  <2>2. v \notin Waiting /\ v \in Waiting' /\ \A u \in Vmids : u # v => SameOwners(u)
    BY <1>0, <1>2, <2>1 DEF SameOwners, Waiting, RowsIn
  <2>3. Running(v) /\ Unnamed(v)
    BY <1>v, GuestsHave DEF worker_record_warm_pool_vm, Building, At
  <2>4. PICK g \in GuestIds : g = guest_at[v] /\ g = guest_at'[v]
    BY <1>0, <2>3, GuestAt DEF Running
  <2>5. owner' = [owner EXCEPT ![g] = OwnerOf(g)']
    BY <1>0, <2>2, <2>4, OneOwner
  <2>6. OwnerOf(g) = "nobody"
    BY <1>0, <2>2, <2>3, <2>4, OwnersKnown DEF OwnersAre
  <2>7. OwnerOf(g)' = "pool"
    BY <1>0, <2>2, <2>4, OwnersKnownNext DEF OwnersAre
  <2> QED
    BY <1>0, <2>4, <2>5, <2>6, <2>7, AbstractSteps, OwnersNotServing DEF AbstractStep
<1> QED
  BY <1>v, <1>1, <1>2 DEF worker_record_warm_pool_vm

LEMMA RemovalDestroys ==
    ASSUME GuestsInv, GuestsInv', Next, NEW v \in Vmids, Removes(v), guest_at[v] # NoGuest,
           guest_at'[v] = NoGuest, made' = made, \A u \in Vmids : u # v => guest_at'[u] = guest_at[u]
    PROVE  AbstractStep
<1>g. PICK g \in GuestIds : g = guest_at[v]
  BY GuestAt
<1>0. /\ g = guest_at[v] /\ g # NoGuest /\ v \notin Waiting /\ VmidsDistinct /\ v # NoVmid
      /\ \A u \in Vmids : u # v => guest_at[u] # g
  BY <1>g, RemovesOwn, GuestsHave, NullsAreNotNames DEF GuestsAreMade
<1>1. \A u \in Vmids : u # v => SameOwners(u)
  <2>1. warm_pool_vms' = warm_pool_vms
    BY DEF Removes, DestroyListed, DestroyExpired, ReapGuest, RollBack
  <2>2. \A i \in InstanceIds : instances'[i].vmid # instances[i].vmid =>
            instances[i].vmid = v /\ instances'[i].vmid = NoVmid
    <3>1. CASE UNCHANGED instances
      BY <3>1
    <3>2. CASE RollBack /\ v = instances[worker.instance].vmid
      <4>1. ~FinishDelete /\ ~worker_update_instance_runtime
        BY <3>2 DEF RollBack, FinishDelete, worker_update_instance_runtime, At
      <4> QED
        BY <3>2, <4>1, NamesMove
    <3> QED
      BY <3>1, <3>2 DEF Removes, DestroyListed, DestroyExpired, ReapGuest
  <2> QED
    BY <2>1, <2>2, NullsAreNotNames DEF SameOwners, Waiting, RowsIn
<1>2. owner' = [owner EXCEPT ![g] = OwnerOf(g)']
  BY <1>0, <1>1, OneOwner
<1>3. OwnerOf(g) \in InstanceIds \cup {"nobody"} /\ OwnerOf(g) \notin serving
  <2>1. ASSUME NEW i \in InstanceIds, instances[i].vmid = v
        PROVE  OwnerOf(g) = i /\ i \notin serving
    <3>1. OwnerOf(g) = i
      BY <1>0, <2>1, OwnersKnown DEF OwnersAre
    <3>2. instances[i].state # "ready"
      BY <2>1, RemovesOwn, GuestsHave DEF RollBack, Creating, At
    <3> QED
      BY <3>1, <3>2 DEF serving, InstancesIn
  <2>2. CASE Unnamed(v)
    BY <1>0, <2>2, OwnersKnown, OwnersNotServing DEF OwnersAre
  <2> QED
    BY <2>1, <2>2 DEF Unnamed
<1>4. OwnerOf(g)' = "destroyed"
  <2>1. \A u \in Vmids : guest_at'[u] # g
    BY <1>0
  <2>2. g <= made'
    BY <1>0, GuestsHave DEF GuestsAreMade
  <2> QED
    BY <1>0, <2>1, <2>2, OwnersKnownNext DEF OwnersAre
<1>5. serving' = serving
  BY ServingMoves DEF Removes, Verify, DestroyListed, DestroyExpired, ReapGuest, RollBack, At,
     request_instance_deletion, serving, InstancesIn
<1> QED
  BY <1>0, <1>2, <1>3, <1>4, <1>5, AbstractSteps DEF AbstractStep

LEMMA AttachTakes ==
    ASSUME GuestsInv, GuestsInv', Next, worker_update_instance_runtime
    PROVE  AbstractStep
<1>1. UNCHANGED <<guest_at, made, warm_pool_vms>> /\ VmidsDistinct /\ PoolRuns
  BY GuestsHave DEF worker_update_instance_runtime
<1>2. CASE UNCHANGED instances
  <2>1. \A u \in Vmids : SameOwners(u)
    BY <1>1, <1>2 DEF SameOwners, Waiting, RowsIn
  <2>2. serving' = serving
    BY <1>2 DEF serving, InstancesIn
  <2> QED
    BY <1>1, <2>1, <2>2, Stutters DEF AbstractStep
<1>3. CASE InstanceBecomes(worker.instance, "requested", worker.vmid)
  <2>v. PICK v \in Vmids : v = worker.vmid
    BY GuestsHave DEF worker_update_instance_runtime, KnowsItsWork, At
  <2>i. PICK i \in InstanceIds : i = worker.instance
    BY GuestsHave DEF worker_update_instance_runtime, KnowsItsWork, At
  <2>1. /\ instances'[i].vmid = v /\ instances'[i].state = "requested" /\ instances[i].state = "requested"
        /\ \A j \in InstanceIds : j # i => instances'[j] = instances[j]
    BY <1>3, <2>v, <2>i, GuestsHave, InstanceTyped
       DEF InstanceStates, worker_update_instance_runtime,
       Creating, At
  <2>2. serving' = serving /\ i \notin serving
    BY <2>1 DEF serving, InstancesIn
  <2>3. Running(v) /\ Unnamed(v) /\ v \notin Waiting
    BY <2>v, GuestsHave DEF worker_update_instance_runtime, Building, PoolRuns, InHand, At
  <2>4. PICK g \in GuestIds : g = guest_at[v] /\ g = guest_at'[v]
    BY <1>1, <2>3, GuestAt DEF Running
  <2>5. OwnerOf(g) = "nobody" /\ OwnerOf(g)' = i
    <3>1. OwnerOf(g) = "nobody"
      BY <2>3, <2>4, OwnersKnown DEF OwnersAre
    <3>2. OwnerOf(g)' = i
      BY <2>1, <2>4, OwnersKnownNext DEF OwnersAre
    <3> QED
      BY <3>1, <3>2
  <2>6. ASSUME NEW h \in GuestIds, h # g
        PROVE  OwnerOf(h)' = IF OwnerOf(h) = i THEN "nobody" ELSE OwnerOf(h)
    <3>0. OwnersAre /\ OwnersAre' /\ "unmade" # i /\ "destroyed" # i /\ "pool" # i /\ "nobody" # i
          /\ made \in Nat /\ h \in Nat
      BY OwnersKnown, OwnersKnownNext, OwnersAreNoInstances, GuestsHave, BoundsAreNumbers
         DEF GuestIds
    <3>1. CASE h > made
      BY <1>1, <3>0, <3>1 DEF OwnersAre
    <3>2. CASE h <= made /\ \A u \in Vmids : guest_at[u] # h
      BY <1>1, <3>0, <3>2 DEF OwnersAre
    <3>3. ASSUME NEW u \in Vmids, guest_at[u] = h
          PROVE  OwnerOf(h)' = IF OwnerOf(h) = i THEN "nobody" ELSE OwnerOf(h)
      <4>0. u # v /\ guest_at'[u] = h /\ (u \in Waiting' <=> u \in Waiting) /\ u # NoVmid
        BY <1>1, <2>4, <2>6, <3>3, NullsAreNotNames DEF Waiting, RowsIn
      <4>1. ASSUME NEW j \in InstanceIds, j # i, instances[j].vmid = u
            PROVE  OwnerOf(h)' = j /\ OwnerOf(h) = j
        BY <2>1, <3>0, <3>3, <4>0, <4>1 DEF OwnersAre
      <4>2. CASE instances[i].vmid = u
        <5>1. Unnamed(u)' /\ u \notin Waiting'
          BY <1>1, <2>1, <4>0, <4>2 DEF Unnamed, VmidsDistinct, PoolRuns
        <5> QED
          BY <3>0, <3>3, <4>0, <4>2, <5>1 DEF OwnersAre
      <4>3. CASE Unnamed(u)
        <5>1. Unnamed(u)'
          BY <2>1, <4>0, <4>3 DEF Unnamed
        <5> QED
          BY <3>0, <3>3, <4>0, <4>3, <5>1 DEF OwnersAre
      <4> QED
        BY <4>1, <4>2, <4>3 DEF Unnamed
    <3> QED
      BY <3>0, <3>1, <3>2, <3>3
  <2>7. owner[g] = "nobody"
        /\ owner' = [h \in GuestIds |-> IF h = g THEN i ELSE IF owner[h] = i THEN "nobody" ELSE owner[h]]
    BY <2>5, <2>6 DEF owner
  <2>8. Ownership!Take(g, i)
    BY <2>2, <2>7 DEF Ownership!Take, owner, serving
  <2> QED
    BY <2>8 DEF AbstractStep, Ownership!Next
<1> QED
  BY <1>2, <1>3 DEF worker_update_instance_runtime

\* Every other step keeps the owners.
LEMMA OwnersStay ==
    ASSUME GuestsInv, GuestsInv', Next, UNCHANGED <<guest_at, made>>,
           ~worker_update_instance_runtime, ~worker_record_warm_pool_vm,
           \A v \in Vmids : ~RowExpires(v) /\ ~worker_claim_warm_pool_vm(v)
    PROVE  owner' = owner
<1>1. ASSUME NEW u \in Vmids, Running(u)
      PROVE  SameOwners(u)
  <2>1. u \in Waiting' <=> u \in Waiting
    BY WaitingMoves
  <2>2. ASSUME NEW i \in InstanceIds, instances'[i].vmid # instances[i].vmid
        PROVE  instances'[i].vmid = NoVmid /\ instances[i].vmid # u
    <3>1. GuestRemoved(instances[i].vmid) => instances[i].vmid # u
      <4> SUFFICES ASSUME GuestRemoved(u) PROVE FALSE
        OBVIOUS
      <4> QED
        BY <1>1, GuestsHave, RemovedTyped DEF Running
    <3> QED
      BY <1>1, <2>2, <3>1, NamesMove
  <2> QED
    BY <2>1, <2>2, NullsAreNotNames DEF SameOwners
<1> QED
  BY <1>1, Stutters

LEMMA StepImplements ==
    ASSUME GuestsInv, GuestsInv', Next
    PROVE  AbstractStep
<1>1. ASSUME NEW v \in Vmids, BuildOne(v) \/ CloneCold(v) \/ RowExpires(v) \/ worker_claim_warm_pool_vm(v)
      PROVE  AbstractStep
  BY <1>1, CloneMakes, PoolLoses
<1>2. CASE worker_record_warm_pool_vm \/ worker_update_instance_runtime
  BY <1>2, RecordAdopts, AttachTakes
<1>3. ASSUME NEW v \in Vmids, Removes(v), guest_at'[v] = NoGuest, made' = made,
             \A u \in Vmids : u # v => guest_at'[u] = guest_at[u], guest_at[v] # NoGuest
      PROVE  AbstractStep
  BY <1>3, RemovalDestroys
<1>4. CASE /\ UNCHANGED <<guest_at, made>>
           /\ ~worker_update_instance_runtime /\ ~worker_record_warm_pool_vm
           /\ \A v \in Vmids : ~RowExpires(v) /\ ~worker_claim_warm_pool_vm(v)
  <2>1. owner' = owner
    BY <1>4, OwnersStay
  <2>2. CASE serving' = serving
    BY <2>1, <2>2 DEF AbstractStep
  <2>3. ASSUME NEW i \in serving, serving' = serving \ {i}
        PROVE  AbstractStep
    <3>1. Ownership!Release(i) /\ i \in InstanceIds
      BY <2>1, <2>3 DEF Ownership!Release, owner, serving, InstancesIn
    <3> QED
      BY <3>1 DEF AbstractStep, Ownership!Next
  <2>4. CASE /\ serving' = serving \cup {worker.instance}
             /\ worker.instance \in InstanceIds /\ Running(instances[worker.instance].vmid)
    <3>i. PICK i \in InstanceIds : i = worker.instance
      BY <2>4
    <3>1. instances[i].vmid \in Vmids /\ guest_at[instances[i].vmid] # NoGuest
      BY <2>4, <3>i, GuestsHave DEF Running
    <3>2. PICK g \in GuestIds : g = guest_at[instances[i].vmid]
      BY <3>1, GuestAt
    <3>3. owner[g] = i
      BY <3>1, <3>2, OwnersKnown DEF OwnersAre, owner
    <3>4. Ownership!Serve(i)
      BY <2>1, <2>4, <3>i, <3>3 DEF Ownership!Serve, owner, serving
    <3> QED
      BY <3>4 DEF AbstractStep, Ownership!Next
  <2> QED
    BY <2>2, <2>3, <2>4, ServingMoves
<1>5. CASE UNCHANGED <<guest_at, made>>
  BY <1>1, <1>2, <1>4, <1>5
<1>6. ASSUME NEW v \in Vmids, guest_at'[v] = NoGuest, made' = made,
             \A u \in Vmids : u # v => guest_at'[u] = guest_at[u], guest_at[v] = NoGuest
      PROVE  AbstractStep
  <2>1. guest_at \in [Vmids -> 0 .. MaxGuests] /\ guest_at' \in [Vmids -> 0 .. MaxGuests]
    BY GuestsHave, GuestsTyped, GuestTypes
  <2>2. guest_at' = guest_at
    BY <1>6, <2>1
  <2> QED
    BY <1>5, <1>6, <2>2
<1> QED
  BY <1>1, <1>3, <1>5, <1>6, GuestMoves

\* A guest has one owner at a time, is destroyed once, and never while it
\* serves an instance or waits in the pool, as long as every mark of a reap
\* arrives: instances, warm_pool_vms and what Proxmox runs implement
\* GuestOwnership, for any number of instances, vmids and guests.
THEOREM GuestsAreOwnedByOne ==
    ASSUME MarksArrive
    PROVE  Spec => OwnedByOne
<1>1. Init => Ownership!Init
  <2> SUFFICES ASSUME Init PROVE Ownership!Init
    OBVIOUS
  <2>1. owner = [g \in GuestIds |-> "unmade"]
    BY BoundsAreNumbers DEF Init, owner, OwnerOf, GuestIds
  <2>2. serving = {}
    BY DEF Init, serving, InstancesIn
  <2> QED
    BY <2>1, <2>2 DEF Ownership!Init, owner, serving
<1>2. GuestsInv /\ GuestsInv' /\ [Next]_vars => [Ownership!Next]_Ownership!vars
  <2> SUFFICES ASSUME GuestsInv, GuestsInv', [Next]_vars
               PROVE  AbstractStep
    BY DEF AbstractStep, Ownership!vars, owner, serving
  <2>1. CASE UNCHANGED vars
    <3>1. \A v \in Vmids : SameOwners(v)
      BY <2>1 DEF vars, SameOwners, Waiting, RowsIn
    <3> QED
      BY <2>1, <3>1, Stutters DEF vars, AbstractStep, serving, InstancesIn
  <2> QED
    BY <2>1, StepImplements
<1> QED
  BY <1>1, <1>2, GuestsInvHolds, PTL DEF Spec, OwnedByOne, Ownership!Spec

-----------------------------------------------------------------------------
(* What the ownership of guests amounts to for a customer.                 *)

\* The markers of a guest that is no instance's.
Markers == {"nobody", "pool", "unmade", "destroyed"}

\* No instance has two guests, whether it serves or not, because taking a
\* guest gives up the one before; and one that serves has one.
OwnersInv ==
    /\ owner \in [GuestIds -> InstanceIds \cup Markers] /\ serving \subseteq InstanceIds
    /\ \A g, h \in GuestIds : owner[g] \in InstanceIds /\ owner[h] = owner[g] => h = g
    /\ \A i \in serving : \E g \in GuestIds : owner[g] = i

LEMMA MarkersAreNoInstances == Markers \cap InstanceIds = {}
BY OwnersAreNoInstances DEF Markers

\* Giving a guest to a marker takes it from no serving instance.
LEMMA OwnerLost ==
    ASSUME OwnersInv, NEW g \in GuestIds, NEW o \in Markers,
           owner[g] \notin serving, Ownership!OwnerBecomes(g, o)
    PROVE  OwnersInv'
<1>1. owner' = [owner EXCEPT ![g] = o] /\ serving' = serving
  BY DEF Ownership!OwnerBecomes, owner, serving
<1>2. /\ owner' \in [GuestIds -> InstanceIds \cup Markers]
      /\ \A h \in GuestIds : owner'[h] = IF h = g THEN o ELSE owner[h]
  BY <1>1 DEF OwnersInv
<1>3. ASSUME NEW h \in GuestIds, NEW k \in GuestIds,
             owner'[h] \in InstanceIds, owner'[k] = owner'[h]
      PROVE  k = h
  <2>1. h # g /\ k # g
    BY <1>2, <1>3, MarkersAreNoInstances
  <2> QED
    BY <2>1, <1>2, <1>3 DEF OwnersInv
<1>4. ASSUME NEW i \in serving'
      PROVE  \E h \in GuestIds : owner'[h] = i
  <2>1. PICK h \in GuestIds : owner[h] = i
    BY <1>1, <1>4 DEF OwnersInv
  <2>2. h # g
    BY <1>1, <1>4, <2>1
  <2> QED
    BY <2>1, <2>2, <1>2
<1> QED
  BY <1>1, <1>2, <1>3, <1>4 DEF OwnersInv

LEMMA Taken ==
    ASSUME OwnersInv, NEW g \in GuestIds, NEW i \in InstanceIds, Ownership!Take(g, i)
    PROVE  OwnersInv'
<1>1. /\ owner[g] \in {"nobody", "pool"} /\ i \notin serving /\ serving' = serving
      /\ owner' = [h \in GuestIds |->
            IF h = g THEN i ELSE IF owner[h] = i THEN "nobody" ELSE owner[h]]
  BY DEF Ownership!Take, owner, serving
<1>2. owner' \in [GuestIds -> InstanceIds \cup Markers]
  BY <1>1 DEF OwnersInv, Markers
<1>3. ASSUME NEW h \in GuestIds, NEW k \in GuestIds,
             owner'[h] \in InstanceIds, owner'[k] = owner'[h]
      PROVE  k = h
  <2>1. CASE owner'[h] = i
    <3>1. \A j \in GuestIds : owner'[j] = i => j = g
      BY <1>1, MarkersAreNoInstances DEF Markers
    <3> QED
      BY <3>1, <2>1, <1>3
  <2>2. CASE owner'[h] # i
    <3>1. owner'[h] = owner[h] /\ owner'[k] = owner[k]
      BY <1>1, <1>3, <2>2, MarkersAreNoInstances DEF Markers
    <3> QED
      BY <3>1, <1>3 DEF OwnersInv
  <2> QED
    BY <2>1, <2>2
<1>4. ASSUME NEW j \in serving'
      PROVE  \E h \in GuestIds : owner'[h] = j
  <2>1. PICK h \in GuestIds : owner[h] = j
    BY <1>1, <1>4 DEF OwnersInv
  <2>2. j # i /\ j \in InstanceIds
    BY <1>1, <1>4 DEF OwnersInv
  <2>3. h # g
    BY <1>1, <2>1, <2>2, MarkersAreNoInstances DEF Markers
  <2> QED
    BY <2>1, <2>2, <2>3, <1>1
<1> QED
  BY <1>1, <1>2, <1>3, <1>4 DEF OwnersInv

\* What the promise of GuestOwnership is worth: under it, a serving instance
\* has exactly one guest.
THEOREM OwnedMeansServed == Ownership!Spec => []Ownership!ServedByOneGuest
<1>1. Ownership!Init => OwnersInv
  <2> SUFFICES ASSUME Ownership!Init PROVE OwnersInv
    OBVIOUS
  <2>1. owner = [g \in GuestIds |-> "unmade"] /\ serving = {}
    BY DEF Ownership!Init, owner, serving
  <2> QED
    BY <2>1, MarkersAreNoInstances DEF OwnersInv, Markers
<1>2. OwnersInv /\ [Ownership!Next]_Ownership!vars => OwnersInv'
  <2> SUFFICES ASSUME OwnersInv, [Ownership!Next]_Ownership!vars PROVE OwnersInv'
    OBVIOUS
  <2>0. \A g \in GuestIds : owner[g] \in {"nobody", "unmade"} => owner[g] \notin serving
    BY MarkersAreNoInstances DEF OwnersInv, Markers
  <2>1. ASSUME NEW g \in GuestIds, Ownership!Make(g) PROVE OwnersInv'
    <3>1. owner[g] = "unmade" /\ Ownership!OwnerBecomes(g, "nobody")
      BY <2>1 DEF Ownership!Make, owner
    <3> QED
      BY <2>0, <3>1, OwnerLost DEF Markers
  <2>2. ASSUME NEW g \in GuestIds, Ownership!Adopt(g) PROVE OwnersInv'
    <3>1. owner[g] = "nobody" /\ Ownership!OwnerBecomes(g, "pool")
      BY <2>2 DEF Ownership!Adopt, owner
    <3> QED
      BY <2>0, <3>1, OwnerLost DEF Markers
  <2>3. ASSUME NEW g \in GuestIds, Ownership!Lose(g) PROVE OwnersInv'
    <3>1. owner[g] \notin serving /\ Ownership!OwnerBecomes(g, "nobody")
      BY <2>3 DEF Ownership!Lose, owner, serving
    <3> QED
      BY <3>1, OwnerLost DEF Markers
  <2>4. ASSUME NEW g \in GuestIds, Ownership!Destroy(g) PROVE OwnersInv'
    <3>1. owner[g] \notin serving /\ Ownership!OwnerBecomes(g, "destroyed")
      BY <2>4 DEF Ownership!Destroy, owner, serving
    <3> QED
      BY <3>1, OwnerLost DEF Markers
  <2>5. ASSUME NEW i \in InstanceIds, Ownership!Serve(i) PROVE OwnersInv'
    <3>1. /\ \E g \in GuestIds : owner[g] = i
          /\ serving' = serving \cup {i} /\ owner' = owner
      BY <2>5 DEF Ownership!Serve, owner, serving
    <3> QED
      BY <3>1 DEF OwnersInv
  <2>6. ASSUME NEW i \in InstanceIds, Ownership!Release(i) PROVE OwnersInv'
    <3>1. serving' = serving \ {i} /\ owner' = owner
      BY <2>6 DEF Ownership!Release, owner, serving
    <3> QED
      BY <3>1 DEF OwnersInv
  <2>7. CASE UNCHANGED Ownership!vars
    <3>1. serving' = serving /\ owner' = owner
      BY <2>7 DEF Ownership!vars, owner, serving
    <3> QED
      BY <3>1 DEF OwnersInv
  <2> QED
    BY <2>1, <2>2, <2>3, <2>4, <2>5, <2>6, <2>7, Taken DEF Ownership!Next
<1>3. OwnersInv => Ownership!ServedByOneGuest
  <2>1. OwnersInv => \A i \in serving : \E g \in GuestIds :
            owner[g] = i /\ \A h \in GuestIds : owner[h] = i => h = g
    BY DEF OwnersInv
  <2> QED
    BY <2>1 DEF Ownership!ServedByOneGuest, owner, serving
<1> QED
  BY <1>1, <1>2, <1>3, PTL DEF Ownership!Spec

\* A serving instance has exactly one guest, whatever is cloned, adopted, lost,
\* taken over or destroyed around it: the claim, the cold clone, the teardown
\* and the sweep of src/deploy/site-worker/index.js, cut off at any step.
THEOREM ServedByOne ==
    ASSUME MarksArrive
    PROVE  Spec => []Ownership!ServedByOneGuest
BY GuestsAreOwnedByOne, OwnedMeansServed, PTL DEF OwnedByOne
=============================================================================
