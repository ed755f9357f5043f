---------------------------- MODULE ControlPlane ----------------------------
(***************************************************************************)
(* The PostgreSQL control plane of the console: instances, the operations  *)
(* requested on them, the snapshot rows and the capacity reservations, and *)
(* the SECURITY DEFINER functions of supabase/migrations/ through which    *)
(* the console and the site workers write them.  Each function is one      *)
(* transaction, so each is one action.                                     *)
(*                                                                         *)
(* Simplifications, and why each is sound:                                 *)
(*  - An operation id stands for its idempotency key.  A request with a    *)
(*    known key returns the recorded id and writes nothing: a stutter.     *)
(*  - Roles, names, images and audit rows decide only whether a request is *)
(*    refused, and a refused request is a stutter.                         *)
(*  - `stopped` is in the state check of `instances` but no function sets  *)
(*    it, so it is not a state of this module.                             *)
(*  - Which candidate wins a placement is left open here.                  *)
(*  - The worker starts a stage, or holds capacity, only of an operation   *)
(*    it has just read as active.  That is the one thing this module takes *)
(*    from its callers, and SiteWorker shows that they keep it.  A finish  *)
(*    may arrive at any time and any number of times.                      *)
(***************************************************************************)
EXTENDS Naturals

CONSTANTS
    InstanceIds,   \* instance uuids
    OperationIds,  \* operation uuids, one per idempotency key
    ClusterIds,    \* infrastructure_clusters.id
    Plans,         \* catalog_plans.id
    Upgrades,      \* <<p, q>>: q is another plan, and shrinks nothing of p
    NoInstance, NoCluster, NoPlan, NoOperation  \* SQL nulls

ASSUME NullsAreNotIds ==
    /\ NoInstance \notin InstanceIds
    /\ NoCluster \notin ClusterIds
    /\ NoPlan \notin Plans
    /\ NoOperation \notin OperationIds

ASSUME UpgradesArePlans ==
    /\ Upgrades \subseteq Plans \X Plans
    /\ \A p \in Plans : <<p, p>> \notin Upgrades

VARIABLES
    instances,             \* public.instances
    operations,            \* public.operations
    instance_snapshots,    \* public.instance_snapshots, by the operation that made the row
    capacity_reservations  \* public.capacity_reservations, by operation

tables == <<instances, operations, instance_snapshots, capacity_reservations>>

-----------------------------------------------------------------------------
Kinds == {"create", "snapshot", "resize", "restore_replace", "delete"}
Outcomes == {"succeeded", "failed"}
ActiveStates == {"pending", "running"}

\* The state an instance is put in by the request of an operation.
BusyState(kind) ==
    CASE kind = "create" -> "provisioning"
      [] kind = "snapshot" -> "snapshotting"
      [] kind = "resize" -> "resizing"
      [] kind = "restore_replace" -> "restoring"
      [] kind = "delete" -> "deleting"

BusyStates == {"provisioning", "snapshotting", "resizing", "restoring", "deleting"}

\* "none" is a row not yet inserted, "gone" a row deleted.
InstanceStates ==
    BusyStates \cup {"none", "ready", "degraded", "failed", "delete_failed", "gone"}

InstanceRow ==
    [state: InstanceStates, plan: Plans \cup {NoPlan}, cluster: ClusterIds \cup {NoCluster}]

OperationRow ==
    [kind: Kinds, state: ActiveStates \cup Outcomes \cup {"none"},
     instance: InstanceIds \cup {NoInstance}, cluster: ClusterIds \cup {NoCluster},
     target_plan: Plans \cup {NoPlan}, snapshot: OperationIds \cup {NoOperation},
     staged: BOOLEAN]   \* operation_stages rows were seeded for it

TypeOK ==
    /\ instances \in [InstanceIds -> InstanceRow]
    /\ operations \in [OperationIds -> OperationRow]
    /\ instance_snapshots \in [OperationIds -> {"none", "creating", "ready", "failed"}]
    /\ capacity_reservations \in [OperationIds -> {"none", "held", "released"}]

NoInstanceRow == [state |-> "none", plan |-> NoPlan, cluster |-> NoCluster]

NoOperationRow ==
    [kind |-> "create", state |-> "none", instance |-> NoInstance, cluster |-> NoCluster,
     target_plan |-> NoPlan, snapshot |-> NoOperation, staged |-> FALSE]

Init ==
    /\ instances = [i \in InstanceIds |-> NoInstanceRow]
    /\ operations = [o \in OperationIds |-> NoOperationRow]
    /\ instance_snapshots = [o \in OperationIds |-> "none"]
    /\ capacity_reservations = [o \in OperationIds |-> "none"]

Active(o) == operations[o].state \in ActiveStates
ActiveOn(i) == {o \in OperationIds : operations[o].instance = i /\ Active(o)}

-----------------------------------------------------------------------------
(* Definitions named X_bug are faulty variants of X, each a mistake that    *)
(* could be made in the function X translates.  No specification uses them; *)
(* they are what the properties below are measured against.                 *)

-----------------------------------------------------------------------------
(* Requests, made by the console for a customer or by the operator tool.   *)

request_instance_create(o, i, plan) ==
    /\ operations[o].state = "none"
    /\ instances[i].state = "none"
    /\ instances' = [instances EXCEPT ![i] =
            [state |-> "provisioning", plan |-> plan, cluster |-> NoCluster]]
    /\ operations' = [operations EXCEPT ![o] =
            [NoOperationRow EXCEPT !.kind = "create", !.state = "pending",
                                   !.instance = i, !.staged = TRUE]]
    /\ UNCHANGED <<instance_snapshots, capacity_reservations>>

RoutedCluster_unset(i) == NoCluster

\* The routing trigger: an operation follows its instance.
RoutedCluster(i) == instances[i].cluster

\* What every other request does: the state check under the row lock, the
\* busy state, and an operation row that the unique index on active operations
\* admits and that the routing trigger sends to the instance's own cluster.
InsertOperation(o, i, kind, admitted, plan, snapshot, staged) ==
    /\ operations[o].state = "none"
    /\ instances[i].state \in admitted
    /\ ActiveOn(i) = {}
    /\ instances' = [instances EXCEPT ![i].state = BusyState(kind)]
    /\ operations' = [operations EXCEPT ![o] =
            [kind |-> kind, state |-> "pending", instance |-> i,
             cluster |-> RoutedCluster(i), target_plan |-> plan,
             snapshot |-> snapshot, staged |-> staged]]
    /\ UNCHANGED capacity_reservations

Recoverable == {"ready", "degraded"}
Deletable == {"ready", "failed", "degraded", "delete_failed"}

request_instance_snapshot(o, i) ==
    /\ InsertOperation(o, i, "snapshot", Recoverable, NoPlan, NoOperation, TRUE)
    /\ instance_snapshots' = [instance_snapshots EXCEPT ![o] = "creating"]

request_instance_resize(o, i, plan) ==
    /\ <<instances[i].plan, plan>> \in Upgrades
    /\ InsertOperation(o, i, "resize", Recoverable, plan, NoOperation, TRUE)
    /\ UNCHANGED instance_snapshots

RecoveryPoint_anyState(s, i) == instance_snapshots[s] # "none" /\ operations[s].instance = i

\* A finished snapshot of the same instance.
RecoveryPoint(s, i) == instance_snapshots[s] = "ready" /\ operations[s].instance = i

request_instance_restore_replace(o, i, s) ==
    /\ RecoveryPoint(s, i)
    /\ InsertOperation(o, i, "restore_replace", Recoverable, NoPlan, s, TRUE)
    /\ UNCHANGED instance_snapshots

\* The console's delete: no stages, the deletion pass carries it out.
request_instance_deletion(o, i) ==
    /\ InsertOperation(o, i, "delete", Deletable, NoPlan, NoOperation, FALSE)
    /\ UNCHANGED instance_snapshots

\* The operator's delete still seeds the stages.
request_instance_delete(o, i) ==
    /\ InsertOperation(o, i, "delete", Deletable, NoPlan, NoOperation, TRUE)
    /\ UNCHANGED instance_snapshots

-----------------------------------------------------------------------------
(* Calls of the site workers.                                              *)

place_next_pending_operation(o, c) ==
    LET i == operations[o].instance IN
    /\ operations[o].kind = "create"
    /\ operations[o].state = "pending"
    /\ operations[o].cluster = NoCluster
    /\ operations' = [operations EXCEPT ![o].cluster = c]
    /\ instances' = [instances EXCEPT ![i].cluster = c]
    /\ capacity_reservations' = [capacity_reservations EXCEPT ![o] = "held"]
    /\ UNCHANGED instance_snapshots

Owned(o) == operations[o].cluster # NoCluster

\* The function itself does not look at the operation's state.
worker_start_stage(o) ==
    /\ Owned(o)
    /\ operations[o].staged
    /\ operations' = [operations EXCEPT ![o].state = "running"]
    /\ UNCHANGED <<instances, instance_snapshots, capacity_reservations>>

\* Nor does this one; a second reservation of one operation violates the
\* unique index and raises.
worker_hold_capacity(o) ==
    /\ Owned(o)
    /\ capacity_reservations[o] # "held"
    /\ capacity_reservations' = [capacity_reservations EXCEPT ![o] = "held"]
    /\ UNCHANGED <<instances, operations, instance_snapshots>>

CreateSettles_unguarded(i, outcome) == IF outcome = "succeeded" THEN "ready" ELSE "failed"

CreateSettles(i, outcome) ==
    IF instances[i].state \in {"deleting", "delete_failed"} THEN instances[i].state
    ELSE IF outcome = "succeeded" THEN "ready" ELSE "failed"

SettledState_deleteRetried(kind, i, outcome) ==
    CASE kind = "create" -> CreateSettles(i, outcome)
      [] kind = "delete" -> IF outcome = "succeeded" THEN "gone" ELSE "deleting"
      [] OTHER -> IF outcome = "succeeded" THEN "ready" ELSE "degraded"

SettledState(kind, i, outcome) ==
    CASE kind = "create" -> CreateSettles(i, outcome)
      [] kind = "snapshot" -> "ready"
      [] kind \in {"resize", "restore_replace"} ->
            IF outcome = "succeeded" THEN "ready" ELSE "degraded"
      [] kind = "delete" -> IF outcome = "succeeded" THEN "gone" ELSE "delete_failed"

SnapshotsAfter_outcome(o, i, outcome) ==
    IF operations[o].kind = "snapshot"
    THEN [instance_snapshots EXCEPT ![o] = outcome] ELSE instance_snapshots

SnapshotsAfter_onlySuccess(o, i, outcome) ==
    IF operations[o].kind = "snapshot" /\ outcome = "succeeded"
    THEN [instance_snapshots EXCEPT ![o] = "ready"] ELSE instance_snapshots

\* instance_snapshots cascades on the deleted row, operations.instance_id is
\* set to null.
SnapshotsAfter(o, i, outcome) ==
    CASE operations[o].kind = "snapshot" ->
            [instance_snapshots EXCEPT ![o] =
                IF outcome = "succeeded" THEN "ready" ELSE "failed"]
      [] operations[o].kind = "delete" /\ outcome = "succeeded" ->
            [s \in OperationIds |->
                IF operations[s].instance = i THEN "none" ELSE instance_snapshots[s]]
      [] OTHER -> instance_snapshots

OperationsAfter(o, i, outcome) ==
    LET orphans == IF operations[o].kind = "delete" /\ outcome = "succeeded"
                   THEN {q \in OperationIds : operations[q].instance = i} ELSE {}
    IN  [q \in OperationIds |->
            [operations[q] EXCEPT !.state = IF q = o THEN outcome ELSE @,
                                  !.instance = IF q \in orphans THEN NoInstance ELSE @]]

HoldAfter_kept(o) == capacity_reservations[o]

HoldAfter(o) == IF capacity_reservations[o] = "held" THEN "released" ELSE capacity_reservations[o]

\* worker_finish_operation on an operation that is not yet terminal.
\* `observed` says whether the measured resources match the target plan; a
\* resize reported as succeeded without it raises, and nothing is written.
worker_finish_operation(o, outcome, observed) ==
    LET i == operations[o].instance
        kind == operations[o].kind
    IN
    /\ Owned(o)
    /\ Active(o)
    /\ i # NoInstance
    /\ kind = "resize" /\ outcome = "succeeded" => observed
    /\ instances' = [instances EXCEPT
            ![i].state = SettledState(kind, i, outcome),
            ![i].plan = IF kind = "resize" /\ outcome = "succeeded"
                        THEN operations[o].target_plan ELSE @]
    /\ instance_snapshots' = SnapshotsAfter(o, i, outcome)
    /\ operations' = OperationsAfter(o, i, outcome)
    /\ capacity_reservations' = [capacity_reservations EXCEPT ![o] = HoldAfter(o)]

FinishAgain_noEarlyReturn(o, outcome) ==
    /\ Owned(o)
    /\ operations[o].state \in Outcomes
    /\ operations' = [operations EXCEPT ![o].state = outcome]
    /\ UNCHANGED <<instances, instance_snapshots, capacity_reservations>>

\* The same call on a terminal operation: a request sent again after its
\* answer was lost, or `failed` sent after an unanswered `succeeded`.  The
\* early return of finish_instance_operation comes after the write that
\* worker_finish_operation makes for a create.
FinishAgain(o, outcome) ==
    LET i == operations[o].instance IN
    /\ Owned(o)
    /\ operations[o].state \in Outcomes
    /\ instances' =
            IF operations[o].kind = "create" /\ i # NoInstance
            THEN [instances EXCEPT ![i].state = CreateSettles(i, outcome)]
            ELSE instances
    /\ UNCHANGED <<operations, instance_snapshots, capacity_reservations>>

-----------------------------------------------------------------------------
Request(o) ==
    \E i \in InstanceIds :
        \/ \E p \in Plans : request_instance_create(o, i, p)
        \/ request_instance_snapshot(o, i)
        \/ \E p \in Plans : request_instance_resize(o, i, p)
        \/ \E s \in OperationIds : request_instance_restore_replace(o, i, s)
        \/ request_instance_deletion(o, i)
        \/ request_instance_delete(o, i)

WorkerCall(o) ==
    \/ \E c \in ClusterIds : place_next_pending_operation(o, c)
    \/ Active(o) /\ worker_start_stage(o)
    \/ Active(o) /\ worker_hold_capacity(o)
    \/ \E outcome \in Outcomes, observed \in BOOLEAN :
            worker_finish_operation(o, outcome, observed)
    \/ \E outcome \in Outcomes : FinishAgain(o, outcome)

Next == \E o \in OperationIds : Request(o) \/ WorkerCall(o)

Spec == Init /\ [][Next]_tables

-----------------------------------------------------------------------------
(* Safety.                                                                 *)

\* An instance shown as busy has an operation of the matching kind still to
\* finish.  Otherwise every request answers `instance is busy` for ever and
\* nothing will ever settle the row, as happened when a second overload of
\* the delete request made no operation.
NoStrandedInstance ==
    \A i \in InstanceIds : instances[i].state \in BusyStates =>
        \E o \in ActiveOn(i) : instances[i].state = BusyState(operations[o].kind)

\* A snapshot row is `creating` exactly while its own operation is active: no
\* recovery point is left in creation by a failed operation, or settled early.
SnapshotSettled ==
    \A s \in OperationIds :
        instance_snapshots[s] = "creating" <=> operations[s].kind = "snapshot" /\ Active(s)

\* While a restore is under way the snapshot it rolls back to is a finished
\* one of the same instance.
RestorePointReady ==
    \A o \in OperationIds : operations[o].kind = "restore_replace" /\ Active(o) =>
        LET s == operations[o].snapshot IN
        /\ instance_snapshots[s] = "ready"
        /\ operations[s].instance = operations[o].instance

\* Capacity stays held only for an operation that is still to finish, whatever
\* the order of holds, finishes and repeated finishes: nothing releases a hold
\* of a terminal operation afterwards.
HeldOnlyWhileActive ==
    \A o \in OperationIds : capacity_reservations[o] = "held" => Active(o)

\* An operation is on its instance's cluster, and one that is not a create is
\* on some cluster, so exactly one worker can claim it.
RoutedToOwner ==
    \A o \in OperationIds : LET i == operations[o].instance IN
        i # NoInstance =>
            /\ operations[o].cluster = instances[i].cluster
            /\ operations[o].kind # "create" => operations[o].cluster # NoCluster

-----------------------------------------------------------------------------
(* Action properties.                                                      *)

\* Once a delete is accepted the instance never becomes usable again: it is
\* deleting until it is gone or the delete has failed, and a late or repeated
\* finish of its create does not revive it.
DeletionIsSticky ==
    [][\A i \in InstanceIds : instances[i].state \in {"deleting", "delete_failed", "gone"} =>
            instances'[i].state \in {"deleting", "delete_failed", "gone"}]_tables

\* A terminal operation keeps its outcome, whichever call comes after.
TerminalIsFinal ==
    [][\A o \in OperationIds : operations[o].state \in Outcomes =>
            operations'[o].state = operations[o].state]_tables

=============================================================================
