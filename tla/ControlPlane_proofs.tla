------------------------ MODULE ControlPlane_proofs ------------------------
(***************************************************************************)
(* Proofs about the control plane, for any number of instances,            *)
(* operations, clusters and plans.                                         *)
(***************************************************************************)
EXTENDS ControlPlane, TLAPS

-----------------------------------------------------------------------------
(* What the operators defined by CASE return, kind by kind.                *)

LEMMA BusyStateIs ==
    /\ BusyState("create") = "provisioning"
    /\ BusyState("snapshot") = "snapshotting"
    /\ BusyState("resize") = "resizing"
    /\ BusyState("restore_replace") = "restoring"
    /\ BusyState("delete") = "deleting"
BY DEF BusyState

LEMMA SettledStateIs ==
    ASSUME NEW i, NEW outcome
    PROVE  /\ SettledState("create", i, outcome) = CreateSettles(i, outcome)
           /\ SettledState("snapshot", i, outcome) = "ready"
           /\ SettledState("resize", i, outcome) =
                IF outcome = "succeeded" THEN "ready" ELSE "degraded"
           /\ SettledState("restore_replace", i, outcome) =
                IF outcome = "succeeded" THEN "ready" ELSE "degraded"
           /\ SettledState("delete", i, outcome) =
                IF outcome = "succeeded" THEN "gone" ELSE "delete_failed"
BY DEF SettledState

LEMMA SnapshotsAfterIs ==
    ASSUME NEW o \in OperationIds, NEW i, NEW outcome
    PROVE  /\ operations[o].kind = "snapshot" =>
                SnapshotsAfter(o, i, outcome) =
                    [instance_snapshots EXCEPT ![o] =
                        IF outcome = "succeeded" THEN "ready" ELSE "failed"]
           /\ operations[o].kind = "delete" /\ outcome = "succeeded" =>
                SnapshotsAfter(o, i, outcome) =
                    [s \in OperationIds |->
                        IF operations[s].instance = i THEN "none" ELSE instance_snapshots[s]]
           /\ operations[o].kind # "snapshot" /\ ~(operations[o].kind = "delete" /\ outcome = "succeeded") =>
                SnapshotsAfter(o, i, outcome) = instance_snapshots
BY DEF SnapshotsAfter

-----------------------------------------------------------------------------
(* Type correctness.                                                       *)

LEMMA TypeInit == Init => TypeOK
BY DEF Init, TypeOK, InstanceRow, OperationRow, InstanceStates, BusyStates, NoInstanceRow,
       NoOperationRow, ActiveStates, Outcomes, Kinds

LEMMA TypeInsert ==
    ASSUME TypeOK, NEW o \in OperationIds, NEW i \in InstanceIds, NEW kind \in Kinds,
           NEW admitted, NEW plan \in Plans \cup {NoPlan},
           NEW snapshot \in OperationIds \cup {NoOperation}, NEW staged \in BOOLEAN,
           InsertOperation(o, i, kind, admitted, plan, snapshot, staged)
    PROVE  /\ instances' \in [InstanceIds -> InstanceRow]
           /\ operations' \in [OperationIds -> OperationRow]
           /\ capacity_reservations' \in [OperationIds -> {"none", "held", "released"}]
<1>1. BusyState(kind) \in InstanceStates
  BY BusyStateIs DEF Kinds, InstanceStates, BusyStates
<1>2. instances' \in [InstanceIds -> InstanceRow]
  BY <1>1 DEF TypeOK, InsertOperation, InstanceRow
<1>3. operations' \in [OperationIds -> OperationRow]
  BY DEF TypeOK, InsertOperation, OperationRow, InstanceRow, ActiveStates, RoutedCluster
<1>4. QED
  BY <1>2, <1>3 DEF TypeOK, InsertOperation

LEMMA TypeRequest ==
    ASSUME TypeOK, NEW o \in OperationIds, Request(o)
    PROVE  TypeOK'
<1> PICK i \in InstanceIds :
        \/ \E p \in Plans : request_instance_create(o, i, p)
        \/ request_instance_snapshot(o, i)
        \/ \E p \in Plans : request_instance_resize(o, i, p)
        \/ \E s \in OperationIds : request_instance_restore_replace(o, i, s)
        \/ request_instance_deletion(o, i)
        \/ request_instance_delete(o, i)
  BY DEF Request
<1>1. CASE \E p \in Plans : request_instance_create(o, i, p)
  <2> PICK p \in Plans : request_instance_create(o, i, p)
    BY <1>1
  <2>1. instances' \in [InstanceIds -> InstanceRow]
    BY DEF request_instance_create, TypeOK, InstanceRow, InstanceStates, BusyStates
  <2>2. [NoOperationRow EXCEPT !.kind = "create", !.state = "pending", !.instance = i,
                               !.staged = TRUE] \in OperationRow
    BY DEF NoOperationRow, OperationRow, ActiveStates, Kinds
  <2>3. operations' \in [OperationIds -> OperationRow]
    BY <2>2 DEF request_instance_create, TypeOK
  <2>4. QED
    BY <2>1, <2>3 DEF request_instance_create, TypeOK
<1>2. CASE request_instance_snapshot(o, i)
  BY <1>2, TypeInsert DEF request_instance_snapshot, TypeOK, Kinds
<1>3. CASE \E p \in Plans : request_instance_resize(o, i, p)
  BY <1>3, TypeInsert DEF request_instance_resize, TypeOK, Kinds
<1>4. CASE \E s \in OperationIds : request_instance_restore_replace(o, i, s)
  BY <1>4, TypeInsert DEF request_instance_restore_replace, TypeOK, Kinds
<1>5. CASE request_instance_deletion(o, i)
  BY <1>5, TypeInsert DEF request_instance_deletion, TypeOK, Kinds
<1>6. CASE request_instance_delete(o, i)
  BY <1>6, TypeInsert DEF request_instance_delete, TypeOK, Kinds
<1>7. QED
  BY <1>1, <1>2, <1>3, <1>4, <1>5, <1>6

LEMMA TypeFinish ==
    ASSUME TypeOK, NEW o \in OperationIds, NEW outcome \in Outcomes, NEW observed \in BOOLEAN,
           worker_finish_operation(o, outcome, observed)
    PROVE  TypeOK'
<1> DEFINE i == operations[o].instance
           kind == operations[o].kind
<1>1. i \in InstanceIds /\ kind \in Kinds
  BY DEF TypeOK, OperationRow, worker_finish_operation
<1>2. SettledState(kind, i, outcome) \in InstanceStates
  BY <1>1, SettledStateIs DEF Kinds, TypeOK, InstanceRow, CreateSettles, InstanceStates
<1>3. instances' \in [InstanceIds -> InstanceRow]
  BY <1>1, <1>2 DEF TypeOK, worker_finish_operation, InstanceRow, OperationRow
<1>4. operations' \in [OperationIds -> OperationRow]
  <2>1. SUFFICES ASSUME NEW q \in OperationIds PROVE operations'[q] \in OperationRow
    BY DEF worker_finish_operation, OperationsAfter
  <2>2. operations[q] \in OperationRow
    BY DEF TypeOK
  <2>3. PICK s \in ActiveStates \cup Outcomes \cup {"none"}, inst \in InstanceIds \cup {NoInstance} :
            operations'[q] = [operations[q] EXCEPT !.state = s, !.instance = inst]
    BY <2>2 DEF worker_finish_operation, OperationsAfter, OperationRow
  <2>4. QED
    BY <2>2, <2>3 DEF OperationRow
<1>5. instance_snapshots' \in [OperationIds -> {"none", "creating", "ready", "failed"}]
  BY SnapshotsAfterIs DEF TypeOK, worker_finish_operation
<1>6. QED
  BY <1>3, <1>4, <1>5 DEF TypeOK, worker_finish_operation, HoldAfter

LEMMA TypeWorkerCall ==
    ASSUME TypeOK, NEW o \in OperationIds, WorkerCall(o)
    PROVE  TypeOK'
<1>1. CASE \E c \in ClusterIds : place_next_pending_operation(o, c)
  <2> PICK c \in ClusterIds : place_next_pending_operation(o, c)
    BY <1>1
  <2>1. operations' \in [OperationIds -> OperationRow]
    BY DEF place_next_pending_operation, TypeOK, OperationRow
  <2>2. instances' \in [InstanceIds -> InstanceRow]
    BY DEF place_next_pending_operation, TypeOK, InstanceRow
  <2>3. QED
    BY <2>1, <2>2 DEF place_next_pending_operation, TypeOK
<1>2. CASE Active(o) /\ worker_start_stage(o)
  BY <1>2 DEF worker_start_stage, TypeOK, OperationRow, ActiveStates
<1>3. CASE Active(o) /\ worker_hold_capacity(o)
  BY <1>3 DEF worker_hold_capacity, TypeOK
<1>4. CASE \E outcome \in Outcomes, observed \in BOOLEAN :
                worker_finish_operation(o, outcome, observed)
  BY <1>4, TypeFinish
<1>5. CASE \E outcome \in Outcomes : FinishAgain(o, outcome)
  BY <1>5 DEF FinishAgain, CreateSettles, TypeOK, InstanceRow, OperationRow, InstanceStates
<1>6. QED
  BY <1>1, <1>2, <1>3, <1>4, <1>5 DEF WorkerCall

\* Every column keeps to its check constraint: no sequence of requests and
\* worker calls writes a state the schema does not allow.
THEOREM TypeCorrect == Spec => []TypeOK
<1>1. TypeOK /\ [Next]_tables => TypeOK'
  <2>1. CASE Next
    BY <2>1, TypeRequest, TypeWorkerCall DEF Next
  <2>2. CASE UNCHANGED tables
    BY <2>2 DEF tables, TypeOK
  <2>3. QED
    BY <2>1, <2>2
<1>2. QED
  BY <1>1, TypeInit, PTL DEF Spec

-----------------------------------------------------------------------------
(* The inductive invariant: the safety invariants, and what they rest on.  *)

\* The unique index on active operations.
OneActive ==
    \A o, q \in OperationIds :
        Active(o) /\ Active(q) /\ operations[o].instance = operations[q].instance => o = q

ActiveHasInstance == \A o \in OperationIds : Active(o) => operations[o].instance \in InstanceIds

UnusedHasNoInstance ==
    \A o \in OperationIds : operations[o].state = "none" => operations[o].instance = NoInstance

\* The foreign key: an operation refers to a row that exists.
RefersToRow ==
    \A o \in OperationIds : operations[o].instance # NoInstance =>
        instances[operations[o].instance].state \notin {"none", "gone"}

\* Only a create can leave a row unplaced, and each row has one create.
PlacedUnlessProvisioning ==
    \A i \in InstanceIds :
        instances[i].state \notin {"none", "provisioning"} => instances[i].cluster # NoCluster

UnplacedHasOnlyCreate ==
    \A o \in OperationIds : LET i == operations[o].instance IN
        i # NoInstance /\ instances[i].cluster = NoCluster => operations[o].kind = "create"

OneCreate ==
    \A o, q \in OperationIds :
        /\ operations[o].kind = "create" /\ operations[q].kind = "create"
        /\ operations[o].instance # NoInstance
        /\ operations[o].instance = operations[q].instance
        => o = q

RestoreHasSnapshot ==
    \A o \in OperationIds : operations[o].kind = "restore_replace" /\ Active(o) =>
        operations[o].snapshot \in OperationIds

FailedDeleteIsOver ==
    \A o \in OperationIds : Active(o) => instances[operations[o].instance].state # "delete_failed"

IInv ==
    /\ TypeOK
    /\ OneActive
    /\ ActiveHasInstance
    /\ UnusedHasNoInstance
    /\ RefersToRow
    /\ PlacedUnlessProvisioning
    /\ UnplacedHasOnlyCreate
    /\ OneCreate
    /\ FailedDeleteIsOver
    /\ RestoreHasSnapshot
    /\ NoStrandedInstance
    /\ SnapshotSettled
    /\ RestorePointReady
    /\ HeldOnlyWhileActive
    /\ RoutedToOwner

-----------------------------------------------------------------------------
(* What the steps do, one field at a time.                                 *)

LEMMA FinishEffect ==
    ASSUME TypeOK, NEW o \in OperationIds, NEW outcome \in Outcomes, NEW observed \in BOOLEAN,
           worker_finish_operation(o, outcome, observed),
           NEW i, i = operations[o].instance
    PROVE  /\ Active(o)
           /\ operations[o].cluster # NoCluster
           /\ i \in InstanceIds
           /\ \A q \in OperationIds \ {o} : operations'[q].state = operations[q].state
           /\ operations'[o].state = outcome
           /\ \A q \in OperationIds :
                /\ operations'[q].kind = operations[q].kind
                /\ operations'[q].cluster = operations[q].cluster
                /\ operations'[q].snapshot = operations[q].snapshot
                /\ operations'[q].instance =
                     IF operations[o].kind = "delete" /\ outcome = "succeeded"
                          /\ operations[q].instance = i
                     THEN NoInstance ELSE operations[q].instance
           /\ \A j \in InstanceIds \ {i} : instances'[j] = instances[j]
           /\ instances'[i].state = SettledState(operations[o].kind, i, outcome)
           /\ instances'[i].cluster = instances[i].cluster
           /\ capacity_reservations'[o] # "held"
           /\ \A q \in OperationIds \ {o} : capacity_reservations'[q] = capacity_reservations[q]
<1>1. /\ Active(o) /\ operations[o].cluster # NoCluster /\ i \in InstanceIds
  BY DEF worker_finish_operation, Owned, TypeOK, OperationRow
<1>2. ASSUME NEW q \in OperationIds
      PROVE  /\ operations'[q].state = IF q = o THEN outcome ELSE operations[q].state
             /\ operations'[q].kind = operations[q].kind
             /\ operations'[q].cluster = operations[q].cluster
             /\ operations'[q].snapshot = operations[q].snapshot
             /\ operations'[q].instance =
                  IF operations[o].kind = "delete" /\ outcome = "succeeded"
                       /\ operations[q].instance = i
                  THEN NoInstance ELSE operations[q].instance
  BY DEF worker_finish_operation, OperationsAfter, TypeOK, OperationRow
<1>3. /\ \A j \in InstanceIds \ {i} : instances'[j] = instances[j]
      /\ instances'[i].state = SettledState(operations[o].kind, i, outcome)
      /\ instances'[i].cluster = instances[i].cluster
  BY <1>1 DEF worker_finish_operation, TypeOK, InstanceRow
<1>4. /\ capacity_reservations'[o] # "held"
      /\ \A q \in OperationIds \ {o} : capacity_reservations'[q] = capacity_reservations[q]
  BY DEF worker_finish_operation, HoldAfter, TypeOK
<1>5. QED
  BY <1>1, <1>2, <1>3, <1>4

-----------------------------------------------------------------------------
(* Every step keeps the inductive invariant.                               *)

LEMMA InsertKeepsIInv ==
    ASSUME IInv, TypeOK', NEW o \in OperationIds, NEW i \in InstanceIds,
           NEW kind \in Kinds \ {"create"}, NEW admitted \in SUBSET Deletable, NEW plan,
           NEW snapshot, NEW staged,
           InsertOperation(o, i, kind, admitted, plan, snapshot, staged),
           \/ kind = "snapshot" /\ instance_snapshots' = [instance_snapshots EXCEPT ![o] = "creating"]
           \/ kind # "snapshot" /\ instance_snapshots' = instance_snapshots,
           kind = "restore_replace" => snapshot \in OperationIds /\ RecoveryPoint(snapshot, i)
    PROVE  IInv'
<1> USE DEF IInv, Active, ActiveStates, Outcomes
<1>1. /\ operations[o].state = "none"
      /\ instances[i].state \in {"ready", "failed", "degraded", "delete_failed"}
      /\ \A q \in OperationIds : operations[q].instance = i => ~Active(q)
      /\ operations'[o].state = "pending"
      /\ operations'[o].kind = kind
      /\ operations'[o].instance = i
      /\ operations'[o].cluster = instances[i].cluster
      /\ operations'[o].snapshot = snapshot
      /\ \A q \in OperationIds \ {o} : operations'[q] = operations[q]
      /\ instances'[i].state = BusyState(kind)
      /\ instances'[i].cluster = instances[i].cluster
      /\ \A j \in InstanceIds \ {i} : instances'[j] = instances[j]
      /\ capacity_reservations' = capacity_reservations
  BY DEF TypeOK, InsertOperation, ActiveOn, InstanceRow, RoutedCluster, Deletable
<1>2. /\ \A q \in OperationIds : Active(q)' <=> (q = o \/ Active(q))
      /\ instances[i].cluster # NoCluster
      /\ i # NoInstance /\ operations[o].instance = NoInstance
  BY <1>1, NullsAreNotIds DEF PlacedUnlessProvisioning, UnusedHasNoInstance, NullsAreNotIds
<1>3. OneActive' /\ ActiveHasInstance'
  BY <1>1, <1>2 DEF OneActive, ActiveHasInstance
<1>4. UnusedHasNoInstance'
  BY <1>1 DEF UnusedHasNoInstance
<1>5. BusyState(kind) \notin {"none", "gone", "provisioning", "delete_failed"}
  BY BusyStateIs DEF Kinds
<1>6a. RefersToRow'
  BY <1>1, <1>2, <1>5 DEF RefersToRow, TypeOK, OperationRow
<1>6b. PlacedUnlessProvisioning'
  BY <1>1, <1>2, <1>5 DEF PlacedUnlessProvisioning
<1>6c. FailedDeleteIsOver'
  BY <1>1, <1>2, <1>5 DEF FailedDeleteIsOver, ActiveHasInstance
<1>7a. UnplacedHasOnlyCreate'
  BY <1>1, <1>2 DEF UnplacedHasOnlyCreate, TypeOK, OperationRow
<1>7b. OneCreate'
  BY <1>1, <1>2 DEF OneCreate
<1>8. NoStrandedInstance'
  BY <1>1, <1>2 DEF NoStrandedInstance, ActiveOn
<1>9. SnapshotSettled'
  BY <1>1, <1>2 DEF SnapshotSettled, TypeOK
<1>10. RestoreHasSnapshot' /\ RestorePointReady'
  <2> SUFFICES ASSUME NEW q \in OperationIds,
                      operations'[q].kind = "restore_replace", Active(q)'
               PROVE  LET s == operations'[q].snapshot IN
                      /\ s \in OperationIds
                      /\ instance_snapshots'[s] = "ready"
                      /\ operations'[s].instance = operations'[q].instance
    BY DEF RestorePointReady, RestoreHasSnapshot
  <2>1. CASE q = o
    BY <1>1, <1>2, <2>1 DEF RecoveryPoint
  <2>2. CASE q # o
    <3> DEFINE s == operations[q].snapshot
    <3>1. /\ s \in OperationIds /\ instance_snapshots[s] = "ready"
          /\ operations[s].instance = operations[q].instance
          /\ operations[q].instance \in InstanceIds
      BY <1>1, <2>2 DEF RestorePointReady, RestoreHasSnapshot, ActiveHasInstance
    <3>2. s # o
      BY <1>2, <3>1, NullsAreNotIds DEF NullsAreNotIds
    <3>3. QED
      BY <1>1, <2>2, <3>1, <3>2 DEF TypeOK
  <2>3. QED
    BY <2>1, <2>2
<1>11. HeldOnlyWhileActive'
  BY <1>1, <1>2 DEF HeldOnlyWhileActive
<1>12. RoutedToOwner'
  BY <1>1, <1>2 DEF RoutedToOwner, TypeOK, OperationRow
<1>13. QED
  BY <1>3, <1>4, <1>6a, <1>6b, <1>6c, <1>7a, <1>7b, <1>8, <1>9, <1>10, <1>11, <1>12

LEMMA CreateKeepsIInv ==
    ASSUME IInv, TypeOK', NEW o \in OperationIds, NEW i \in InstanceIds, NEW plan \in Plans,
           request_instance_create(o, i, plan)
    PROVE  IInv'
<1> USE DEF IInv, Active, ActiveStates, Outcomes
<1>1. /\ operations[o].state = "none" /\ instances[i].state = "none"
      /\ operations'[o].state = "pending" /\ operations'[o].kind = "create"
      /\ operations'[o].instance = i /\ operations'[o].cluster = NoCluster
      /\ \A q \in OperationIds \ {o} : operations'[q] = operations[q]
      /\ instances'[i].state = "provisioning" /\ instances'[i].cluster = NoCluster
      /\ \A j \in InstanceIds \ {i} : instances'[j] = instances[j]
      /\ capacity_reservations' = capacity_reservations
      /\ instance_snapshots' = instance_snapshots
  BY DEF request_instance_create, NoOperationRow, TypeOK
<1>2. /\ i # NoInstance /\ operations[o].instance = NoInstance
      /\ \A q \in OperationIds : operations[q].instance # i
      /\ \A q \in OperationIds : Active(q)' <=> (q = o \/ Active(q))
  BY <1>1, NullsAreNotIds DEF UnusedHasNoInstance, NullsAreNotIds, RefersToRow
<1>3. OneActive' /\ ActiveHasInstance' /\ UnusedHasNoInstance'
  BY <1>1, <1>2 DEF OneActive, ActiveHasInstance, UnusedHasNoInstance
<1>4a. RefersToRow'
  BY <1>1, <1>2 DEF RefersToRow, TypeOK, OperationRow
<1>4b. PlacedUnlessProvisioning'
  BY <1>1, <1>2 DEF PlacedUnlessProvisioning
<1>4c. FailedDeleteIsOver'
  BY <1>1, <1>2 DEF FailedDeleteIsOver, ActiveHasInstance
<1>5. UnplacedHasOnlyCreate' /\ OneCreate'
  BY <1>1, <1>2 DEF UnplacedHasOnlyCreate, OneCreate, TypeOK, OperationRow
<1>6. NoStrandedInstance'
  BY <1>1, <1>2, BusyStateIs DEF NoStrandedInstance, ActiveOn
<1>7. SnapshotSettled'
  BY <1>1, <1>2 DEF SnapshotSettled
<1>7a. RestoreHasSnapshot' /\ RestorePointReady'
  <2> SUFFICES ASSUME NEW q \in OperationIds,
                      operations'[q].kind = "restore_replace", Active(q)'
               PROVE  LET s == operations'[q].snapshot IN
                      /\ s \in OperationIds
                      /\ instance_snapshots'[s] = "ready"
                      /\ operations'[s].instance = operations'[q].instance
    BY DEF RestorePointReady, RestoreHasSnapshot
  <2> DEFINE s == operations[q].snapshot
  <2>1. /\ q # o /\ s \in OperationIds /\ instance_snapshots[s] = "ready"
        /\ operations[s].instance = operations[q].instance
        /\ operations[q].instance \in InstanceIds
    BY <1>1 DEF RestorePointReady, RestoreHasSnapshot, ActiveHasInstance
  <2>2. s # o
    BY <1>2, <2>1, NullsAreNotIds DEF NullsAreNotIds
  <2>3. QED
    BY <1>1, <2>1, <2>2
<1>8. HeldOnlyWhileActive' /\ RoutedToOwner'
  BY <1>1, <1>2 DEF HeldOnlyWhileActive, RoutedToOwner, TypeOK, OperationRow
<1>9. QED
  BY <1>3, <1>4a, <1>4b, <1>4c, <1>5, <1>6, <1>7, <1>7a, <1>8

LEMMA RequestKeepsIInv ==
    ASSUME IInv, NEW o \in OperationIds, Request(o)
    PROVE  IInv'
<1> PICK i \in InstanceIds :
        \/ \E p \in Plans : request_instance_create(o, i, p)
        \/ request_instance_snapshot(o, i)
        \/ \E p \in Plans : request_instance_resize(o, i, p)
        \/ \E s \in OperationIds : request_instance_restore_replace(o, i, s)
        \/ request_instance_deletion(o, i)
        \/ request_instance_delete(o, i)
  BY DEF Request
<1>0. TypeOK'
  BY TypeRequest DEF IInv
<1>1. CASE \E p \in Plans : request_instance_create(o, i, p)
  BY <1>0, <1>1, CreateKeepsIInv
<1> DEFINE Keeps(kind) == \A admitted, plan, snapshot, staged :
        /\ admitted \in SUBSET Deletable
        /\ InsertOperation(o, i, kind, admitted, plan, snapshot, staged)
        /\ \/ kind = "snapshot" /\ instance_snapshots' = [instance_snapshots EXCEPT ![o] = "creating"]
           \/ kind # "snapshot" /\ instance_snapshots' = instance_snapshots
        /\ kind = "restore_replace" => snapshot \in OperationIds /\ RecoveryPoint(snapshot, i)
        => IInv'
<1>2. \A kind \in Kinds \ {"create"} : Keeps(kind)
  BY <1>0, InsertKeepsIInv
<1>3. /\ Recoverable \in SUBSET Deletable /\ Deletable \in SUBSET Deletable
      /\ {"snapshot", "resize", "restore_replace", "delete"} \subseteq Kinds \ {"create"}
  BY DEF Recoverable, Deletable, Kinds
<1>4. CASE request_instance_snapshot(o, i)
  BY <1>2, <1>3, <1>4 DEF request_instance_snapshot
<1>5. CASE \E p \in Plans : request_instance_resize(o, i, p)
  BY <1>2, <1>3, <1>5 DEF request_instance_resize
<1>6. CASE \E s \in OperationIds : request_instance_restore_replace(o, i, s)
  BY <1>2, <1>3, <1>6 DEF request_instance_restore_replace
<1>7. CASE request_instance_deletion(o, i)
  BY <1>2, <1>3, <1>7 DEF request_instance_deletion
<1>8. CASE request_instance_delete(o, i)
  BY <1>2, <1>3, <1>8 DEF request_instance_delete
<1>9. QED
  BY <1>1, <1>4, <1>5, <1>6, <1>7, <1>8

LEMMA PlaceKeepsIInv ==
    ASSUME IInv, TypeOK', NEW o \in OperationIds, NEW c \in ClusterIds,
           place_next_pending_operation(o, c)
    PROVE  IInv'
<1> USE DEF IInv, Active, ActiveStates, Outcomes
<1> DEFINE i == operations[o].instance
<1>1. /\ operations[o].kind = "create" /\ operations[o].state = "pending"
      /\ operations[o].cluster = NoCluster
      /\ i \in InstanceIds /\ i # NoInstance
      /\ operations'[o].cluster = c /\ c # NoCluster
      /\ \A q \in OperationIds \ {o} : operations'[q] = operations[q]
      /\ \A q \in OperationIds : /\ operations'[q].state = operations[q].state
                                 /\ operations'[q].kind = operations[q].kind
                                 /\ operations'[q].instance = operations[q].instance
                                 /\ operations'[q].snapshot = operations[q].snapshot
      /\ instances'[i].cluster = c
      /\ \A j \in InstanceIds : instances'[j].state = instances[j].state
      /\ \A j \in InstanceIds \ {i} : instances'[j] = instances[j]
      /\ capacity_reservations' = [capacity_reservations EXCEPT ![o] = "held"]
      /\ instance_snapshots' = instance_snapshots
  BY NullsAreNotIds DEF place_next_pending_operation, ActiveHasInstance, NullsAreNotIds,
                        TypeOK, OperationRow, InstanceRow
<1>2. \A q \in OperationIds : operations[q].instance = i => q = o
  <2>1. instances[i].cluster = NoCluster
    BY <1>1 DEF RoutedToOwner
  <2>2. QED
    BY <1>1, <2>1 DEF UnplacedHasOnlyCreate, OneCreate
<1>3. \A q \in OperationIds : operations[q].instance \in InstanceIds \cup {NoInstance}
  BY DEF TypeOK, OperationRow
<1>4. OneActive' /\ ActiveHasInstance' /\ UnusedHasNoInstance' /\ OneCreate'
  BY <1>1 DEF OneActive, ActiveHasInstance, UnusedHasNoInstance, OneCreate
<1>5. RefersToRow' /\ PlacedUnlessProvisioning' /\ FailedDeleteIsOver'
  BY <1>1, <1>3 DEF RefersToRow, PlacedUnlessProvisioning, FailedDeleteIsOver, ActiveHasInstance
<1>6. UnplacedHasOnlyCreate' /\ RoutedToOwner'
  BY <1>1, <1>2, <1>3 DEF UnplacedHasOnlyCreate, RoutedToOwner
<1>7. NoStrandedInstance'
  BY <1>1 DEF NoStrandedInstance, ActiveOn
<1>8. SnapshotSettled' /\ RestoreHasSnapshot' /\ RestorePointReady'
  BY <1>1 DEF SnapshotSettled, RestoreHasSnapshot, RestorePointReady
<1>9. HeldOnlyWhileActive'
  BY <1>1 DEF HeldOnlyWhileActive, TypeOK
<1>10. QED
  BY <1>4, <1>5, <1>6, <1>7, <1>8, <1>9

LEMMA StageKeepsIInv ==
    ASSUME IInv, TypeOK', NEW o \in OperationIds, Active(o) /\ (worker_start_stage(o) \/ worker_hold_capacity(o))
    PROVE  IInv'
<1> USE DEF IInv, Active, ActiveStates, Outcomes
<1>1. /\ Active(o)
      /\ \A q \in OperationIds : /\ Active(q)' <=> Active(q)
                                 /\ operations'[q].state = "none" <=> operations[q].state = "none"
                                 /\ operations'[q].kind = operations[q].kind
                                 /\ operations'[q].instance = operations[q].instance
                                 /\ operations'[q].cluster = operations[q].cluster
                                 /\ operations'[q].snapshot = operations[q].snapshot
      /\ instances' = instances
      /\ instance_snapshots' = instance_snapshots
      /\ \A q \in OperationIds \ {o} : capacity_reservations'[q] = capacity_reservations[q]
  BY DEF worker_start_stage, worker_hold_capacity, TypeOK, OperationRow
<1>2. OneActive' /\ ActiveHasInstance' /\ UnusedHasNoInstance' /\ OneCreate'
  BY <1>1 DEF OneActive, ActiveHasInstance, UnusedHasNoInstance, OneCreate
<1>3. RefersToRow' /\ PlacedUnlessProvisioning' /\ FailedDeleteIsOver'
  BY <1>1 DEF RefersToRow, PlacedUnlessProvisioning, FailedDeleteIsOver
<1>4. UnplacedHasOnlyCreate' /\ RoutedToOwner'
  BY <1>1 DEF UnplacedHasOnlyCreate, RoutedToOwner
<1>5. NoStrandedInstance'
  BY <1>1 DEF NoStrandedInstance, ActiveOn
<1>6. SnapshotSettled' /\ RestoreHasSnapshot' /\ RestorePointReady'
  BY <1>1 DEF SnapshotSettled, RestoreHasSnapshot, RestorePointReady
<1>7. HeldOnlyWhileActive'
  BY <1>1 DEF HeldOnlyWhileActive
<1>8. QED
  BY <1>2, <1>3, <1>4, <1>5, <1>6, <1>7

LEMMA FinishKeepsIInv ==
    ASSUME IInv, TypeOK', NEW o \in OperationIds, NEW outcome \in Outcomes, NEW observed \in BOOLEAN,
           worker_finish_operation(o, outcome, observed)
    PROVE  IInv'
<1> USE DEF IInv, Active, ActiveStates, Outcomes
<1> DEFINE i == operations[o].instance
           gone == operations[o].kind = "delete" /\ outcome = "succeeded"
<1>1. /\ Active(o) /\ operations[o].cluster # NoCluster /\ i \in InstanceIds
      /\ \A q \in OperationIds \ {o} : operations'[q].state = operations[q].state
      /\ operations'[o].state = outcome
      /\ \A q \in OperationIds :
            /\ operations'[q].kind = operations[q].kind
            /\ operations'[q].cluster = operations[q].cluster
            /\ operations'[q].snapshot = operations[q].snapshot
            /\ operations'[q].instance =
                 IF gone /\ operations[q].instance = i THEN NoInstance ELSE operations[q].instance
      /\ \A j \in InstanceIds \ {i} : instances'[j] = instances[j]
      /\ instances'[i].state = SettledState(operations[o].kind, i, outcome)
      /\ instances'[i].cluster = instances[i].cluster
      /\ capacity_reservations'[o] # "held"
      /\ \A q \in OperationIds \ {o} : capacity_reservations'[q] = capacity_reservations[q]
  BY FinishEffect
<1>2. /\ i # NoInstance
      /\ \A q \in OperationIds : Active(q)' <=> (Active(q) /\ q # o)
      /\ \A q \in OperationIds : Active(q)' => operations[q].instance # i
      /\ \A q \in OperationIds : Active(q)' => operations'[q].instance = operations[q].instance
      /\ \A q \in OperationIds : operations'[q].instance # NoInstance =>
            operations'[q].instance = operations[q].instance
  BY <1>1, NullsAreNotIds DEF OneActive, NullsAreNotIds
<1>3. operations[o].kind \in Kinds /\ instances[i].state \in InstanceStates
  BY <1>1 DEF TypeOK, OperationRow, InstanceRow
<1>4. /\ instances'[i].state \in {"ready", "failed", "degraded", "delete_failed", "gone"}
      /\ instances'[i].state = "gone" <=> gone
  <2>1. instances[i].state # "delete_failed"
    BY <1>1 DEF FailedDeleteIsOver
  <2>2. instances[i].state = "deleting" => operations[o].kind = "delete"
    BY <1>1, <1>3, BusyStateIs DEF NoStrandedInstance, ActiveOn, OneActive, BusyStates, Kinds
  <2>3. CASE operations[o].kind = "create"
    BY <1>1, <2>1, <2>2, <2>3, SettledStateIs DEF CreateSettles
  <2>4. CASE operations[o].kind # "create"
    BY <1>1, <1>3, <2>4, SettledStateIs DEF Kinds
  <2>5. QED
    BY <2>3, <2>4
<1>5. OneActive' /\ ActiveHasInstance' /\ UnusedHasNoInstance'
  BY <1>1, <1>2 DEF OneActive, ActiveHasInstance, UnusedHasNoInstance
<1>6. OneCreate'
  BY <1>1, <1>2 DEF OneCreate
<1>7. \A q \in OperationIds : operations[q].instance \in InstanceIds \cup {NoInstance}
  BY DEF TypeOK, OperationRow
<1>8. RefersToRow' /\ FailedDeleteIsOver'
  <2>1. RefersToRow'
    <3> SUFFICES ASSUME NEW q \in OperationIds, operations'[q].instance # NoInstance
                 PROVE  instances'[operations'[q].instance].state \notin {"none", "gone"}
      BY DEF RefersToRow
    <3>1. CASE operations[q].instance = i
      BY <1>1, <1>2, <1>4, <3>1
    <3>2. CASE operations[q].instance # i
      BY <1>1, <1>2, <1>7, <3>2 DEF RefersToRow
    <3>3. QED
      BY <3>1, <3>2
  <2>2. FailedDeleteIsOver'
    BY <1>1, <1>2 DEF FailedDeleteIsOver, ActiveHasInstance
  <2>3. QED
    BY <2>1, <2>2
<1>9. PlacedUnlessProvisioning'
  BY <1>1, <1>2 DEF PlacedUnlessProvisioning, RoutedToOwner
<1>10. UnplacedHasOnlyCreate' /\ RoutedToOwner'
  BY <1>1, <1>2, <1>7 DEF UnplacedHasOnlyCreate, RoutedToOwner
<1>11. NoStrandedInstance'
  <2> SUFFICES ASSUME NEW j \in InstanceIds, instances'[j].state \in BusyStates
               PROVE  \E q \in OperationIds : /\ operations'[q].instance = j /\ Active(q)'
                                              /\ instances'[j].state = BusyState(operations'[q].kind)
    BY DEF NoStrandedInstance, ActiveOn
  <2>1. j # i /\ instances'[j] = instances[j]
    BY <1>1, <1>4 DEF BusyStates
  <2>2. PICK q \in OperationIds : /\ operations[q].instance = j /\ Active(q)
                                  /\ instances[j].state = BusyState(operations[q].kind)
    BY <2>1 DEF NoStrandedInstance, ActiveOn
  <2>3. QED
    BY <1>1, <1>2, <2>1, <2>2
<1>12. \A s \in OperationIds :
         \/ s = o /\ operations[s].kind = "snapshot" /\ instance_snapshots'[s] \in {"ready", "failed"}
         \/ gone /\ operations[s].instance = i /\ instance_snapshots'[s] = "none"
         \/ ~(s = o /\ operations[s].kind = "snapshot") /\ ~(gone /\ operations[s].instance = i)
              /\ instance_snapshots'[s] = instance_snapshots[s]
  <2>1. instance_snapshots' = SnapshotsAfter(o, i, outcome)
    BY DEF worker_finish_operation
  <2>2. CASE operations[o].kind = "snapshot"
    BY <2>1, <2>2, SnapshotsAfterIs DEF TypeOK
  <2>3. CASE gone
    BY <2>1, <2>3, SnapshotsAfterIs DEF TypeOK
  <2>4. CASE operations[o].kind # "snapshot" /\ ~gone
    BY <2>1, <2>4, SnapshotsAfterIs DEF TypeOK
  <2>5. QED
    BY <2>2, <2>3, <2>4
<1>13. SnapshotSettled'
  BY <1>1, <1>2, <1>12 DEF SnapshotSettled
<1>14. RestoreHasSnapshot' /\ RestorePointReady'
  <2> SUFFICES ASSUME NEW q \in OperationIds,
                      operations'[q].kind = "restore_replace", Active(q)'
               PROVE  LET s == operations'[q].snapshot IN
                      /\ s \in OperationIds
                      /\ instance_snapshots'[s] = "ready"
                      /\ operations'[s].instance = operations'[q].instance
    BY DEF RestorePointReady, RestoreHasSnapshot
  <2> DEFINE s == operations[q].snapshot
  <2>1. /\ q # o /\ Active(q) /\ s \in OperationIds /\ instance_snapshots[s] = "ready"
        /\ operations[s].instance = operations[q].instance
        /\ operations[q].instance # i
    BY <1>1, <1>2 DEF RestorePointReady, RestoreHasSnapshot
  <2>2. s # o
    BY <2>1
  <2>3. instance_snapshots'[s] = "ready"
    BY <1>12, <2>1, <2>2
  <2>4. QED
    BY <1>1, <2>1, <2>3
<1>15. HeldOnlyWhileActive'
  BY <1>1, <1>2 DEF HeldOnlyWhileActive
<1>16. QED
  BY <1>5, <1>6, <1>8, <1>9, <1>10, <1>11, <1>13, <1>14, <1>15

LEMMA StutterKeepsIInv ==
    ASSUME IInv, UNCHANGED tables
    PROVE  IInv'
<1> USE DEF IInv, tables, Active
<1>1. TypeOK'
  BY DEF TypeOK
<1>2. OneActive' /\ ActiveHasInstance' /\ UnusedHasNoInstance' /\ OneCreate'
  BY DEF OneActive, ActiveHasInstance, UnusedHasNoInstance, OneCreate
<1>3. RefersToRow' /\ PlacedUnlessProvisioning' /\ FailedDeleteIsOver'
  BY DEF RefersToRow, PlacedUnlessProvisioning, FailedDeleteIsOver
<1>4. UnplacedHasOnlyCreate' /\ RoutedToOwner'
  BY DEF UnplacedHasOnlyCreate, RoutedToOwner
<1>5. NoStrandedInstance'
  BY DEF NoStrandedInstance, ActiveOn
<1>6. SnapshotSettled' /\ RestoreHasSnapshot' /\ RestorePointReady' /\ HeldOnlyWhileActive'
  BY DEF SnapshotSettled, RestoreHasSnapshot, RestorePointReady, HeldOnlyWhileActive
<1>7. QED
  BY <1>1, <1>2, <1>3, <1>4, <1>5, <1>6

LEMMA AgainKeepsIInv ==
    ASSUME IInv, TypeOK', NEW o \in OperationIds, NEW outcome \in Outcomes, FinishAgain(o, outcome)
    PROVE  IInv'
<1> USE DEF IInv, Active, ActiveStates, Outcomes
<1> DEFINE i == operations[o].instance
<1>1. CASE instances' = instances
  BY <1>1, StutterKeepsIInv DEF FinishAgain, tables
<1>2. CASE operations[o].kind = "create" /\ i # NoInstance
  <2>1. /\ i \in InstanceIds
        /\ \A j \in InstanceIds \ {i} : instances'[j] = instances[j]
        /\ instances'[i].cluster = instances[i].cluster
        /\ \/ instances'[i].state = instances[i].state
           \/ instances'[i].state \in {"ready", "failed"}
        /\ operations' = operations /\ instance_snapshots' = instance_snapshots
        /\ capacity_reservations' = capacity_reservations
        /\ operations[o].cluster # NoCluster
    BY <1>2 DEF FinishAgain, Owned, CreateSettles, TypeOK, OperationRow, InstanceRow
  <2>2. /\ instances[i].state \notin {"none", "gone"}
        /\ instances[i].cluster # NoCluster
    BY <1>2, <2>1 DEF RefersToRow, RoutedToOwner
  <2>3. \A q \in OperationIds : operations[q].instance \in InstanceIds \cup {NoInstance}
    BY DEF TypeOK, OperationRow
  <2>4. OneActive' /\ ActiveHasInstance' /\ UnusedHasNoInstance' /\ OneCreate'
    BY <2>1 DEF OneActive, ActiveHasInstance, UnusedHasNoInstance, OneCreate
  <2>5. RefersToRow' /\ PlacedUnlessProvisioning' /\ FailedDeleteIsOver'
    BY <2>1, <2>2, <2>3 DEF RefersToRow, PlacedUnlessProvisioning, FailedDeleteIsOver,
                            ActiveHasInstance
  <2>6. UnplacedHasOnlyCreate' /\ RoutedToOwner'
    BY <2>1, <2>2, <2>3 DEF UnplacedHasOnlyCreate, RoutedToOwner
  <2>7. NoStrandedInstance'
    BY <2>1 DEF NoStrandedInstance, ActiveOn, BusyStates
  <2>8. SnapshotSettled' /\ RestoreHasSnapshot' /\ RestorePointReady' /\ HeldOnlyWhileActive'
    BY <2>1 DEF SnapshotSettled, RestoreHasSnapshot, RestorePointReady, HeldOnlyWhileActive
  <2>9. QED
    BY <2>4, <2>5, <2>6, <2>7, <2>8
<1>3. QED
  BY <1>1, <1>2 DEF FinishAgain

LEMMA StepKeepsIInv ==
    ASSUME IInv, NEW o \in OperationIds, Request(o) \/ WorkerCall(o)
    PROVE  IInv'
<1>1. TypeOK'
  BY TypeRequest, TypeWorkerCall DEF IInv
<1>2. CASE Request(o)
  BY <1>2, RequestKeepsIInv
<1>3. CASE \E c \in ClusterIds : place_next_pending_operation(o, c)
  BY <1>1, <1>3, PlaceKeepsIInv
<1>4. CASE Active(o) /\ (worker_start_stage(o) \/ worker_hold_capacity(o))
  BY <1>1, <1>4, StageKeepsIInv
<1>5. CASE \E outcome \in Outcomes, observed \in BOOLEAN :
                worker_finish_operation(o, outcome, observed)
  BY <1>1, <1>5, FinishKeepsIInv
<1>6. CASE \E outcome \in Outcomes : FinishAgain(o, outcome)
  BY <1>1, <1>6, AgainKeepsIInv
<1>7. QED
  BY <1>2, <1>3, <1>4, <1>5, <1>6 DEF WorkerCall

LEMMA InitIInv == Init => IInv
<1> SUFFICES ASSUME Init PROVE IInv
  OBVIOUS
<1>1. /\ \A o \in OperationIds : /\ operations[o] = NoOperationRow
                                 /\ operations[o].state = "none"
                                 /\ operations[o].instance = NoInstance
      /\ \A i \in InstanceIds : instances[i].state = "none"
      /\ \A o \in OperationIds : instance_snapshots[o] = "none" /\ capacity_reservations[o] = "none"
  BY DEF Init, NoOperationRow, NoInstanceRow
<1>2. \A o \in OperationIds : ~Active(o)
  BY <1>1 DEF Active, ActiveStates
<1>3. TypeOK
  BY TypeInit
<1>4. OneActive /\ ActiveHasInstance /\ UnusedHasNoInstance /\ OneCreate
  BY <1>1, <1>2 DEF OneActive, ActiveHasInstance, UnusedHasNoInstance, OneCreate
<1>5. RefersToRow /\ PlacedUnlessProvisioning /\ FailedDeleteIsOver
  BY <1>1, <1>2 DEF RefersToRow, PlacedUnlessProvisioning, FailedDeleteIsOver
<1>6. UnplacedHasOnlyCreate /\ RoutedToOwner
  BY <1>1 DEF UnplacedHasOnlyCreate, RoutedToOwner
<1>7. NoStrandedInstance
  BY <1>1 DEF NoStrandedInstance, BusyStates
<1>8. SnapshotSettled /\ RestoreHasSnapshot /\ RestorePointReady /\ HeldOnlyWhileActive
  BY <1>1, <1>2 DEF SnapshotSettled, RestoreHasSnapshot, RestorePointReady, HeldOnlyWhileActive
<1>9. QED
  BY <1>3, <1>4, <1>5, <1>6, <1>7, <1>8 DEF IInv

LEMMA Invariance == Spec => []IInv
<1>1. IInv /\ [Next]_tables => IInv'
  BY StepKeepsIInv, StutterKeepsIInv DEF Next
<1>2. QED
  BY <1>1, InitIInv, PTL DEF Spec

-----------------------------------------------------------------------------
(* The theorems.                                                           *)

\* No instance is ever left busy with nothing to settle it, however the
\* requests, worker calls and repeated finishes interleave.
THEOREM NeverStranded == Spec => []NoStrandedInstance
<1>1. IInv => NoStrandedInstance
  BY DEF IInv
<1>2. QED
  BY <1>1, Invariance, PTL

\* A snapshot row is in creation exactly while its operation is active.
THEOREM SnapshotsSettle == Spec => []SnapshotSettled
<1>1. IInv => SnapshotSettled
  BY DEF IInv
<1>2. QED
  BY <1>1, Invariance, PTL

\* A restore always has a finished recovery point of its own instance.
THEOREM RestoresHaveAPoint == Spec => []RestorePointReady
<1>1. IInv => RestorePointReady
  BY DEF IInv
<1>2. QED
  BY <1>1, Invariance, PTL

\* No hold outlives its operation.
THEOREM HoldsAreReleased == Spec => []HeldOnlyWhileActive
<1>1. IInv => HeldOnlyWhileActive
  BY DEF IInv
<1>2. QED
  BY <1>1, Invariance, PTL

\* Every operation is on its instance's cluster.
THEOREM OperationsAreRouted == Spec => []RoutedToOwner
<1>1. IInv => RoutedToOwner
  BY DEF IInv
<1>2. QED
  BY <1>1, Invariance, PTL

LEMMA DeletionStep ==
    ASSUME IInv, NEW o \in OperationIds, Request(o) \/ WorkerCall(o), NEW i \in InstanceIds,
           instances[i].state \in {"deleting", "delete_failed", "gone"}
    PROVE  instances'[i].state \in {"deleting", "delete_failed", "gone"}
<1> DEFINE end == {"deleting", "delete_failed", "gone"}
<1>1. CASE Request(o)
  <2>1. ASSUME NEW j \in InstanceIds, NEW kind \in Kinds \ {"create"}, NEW admitted \in SUBSET Deletable,
               NEW plan, NEW snapshot, NEW staged,
               admitted = Recoverable \/ kind = "delete",
               InsertOperation(o, j, kind, admitted, plan, snapshot, staged)
        PROVE  instances'[i].state \in end
    <3>1. CASE j = i
      BY <2>1, <3>1, BusyStateIs DEF InsertOperation, Recoverable, IInv, TypeOK, InstanceRow
    <3>2. CASE j # i
      BY <2>1, <3>2 DEF InsertOperation, IInv, TypeOK
    <3>3. QED
      BY <3>1, <3>2
  <2>2. /\ Recoverable \in SUBSET Deletable /\ Deletable \in SUBSET Deletable
        /\ {"snapshot", "resize", "restore_replace", "delete"} \subseteq Kinds \ {"create"}
    BY DEF Recoverable, Deletable, Kinds
  <2>3. ASSUME NEW j \in InstanceIds, NEW p, request_instance_create(o, j, p)
        PROVE  instances'[i].state \in end
    BY <2>3 DEF request_instance_create, IInv, TypeOK
  <2>4. QED
    BY <1>1, <2>1, <2>2, <2>3 DEF Request, request_instance_snapshot, request_instance_resize,
       request_instance_restore_replace, request_instance_deletion, request_instance_delete
<1>2. CASE Active(o) /\ (worker_start_stage(o) \/ worker_hold_capacity(o))
  BY <1>2 DEF worker_start_stage, worker_hold_capacity
<1>2a. CASE \E c \in ClusterIds : place_next_pending_operation(o, c)
  <2>1. \A j \in InstanceIds : instances'[j].state = instances[j].state
    BY <1>2a DEF place_next_pending_operation, IInv, TypeOK, InstanceRow
  <2>2. QED
    BY <2>1
<1>3. CASE \E outcome \in Outcomes, observed \in BOOLEAN :
                worker_finish_operation(o, outcome, observed)
  <2> PICK outcome \in Outcomes, observed \in BOOLEAN : worker_finish_operation(o, outcome, observed)
    BY <1>3
  <2> DEFINE j == operations[o].instance
  <2>1. /\ Active(o)
        /\ \A k \in InstanceIds \ {j} : instances'[k] = instances[k]
        /\ instances'[j].state = SettledState(operations[o].kind, j, outcome)
        /\ operations[o].kind \in Kinds
    BY FinishEffect DEF IInv, TypeOK, OperationRow
  <2>2. CASE j = i
    <3>1. instances[i].state \notin {"delete_failed", "gone"}
      BY <2>1, <2>2, NullsAreNotIds DEF IInv, FailedDeleteIsOver, RefersToRow, NullsAreNotIds
    <3>2. operations[o].kind = "delete"
      BY <2>1, <2>2, <3>1, BusyStateIs DEF IInv, NoStrandedInstance, ActiveOn, OneActive,
                                           BusyStates, Kinds
    <3>3. QED
      BY <2>1, <2>2, <3>2, SettledStateIs
  <2>3. CASE j # i
    BY <2>1, <2>3
  <2>4. QED
    BY <2>2, <2>3
<1>4. CASE \E outcome \in Outcomes : FinishAgain(o, outcome)
  BY <1>4, NullsAreNotIds DEF FinishAgain, CreateSettles, IInv, TypeOK, OperationRow, InstanceRow,
                              RefersToRow, NullsAreNotIds
<1>5. QED
  BY <1>1, <1>2, <1>2a, <1>3, <1>4 DEF WorkerCall

\* An accepted delete is final: no later request, finish or repeated finish
\* makes the instance usable again.
THEOREM DeletionSticks == Spec => DeletionIsSticky
<1>1. IInv /\ [Next]_tables =>
        [\A i \in InstanceIds : instances[i].state \in {"deleting", "delete_failed", "gone"} =>
            instances'[i].state \in {"deleting", "delete_failed", "gone"}]_tables
  BY DeletionStep DEF Next
<1>2. QED
  BY <1>1, Invariance, PTL DEF Spec, DeletionIsSticky

LEMMA TerminalStep ==
    ASSUME TypeOK, NEW o \in OperationIds, Request(o) \/ WorkerCall(o), NEW q \in OperationIds,
           operations[q].state \in Outcomes
    PROVE  operations'[q].state = operations[q].state
<1>1. CASE Request(o)
  <2>1. operations[o].state = "none" /\ \A p \in OperationIds \ {o} : operations'[p] = operations[p]
    BY <1>1 DEF Request, request_instance_create, request_instance_snapshot,
       request_instance_resize, request_instance_restore_replace, request_instance_deletion,
       request_instance_delete, InsertOperation, TypeOK
  <2>2. QED
    BY <2>1 DEF Outcomes
<1>2. CASE \E outcome \in Outcomes, observed \in BOOLEAN :
                worker_finish_operation(o, outcome, observed)
  <2>1. Active(o) /\ \A p \in OperationIds \ {o} : operations'[p].state = operations[p].state
    BY <1>2, FinishEffect
  <2>2. QED
    BY <2>1 DEF Active, ActiveStates, Outcomes
<1>3. CASE \/ \E c \in ClusterIds : place_next_pending_operation(o, c)
           \/ Active(o) /\ (worker_start_stage(o) \/ worker_hold_capacity(o))
           \/ \E outcome \in Outcomes : FinishAgain(o, outcome)
  BY <1>3 DEF place_next_pending_operation, worker_start_stage, worker_hold_capacity, FinishAgain,
              Active, ActiveStates, Outcomes, TypeOK, OperationRow
<1>4. QED
  BY <1>1, <1>2, <1>3 DEF WorkerCall

\* A terminal operation keeps its outcome whatever call comes after.
THEOREM TerminalStays == Spec => TerminalIsFinal
<1>1. TypeOK /\ [Next]_tables =>
        [\A o \in OperationIds : operations[o].state \in Outcomes =>
            operations'[o].state = operations[o].state]_tables
  BY TerminalStep DEF Next
<1>2. QED
  BY <1>1, TypeCorrect, PTL DEF Spec, TerminalIsFinal

=============================================================================
