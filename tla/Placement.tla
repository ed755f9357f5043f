----------------------------- MODULE Placement -----------------------------
(***************************************************************************)
(* How memory is given to instances: place_next_pending_operation, which   *)
(* runs under an advisory lock, the check and the hold of a resize, which  *)
(* the worker makes in two stages, and can_provision_instance, by which    *)
(* the console refuses a create beforehand.                                *)
(*                                                                         *)
(* Placement sees a node as the last published snapshot shows it, plus the *)
(* holds that have neither been released nor expired.                      *)
(*                                                                         *)
(* Simplifications, and why each is sound:                                 *)
(*  - Memory only.  vCPUs and storage are limited in the same statement    *)
(*    against the same snapshot and holds; they can only refuse more, and  *)
(*    a resize does not look at them.                                      *)
(*  - A guest uses the memory it was given, and nothing else does, so      *)
(*    greatest(used, committed) is the memory of the guests.               *)
(*  - The score only decides which eligible node is taken: any may be.     *)
(*  - The gates other than the age of the observations are one flag per    *)
(*    node, `open`: those an operator sets for the node, its cluster, the  *)
(*    template and the storage, and those that come with a snapshot.       *)
(*  - Time is counted in minutes, as the age of a snapshot and as what is  *)
(*    left of a hold.  A snapshot too old for anyone has one age, AgeLimit.*)
(***************************************************************************)
EXTENDS Integers, Sequences, FiniteSets, Functions

CONSTANTS
    OperationIds,     \* a create names the instance it makes
    Nodes,            \* the nodes of every cluster placement may use
    PlanMemory,       \* memory_gb of the plans
    TotalMemory,      \* total memory of a node, in GB
    MemoryReserve,    \* memory_reserve_ratio of a node, in percent
    FreshnessWindow,  \* of placement, `interval '60 seconds'`
    AdmissionWindow,  \* of can_provision_instance, `interval '5 minutes'`
    HoldWindow,       \* `interval '15 minutes'`
    NoNode, NoOperation

\* The per-node override exists to admit more than the default of 30 percent.
ASSUME ReservesOnlyLower == MemoryReserve \in [Nodes -> 0 .. 30]

ASSUME CapacitiesAreNumbers ==
    /\ TotalMemory \in [Nodes -> Nat]
    /\ PlanMemory \subseteq Nat \ {0}

ASSUME WindowsAreOrdered ==
    /\ {FreshnessWindow, AdmissionWindow, HoldWindow} \subseteq Nat
    /\ FreshnessWindow <= AdmissionWindow

ASSUME OperationsAreFinite == IsFiniteSet(OperationIds)

ASSUME NullsAreNotIds == NoNode \notin Nodes /\ NoOperation \notin OperationIds

VARIABLES
    operations,             \* public.operations, with the stage it is at
    queue,                  \* unplaced creates in the order of (started_at, id)
    capacity_reservations,  \* by operation
    plan_memory,            \* memory_gb of each instance's catalog_plan_id
    guests,                 \* memory of each instance's guest, 0 without one
    infrastructure_nodes    \* the published snapshot of each node

vars ==
    <<operations, queue, plan_memory, capacity_reservations, guests, infrastructure_nodes>>

-----------------------------------------------------------------------------
OperationStages ==
    {"none", "unplaced", "preflight", "capacity_reservation", "proxmox_api_call", "ready",
     "succeeded", "failed"}

AgeLimit == AdmissionWindow + 1

TypeOK ==
    /\ operations \in [OperationIds ->
            [kind: {"create", "resize"}, stage: OperationStages, memory: PlanMemory \cup {0},
             instance: OperationIds \cup {NoOperation}, node: Nodes \cup {NoNode}]]
    /\ queue \in Seq(OperationIds)
    /\ capacity_reservations \in [OperationIds ->
            [state: {"none", "held", "released"}, left: 0 .. HoldWindow]]
    /\ {plan_memory, guests} \subseteq [OperationIds -> PlanMemory \cup {0}]
    /\ infrastructure_nodes \in [Nodes ->
            [memory: [OperationIds -> PlanMemory \cup {0}], age: 0 .. AgeLimit, open: BOOLEAN]]

NoOperationRow ==
    [kind |-> "create", stage |-> "none", memory |-> 0, instance |-> NoOperation, node |-> NoNode]

Init ==
    /\ operations = [o \in OperationIds |-> NoOperationRow]
    /\ queue = <<>>
    /\ capacity_reservations = [o \in OperationIds |-> [state |-> "none", left |-> 0]]
    /\ plan_memory = [o \in OperationIds |-> 0]
    /\ guests = [o \in OperationIds |-> 0]
    /\ infrastructure_nodes =
            [n \in Nodes |-> [memory |-> [o \in OperationIds |-> 0], age |-> 0, open |-> TRUE]]

-----------------------------------------------------------------------------
(* What placement and admission compute.                                   *)

InstancesOn(n) == {i \in OperationIds : operations[i].kind = "create" /\ operations[i].node = n}

\* state = 'held' and expires_at > now
LiveHold(o) == capacity_reservations[o].state = "held" /\ capacity_reservations[o].left > 0

HoldsOn(n) == {o \in OperationIds : operations[o].node = n /\ LiveHold(o)}

HeldMemory_none(n) == 0

\* memory_gb of each operation.
Memory == [o \in OperationIds |-> operations[o].memory]

HeldMemory(n) == SumFunctionOnSet(Memory, HoldsOn(n))

CommittedMemory(n) == SumFunction(infrastructure_nodes[n].memory)

PostFreeMemory(n, memory) ==
    TotalMemory[n] - CommittedMemory(n) - HeldMemory(n) - memory

\* A candidate without a rejection reason.
Eligible(n, memory) ==
    /\ infrastructure_nodes[n].open
    /\ infrastructure_nodes[n].age <= FreshnessWindow
    /\ PostFreeMemory(n, memory) * 10 >= TotalMemory[n] * 3

MemoryFits_strict(n, memory) ==
    PostFreeMemory(n, memory) * 100 > TotalMemory[n] * MemoryReserve[n]

\* The memory condition of can_provision_instance.
MemoryFits(n, memory) ==
    PostFreeMemory(n, memory) * 100 >= TotalMemory[n] * MemoryReserve[n]

\* can_provision_instance for one candidate: the console offers the create if
\* some node is admitted (and, for the whole site, if the store of cloud-init
\* snippets has room).
Admitted(n, memory) ==
    /\ infrastructure_nodes[n].open
    /\ infrastructure_nodes[n].age <= AdmissionWindow
    /\ MemoryFits(n, memory)

-----------------------------------------------------------------------------
(* Requests.  The check of the console is over by then, and binds nobody.  *)

Active(o) == operations[o].stage \notin {"none", "succeeded", "failed"}
Usable(i) == operations[i].kind = "create" /\ operations[i].stage = "succeeded" /\ guests[i] > 0
Busy(i) == \E o \in OperationIds : operations[o].instance = i /\ Active(o)

RequestCreate(o, memory) ==
    /\ operations[o].stage = "none"
    /\ operations' = [operations EXCEPT ![o] =
            [NoOperationRow EXCEPT !.stage = "unplaced", !.memory = memory, !.instance = o]]
    /\ queue' = Append(queue, o)
    /\ plan_memory' = [plan_memory EXCEPT ![o] = memory]
    /\ UNCHANGED <<capacity_reservations, guests, infrastructure_nodes>>

\* executionTarget: work on an instance that was placed goes to the node its
\* create was placed on.
ExecutionTarget(i) == operations[i].node

RequestResize(o, i, memory) ==
    /\ operations[o].stage = "none"
    /\ Usable(i) /\ ~Busy(i)
    /\ memory > plan_memory[i]
    /\ operations' = [operations EXCEPT ![o] =
            [kind |-> "resize", stage |-> "preflight", memory |-> memory, instance |-> i,
             node |-> ExecutionTarget(i)]]
    /\ UNCHANGED <<queue, plan_memory, capacity_reservations, guests, infrastructure_nodes>>

\* The deletion pass destroys the guest of an instance that is not busy, also
\* of one whose create failed.
DeleteInstance(i) ==
    /\ guests[i] > 0 /\ ~Busy(i)
    /\ guests' = [guests EXCEPT ![i] = 0]
    /\ UNCHANGED <<operations, queue, plan_memory, capacity_reservations, infrastructure_nodes>>

-----------------------------------------------------------------------------
(* Placement and the stages.                                               *)

Hold_committed(o) == capacity_reservations' =
    [capacity_reservations EXCEPT ![o] = [state |-> "committed", left |-> HoldWindow]]

Hold(o) == capacity_reservations' =
    [capacity_reservations EXCEPT ![o] = [state |-> "held", left |-> HoldWindow]]

\* The oldest create is placed on an eligible node; without one it waits, and
\* every younger create with it.
place_next_pending_operation(n) ==
    /\ queue # <<>>
    /\ Eligible(n, operations[Head(queue)].memory)
    /\ operations' = [operations EXCEPT ![Head(queue)].node = n,
                                        ![Head(queue)].stage = "proxmox_api_call"]
    /\ queue' = Tail(queue)
    /\ Hold(Head(queue))
    /\ UNCHANGED <<plan_memory, guests, infrastructure_nodes>>

\* What Proxmox reports as available at this moment.
AvailableMemory(n) == TotalMemory[n] - SumFunctionOnSet(guests, InstancesOn(n))

GoOn(o, stage) == operations' = [operations EXCEPT ![o].stage = stage]

\* By what a resize grows the plan.
Growth(o) == operations[o].memory - plan_memory[operations[o].instance]

\* preflight of a resize: what is available, less the live holds, has to
\* cover the growth.
Preflight(o) ==
    /\ operations[o].stage = "preflight"
    /\ AvailableMemory(operations[o].node) - HeldMemory(operations[o].node)
            >= Growth(o)
    /\ GoOn(o, "capacity_reservation")
    /\ UNCHANGED <<queue, plan_memory, capacity_reservations, guests, infrastructure_nodes>>

\* capacity_reservation of a resize: the whole of the new plan is held.
HoldForResize(o) ==
    /\ operations[o].stage = "capacity_reservation"
    /\ Hold(o)
    /\ GoOn(o, "proxmox_api_call")
    /\ UNCHANGED <<queue, plan_memory, guests, infrastructure_nodes>>

\* The guest is cloned and started, or grown and restarted.
CallProxmox(o) ==
    /\ operations[o].stage = "proxmox_api_call"
    /\ guests' = [guests EXCEPT ![operations[o].instance] = operations[o].memory]
    /\ GoOn(o, "ready")
    /\ UNCHANGED <<queue, plan_memory, capacity_reservations, infrastructure_nodes>>

\* worker_finish_operation releases what is held.
Release(o) == capacity_reservations' = [capacity_reservations EXCEPT
    ![o] = IF @.state = "held" THEN [state |-> "released", left |-> 0] ELSE @]

Finish(o) ==
    /\ operations[o].stage = "ready"
    /\ GoOn(o, "succeeded")
    /\ Release(o)
    /\ plan_memory' = [plan_memory EXCEPT ![operations[o].instance] = operations[o].memory]
    /\ UNCHANGED <<queue, guests, infrastructure_nodes>>

\* A stage throws: a create's guest is rolled back, unless that fails too; a
\* resize keeps what it has.
Fail(o) ==
    /\ Active(o) /\ operations[o].stage # "unplaced"
    /\ GoOn(o, "failed")
    /\ \/ operations[o].kind = "create" /\ guests' = [guests EXCEPT ![o] = 0]
       \/ UNCHANGED guests
    /\ Release(o)
    /\ UNCHANGED <<queue, plan_memory, infrastructure_nodes>>

-----------------------------------------------------------------------------
(* Observation and time.                                                   *)

\* collectClusterSnapshot: the memory given to the running guests of node n.
ObservedMemory(n) == [o \in OperationIds |-> IF o \in InstancesOn(n) THEN guests[o] ELSE 0]

\* The snapshot of node n as of now, with what was measured of its health: the
\* backup job is asked of Proxmox and an access token of Tailscale each time, a
\* question without an answer counts as unhealthy, and the gate closes or opens
\* with the next one that has an answer.
PublishSnapshot(n) ==
    /\ \E open \in BOOLEAN : infrastructure_nodes' = [infrastructure_nodes EXCEPT
            ![n].memory = ObservedMemory(n), ![n].age = 0, ![n].open = open]
    /\ UNCHANGED <<operations, queue, plan_memory, capacity_reservations, guests>>

\* An operator opens or closes a gate.
ChangeGate(n) ==
    /\ infrastructure_nodes' = [infrastructure_nodes EXCEPT ![n].open = ~@]
    /\ UNCHANGED <<operations, queue, plan_memory, capacity_reservations, guests>>

Tick ==
    /\ infrastructure_nodes' = [n \in Nodes |-> [infrastructure_nodes[n] EXCEPT
            !.age = IF @ < AgeLimit THEN @ + 1 ELSE @]]
    /\ capacity_reservations' = [o \in OperationIds |-> [capacity_reservations[o] EXCEPT
            !.left = IF @ > 0 THEN @ - 1 ELSE 0]]
    /\ UNCHANGED <<operations, queue, plan_memory, guests>>

-----------------------------------------------------------------------------
Request ==
    \/ \E o \in OperationIds, m \in PlanMemory : RequestCreate(o, m)
    \/ \E o, i \in OperationIds, m \in PlanMemory : RequestResize(o, i, m)
    \/ \E i \in OperationIds : DeleteInstance(i)

Stage(o) ==
    Preflight(o) \/ HoldForResize(o) \/ CallProxmox(o) \/ Finish(o) \/ Fail(o)

Next ==
    \/ Request
    \/ \E n \in Nodes : place_next_pending_operation(n) \/ PublishSnapshot(n) \/ ChangeGate(n)
    \/ \E o \in OperationIds : Stage(o)
    \/ Tick

Spec == Init /\ [][Next]_vars

-----------------------------------------------------------------------------
(* Properties.                                                             *)

\* What the live holds on behalf of instance i promise it.
HeldFor(i) ==
    SumFunctionOnSet(Memory, {o \in OperationIds : operations[o].instance = i /\ LiveHold(o)})

Larger(a, b) == IF a >= b THEN a ELSE b

\* What node n owes: to each instance the larger of what it has and what is
\* promised to it.
PromisedMemory(n) ==
    SumFunctionOnSet([i \in OperationIds |-> Larger(guests[i], HeldFor(i))], InstancesOn(n))

\* Guests that neither the published snapshot nor a live hold accounts for:
\* started since the snapshot, their hold released or expired since.
Overlooked(n) ==
    {i \in InstancesOn(n) : guests[i] > infrastructure_nodes[n].memory[i] + HeldFor(i)}

\* Placement keeps 30 percent of the memory of a node free, counting what runs
\* and what is promised, however the snapshot, the holds and other placements
\* interleave, unless a guest is overlooked at that moment.
PlacementFits ==
    [][\A n \in Nodes : place_next_pending_operation(n) /\ Overlooked(n) = {} =>
            PromisedMemory(n)' * 10 <= TotalMemory[n] * 7]_vars

\* The console never refuses for want of memory, or for old observations, a
\* create that placement would place (the two functions had drifted apart once,
\* docs/dev-log/2026-08-27-guild-b-pod-admission-and-clone-acls.md).
PlaceableIsAdmitted ==
    \A n \in Nodes, m \in PlanMemory : Eligible(n, m) => Admitted(n, m)

=============================================================================
