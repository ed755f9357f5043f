------------------------------ MODULE Tailnet ------------------------------
(***************************************************************************)
(* Who may reach which instance over the tailnet.  access_grants says who  *)
(* should; the tailnet's policy says who can.  It is one document without  *)
(* a version, and three kinds of process read it, change their copy and    *)
(* post it back: the worker that holds the housekeeping role, for all      *)
(* grants (reconcileTailnetAccess) and again for device tags               *)
(* (ensureTailscaleTagOwners), and each request of the enroll-device       *)
(* function, for one member and instance.  The function also makes the     *)
(* auth key a member joins with, and the link by which the key is fetched. *)
(*                                                                         *)
(* Simplifications, and why each is sound:                                 *)
(*  - A route stands for a network grant and its SSH rule, which every     *)
(*    writer adds and removes together.                                    *)
(*  - Tenant tags and the tenants' own grants are left out: only the       *)
(*    housekeeper adds them, nothing removes them, and no route depends on *)
(*    them.  So is tailscale_acl_state, which nobody decides on.           *)
(*  - Every instance is ready, has joined the tailnet, and is in the       *)
(*    organization and project of every member.                            *)
(*  - Links do not expire; their 90 days are those of the keys.            *)
(*  - A member's own devices are left out: enroll-device deletes the one   *)
(*    recorded, and syncMemberDeviceEnrollment, which would record it,     *)
(*    looks for a hostname that no enrolment script gives a device.        *)
(*                                                                         *)
(* Faults names what may go wrong in a configuration:                      *)
(*   request_fails  a call of an enroll-device request fails, or the       *)
(*                  function is killed: what it has done so far stays      *)
(*   not_revoked    Tailscale does not revoke a key, which is only logged  *)
(*   worker_fails   the same for a worker's run                            *)
(***************************************************************************)
EXTENDS Integers, FiniteSets, Functions

CONSTANTS
    MemberIds,
    Admins,        \* members whose role is Owner or Admin
    InstanceIds,
    WorkerIds,
    RequestIds,    \* requests of enroll-device in flight at once
    MaxKeys,       \* auth keys made in a behaviour
    MaxEvents,     \* changes in the console, failures and moves of the role in one
    Faults,
    NoPair

ASSUME AdminsAreMembers == Admins \subseteq MemberIds
ASSUME BoundsAreNumbers == MaxKeys \in Nat \ {0} /\ MaxEvents \in Nat
ASSUME NoPairIsNone == NoPair \notin MemberIds \X InstanceIds
ASSUME MembersAreNoStates == MemberIds \cap {"unmade", "revoked"} = {}
ASSUME SomeInstance == InstanceIds # {}

VARIABLES
    memberships,    \* the members who are still there
    instances,
    access_grants,  \* pairs of a member and an instance
    policy,         \* what Tailscale enforces: routes and tagOwners
    housekeeper,    \* worker_identities.tailnet_housekeeping
    keys,           \* auth key -> whose it is while it is live
    links,          \* instance_enrollment_links: pair -> tailscale_key_id
    request,        \* requests of enroll-device
    worker,         \* runs of the workers
    strays,         \* live keys that no link will name any more: history
    events          \* how many of MaxEvents have happened

vars == <<memberships, instances, access_grants, policy, housekeeper, keys, links, strays,
          request, worker, events>>

-----------------------------------------------------------------------------
Pairs == MemberIds \X InstanceIds
KeyIds == 1 .. MaxKeys
NoKey == 0

\* The states of a key: not made yet, live for its member, revoked.
Unmade == "unmade"
Revoked == "revoked"

Policies == [routes: SUBSET Pairs, tagOwners: SUBSET (MemberIds \cup InstanceIds)]
EmptyPolicy == [routes |-> {}, tagOwners |-> {}]

NoRequest == [pc |-> "none", pair |-> NoPair, read |-> EmptyPolicy, old |-> NoKey,
              key |-> NoKey, revoke |-> {}]

Idle == [pc |-> "idle", desired |-> EmptyPolicy, read |-> EmptyPolicy, devices |-> {}]

TypeOK ==
    /\ memberships \subseteq MemberIds
    /\ instances \subseteq InstanceIds
    /\ access_grants \subseteq Pairs
    /\ policy \in Policies
    /\ housekeeper \in WorkerIds
    /\ keys \in [KeyIds -> MemberIds \cup {Unmade, Revoked}]
    /\ links \in [Pairs -> KeyIds \cup {NoKey}]
    /\ request \in [RequestIds ->
            [pc: {"none", "tag", "post_tag", "access", "post_access", "key", "link", "retire",
                  "revoke", "delete_links", "delete_member", "refused"},
             pair: Pairs \cup {NoPair}, read: Policies, old: KeyIds \cup {NoKey},
             key: KeyIds \cup {NoKey}, revoke: SUBSET KeyIds]]
    /\ worker \in [WorkerIds ->
            [pc: {"idle", "desired", "post", "devices", "tags", "post_tags", "failed"},
             desired: Policies, read: Policies, devices: SUBSET InstanceIds]]
    /\ strays \subseteq KeyIds
    /\ events \in 0 .. MaxEvents

\* A grant is desired while its member and its instance exist.
desiredMemberInstanceGrants == access_grants \cap (memberships \X instances)

\* What reconcileScopedAccessPolicy makes of the policy it is given.
DesiredState == [routes |-> desiredMemberInstanceGrants, tagOwners |-> memberships \cup instances]

\* Before the first run of a housekeeper or after one, with at most one link.
Init ==
    /\ memberships = MemberIds
    /\ instances = InstanceIds
    /\ access_grants \in SUBSET Pairs
    /\ policy \in {EmptyPolicy, DesiredState}
    /\ housekeeper \in WorkerIds
    /\ \E linked \in Pairs \cup {NoPair} :
          /\ links = [p \in Pairs |-> IF p = linked THEN 1 ELSE NoKey]
          /\ keys = [k \in KeyIds |-> IF k = 1 /\ linked # NoPair THEN linked[1] ELSE Unmade]
    /\ request = [r \in RequestIds |-> NoRequest]
    /\ worker = [w \in WorkerIds |-> Idle]
    /\ strays = {}
    /\ events = 0

LiveKeys == {k \in KeyIds : keys[k] \in MemberIds}
Requested(r, pc) == request[r].pc = pc
Member(r) == request[r].pair[1]
Instance(r) == request[r].pair[2]
\* The copy of the policy is kept no longer than it takes to post it.
Goes(r, pc) == request' = [request EXCEPT ![r].pc = pc, ![r].read = EmptyPolicy]
Ends(r) == request' = [request EXCEPT ![r] = NoRequest]
Worker(w, pc) == worker[w].pc = pc

tables == <<memberships, instances, access_grants>>
credentials == <<keys, links, strays>>

-----------------------------------------------------------------------------
(* The console.                                                            *)

addAccessGrant(m, i) ==
    /\ m \in memberships /\ i \in instances
    /\ <<m, i>> \notin access_grants
    /\ access_grants' = access_grants \cup {<<m, i>>}
    /\ UNCHANGED <<memberships, instances, policy, housekeeper, credentials, request, worker>>

removeAccessGrant(m, i) ==
    /\ <<m, i>> \in access_grants
    /\ access_grants' = access_grants \ {<<m, i>>}
    /\ UNCHANGED <<memberships, instances, policy, housekeeper, credentials, request, worker>>

\* Its links go with it, while their keys stay live.  Grants stay: resource_id
\* references nothing.
InstanceDeleted(i) ==
    /\ i \in instances
    /\ instances' = instances \ {i}
    /\ links' = [p \in Pairs |-> IF p[2] = i THEN NoKey ELSE links[p]]
    /\ strays' = strays \cup ({links[p] : p \in MemberIds \X {i}} \cap LiveKeys)
    /\ UNCHANGED <<memberships, access_grants, policy, housekeeper, keys, request, worker>>

-----------------------------------------------------------------------------
(* enroll-device, POST: a link for one member and one instance.            *)

\* An Owner or Admin is given the grant they lack.  A link that is still valid
\* is handed out again, unless the member asks for a new one.
RequestEnrollment(r, m, i) ==
    /\ Requested(r, "none")
    /\ m \in memberships /\ i \in instances
    /\ <<m, i>> \in access_grants \/ m \in Admins
    /\ access_grants' = access_grants \cup {<<m, i>>}
    /\ \/ links[<<m, i>>] # NoKey
          /\ UNCHANGED request
       \/ \E k \in KeyIds : keys[k] = Unmade
          /\ request' = [request EXCEPT ![r] =
                [NoRequest EXCEPT !.pc = "tag", !.pair = <<m, i>>, !.old = links[<<m, i>>]]]
    /\ UNCHANGED <<memberships, instances, policy, housekeeper, credentials, worker>>

Copies(r, pc) == request' = [request EXCEPT ![r].pc = pc, ![r].read = policy]

ReadPolicy(r) ==
    /\ \/ /\ Requested(r, "tag")
          /\ IF Member(r) \in policy.tagOwners THEN Goes(r, "access") ELSE Copies(r, "post_tag")
       \/ /\ Requested(r, "access")
          /\ IF request[r].pair \in policy.routes /\ Instance(r) \in policy.tagOwners
             THEN Goes(r, "key") ELSE Copies(r, "post_access")
    /\ UNCHANGED <<tables, policy, housekeeper, credentials, worker>>

ensureMemberTag(r) ==
    /\ Requested(r, "post_tag")
    /\ policy' = [request[r].read EXCEPT !.tagOwners = @ \cup {Member(r)}]
    /\ Goes(r, "access")
    /\ UNCHANGED <<tables, housekeeper, credentials, worker>>

ensureImmediateInstanceAccess(r) ==
    /\ Requested(r, "post_access")
    /\ policy' = [request[r].read EXCEPT !.tagOwners = @ \cup {Instance(r)},
                                         !.routes = @ \cup {request[r].pair}]
    /\ Goes(r, "key")
    /\ UNCHANGED <<tables, housekeeper, credentials, worker>>

\* Tailscale refuses a key for a tag that has no owner.
CreateKey(r) ==
    /\ Requested(r, "key")
    /\ \/ /\ Member(r) \in policy.tagOwners
          /\ \E k \in KeyIds :
                /\ keys[k] = Unmade /\ \A j \in 1 .. k - 1 : keys[j] # Unmade
                /\ keys' = [keys EXCEPT ![k] = Member(r)]
                /\ request' = [request EXCEPT ![r].pc = "link", ![r].key = k]
       \/ /\ \/ Member(r) \notin policy.tagOwners
             \/ \A k \in KeyIds : keys[k] # Unmade
          /\ Ends(r)
          /\ UNCHANGED keys
    /\ UNCHANGED <<tables, policy, housekeeper, links, strays, worker>>

\* A key another request put into the link meanwhile is named by it no more.
UpsertLink(r) ==
    /\ Requested(r, "link")
    /\ LET p == request[r].pair IN
       \/ /\ p[1] \in memberships /\ p[2] \in instances
          /\ links' = [links EXCEPT ![p] = request[r].key]
          /\ strays' = strays \cup ({links[p]} \ {NoKey, request[r].old})
          /\ IF request[r].old = NoKey THEN Ends(r) ELSE Goes(r, "retire")
       \/ /\ p[1] \notin memberships \/ p[2] \notin instances
          /\ strays' = strays \cup {request[r].key}
          /\ Ends(r)
          /\ UNCHANGED links
    /\ UNCHANGED <<tables, policy, housekeeper, keys, worker>>

\* Best effort, one key after the other; a key that is not revoked is only logged.
revokeAuthKey(ks) ==
    \E gone \in SUBSET ks :
        /\ gone = ks \/ "not_revoked" \in Faults
        /\ keys' = [k \in KeyIds |-> IF k \in gone THEN Revoked ELSE keys[k]]
        /\ strays' = (strays \cup (ks \cap LiveKeys)) \ gone

RetireKey_none(r) ==
    /\ Requested(r, "retire")
    /\ Ends(r)
    /\ UNCHANGED <<tables, policy, housekeeper, keys, strays, links, worker>>

RetireKey_current(r) ==
    /\ Requested(r, "retire")
    /\ revokeAuthKey({links[request[r].pair]})
    /\ Ends(r)
    /\ UNCHANGED <<tables, policy, housekeeper, links, worker>>

RetireKey(r) ==
    /\ Requested(r, "retire")
    /\ revokeAuthKey({request[r].old})
    /\ Ends(r)
    /\ UNCHANGED <<tables, policy, housekeeper, links, worker>>

-----------------------------------------------------------------------------
(* enroll-device, DELETE, and the rest of removeMember.                    *)

removeMember_unfiltered(r, m) ==
    /\ Requested(r, "none")
    /\ m \in memberships
    /\ request' = [request EXCEPT ![r] =
            [NoRequest EXCEPT !.pc = "revoke", !.pair = CHOOSE p \in Pairs : p[1] = m,
                              !.revoke = {links[p] : p \in {m} \X InstanceIds}]]
    /\ UNCHANGED <<tables, policy, housekeeper, credentials, worker>>

\* The keys are listed now and revoked later; links without a key are passed over.
removeMember(r, m) ==
    /\ Requested(r, "none")
    /\ m \in memberships
    /\ request' = [request EXCEPT ![r] =
            [NoRequest EXCEPT !.pc = "revoke", !.pair = CHOOSE p \in Pairs : p[1] = m,
                              !.revoke = {links[p] : p \in {m} \X InstanceIds} \ {NoKey}]]
    /\ UNCHANGED <<tables, policy, housekeeper, credentials, worker>>

RevokeKeys(r) ==
    /\ Requested(r, "revoke")
    /\ revokeAuthKey(request[r].revoke)
    /\ Goes(r, "delete_links")
    /\ UNCHANGED <<tables, policy, housekeeper, links, worker>>

LinksGone(m) == [p \in Pairs |-> IF p[1] = m THEN NoKey ELSE links[p]]
KeysLinked(m) == {links[p] : p \in {m} \X InstanceIds} \cap LiveKeys

DeleteLinks(r) ==
    /\ Requested(r, "delete_links")
    /\ links' = LinksGone(Member(r))
    /\ strays' = strays \cup KeysLinked(Member(r))
    /\ Goes(r, "delete_member")
    /\ UNCHANGED <<tables, policy, housekeeper, keys, worker>>

\* The server action goes on to this whatever became of the function.  The
\* membership's grants and links are deleted with it.
DeleteMembership(r) ==
    /\ Requested(r, "delete_member")
    /\ memberships' = memberships \ {Member(r)}
    /\ access_grants' = {p \in access_grants : p[1] # Member(r)}
    /\ links' = LinksGone(Member(r))
    /\ strays' = strays \cup KeysLinked(Member(r))
    /\ Ends(r)
    /\ UNCHANGED <<instances, policy, housekeeper, keys, worker>>

\* A call fails: a request to enrol is refused, a removal goes on.
RequestFails(r) ==
    /\ "request_fails" \in Faults
    /\ \/ request[r].pc \in {"revoke", "delete_links"}
          /\ Goes(r, "delete_member")
          /\ UNCHANGED strays
       \/ request[r].pc \in {"tag", "post_tag", "access", "post_access", "key", "link", "retire"}
          /\ request' = [request EXCEPT ![r] = [NoRequest EXCEPT !.pc = "refused"]]
          /\ strays' = strays \cup (LiveKeys \cap
                CASE Requested(r, "link") -> {request[r].key}
                  [] Requested(r, "retire") -> {request[r].old}
                  [] OTHER -> {})
    /\ UNCHANGED <<tables, policy, housekeeper, keys, links, worker>>

Refused(r) ==
    /\ Requested(r, "refused")
    /\ Ends(r)
    /\ UNCHANGED <<tables, policy, housekeeper, credentials, worker>>

-----------------------------------------------------------------------------
(* A worker's run: the policy, then the tags of the instances' devices.    *)

WorkerAt(w, pc) == worker' = [worker EXCEPT ![w] = [Idle EXCEPT !.pc = pc]]

reconcileScopedAccessPolicy_adds(read, desired) ==
    [routes |-> read.routes \cup desired.routes,
     tagOwners |-> read.tagOwners \cup desired.tagOwners]

reconcileScopedAccessPolicy(read, desired) ==
    [routes |-> desired.routes, tagOwners |-> read.tagOwners \cup desired.tagOwners]

\* The role is asked for once; the desired state comes with a check of it.
getTailnetDesiredState(w) ==
    /\ Worker(w, "idle")
    /\ w = housekeeper
    /\ worker' = [worker EXCEPT ![w].pc = "desired", ![w].desired = DesiredState]
    /\ UNCHANGED <<tables, policy, housekeeper, credentials, request>>

GetPolicy(w) ==
    /\ Worker(w, "desired")
    /\ worker' = [worker EXCEPT ![w].read = policy, ![w].pc = "post"]
    /\ UNCHANGED <<tables, policy, housekeeper, credentials, request>>

\* Nothing is posted when nothing of what was read would change.
reconcileTailnetAccess(w) ==
    /\ Worker(w, "post")
    /\ LET next == reconcileScopedAccessPolicy(worker[w].read, worker[w].desired)
       IN  policy' = IF next = worker[w].read THEN policy ELSE next
    /\ WorkerAt(w, "devices")
    /\ UNCHANGED <<tables, housekeeper, credentials, request>>

\* The desired state again, also when the policy could not be brought up to
\* date: a worker that has lost the role is refused.
syncInstanceDeviceTags(w) ==
    /\ Worker(w, "devices") \/ Worker(w, "failed")
    /\ worker' = [worker EXCEPT ![w] =
            IF w = housekeeper /\ instances # {}
            THEN [Idle EXCEPT !.pc = "tags", !.devices = instances] ELSE Idle]
    /\ UNCHANGED <<tables, policy, housekeeper, credentials, request>>

\* One instance after the other; the policy is posted if its tag has no owner.
NextDevice(w, i) ==
    LET rest == worker[w].devices \ {i} IN
    worker' = [worker EXCEPT ![w] =
        IF rest = {} THEN Idle ELSE [Idle EXCEPT !.pc = "tags", !.devices = rest]]

ReadTagOwners(w) ==
    /\ Worker(w, "tags")
    /\ \E i \in worker[w].devices :
            IF i \in policy.tagOwners THEN NextDevice(w, i)
            ELSE worker' = [worker EXCEPT ![w].read = policy, ![w].pc = "post_tags"]
    /\ UNCHANGED <<tables, policy, housekeeper, credentials, request>>

ensureTailscaleTagOwners(w) ==
    /\ Worker(w, "post_tags")
    /\ \E i \in worker[w].devices \ worker[w].read.tagOwners :
            /\ policy' = [worker[w].read EXCEPT !.tagOwners = @ \cup {i}]
            /\ NextDevice(w, i)
    /\ UNCHANGED <<tables, housekeeper, credentials, request>>

WorkerFails(w) ==
    /\ "worker_fails" \in Faults
    /\ worker[w].pc \in {"desired", "post", "tags", "post_tags"}
    /\ WorkerAt(w, "failed")
    /\ UNCHANGED <<tables, policy, housekeeper, credentials, request>>

RunEnds(w) ==
    /\ Worker(w, "failed")
    /\ WorkerAt(w, "idle")
    /\ UNCHANGED <<tables, policy, housekeeper, credentials, request>>

\* An operator moves the role; a run that holds it already goes on.
MoveHousekeeping(w) ==
    /\ housekeeper # w
    /\ housekeeper' = w
    /\ UNCHANGED <<tables, policy, credentials, request, worker>>

-----------------------------------------------------------------------------
Changes ==
    \/ \E m \in MemberIds, i \in InstanceIds : addAccessGrant(m, i) \/ removeAccessGrant(m, i)
    \/ \E i \in InstanceIds : InstanceDeleted(i)
    \/ \E r \in RequestIds, m \in MemberIds :
            removeMember(r, m) \/ \E i \in InstanceIds : RequestEnrollment(r, m, i)

Enrolls(r) ==
    \/ ReadPolicy(r) \/ ensureMemberTag(r) \/ ensureImmediateInstanceAccess(r)
    \/ CreateKey(r) \/ UpsertLink(r) \/ RetireKey(r) \/ Refused(r)

Removes(r) == RevokeKeys(r) \/ DeleteLinks(r) \/ DeleteMembership(r)

Housekeeps(w) ==
    \/ getTailnetDesiredState(w) \/ GetPolicy(w) \/ reconcileTailnetAccess(w)
    \/ syncInstanceDeviceTags(w) \/ ReadTagOwners(w) \/ ensureTailscaleTagOwners(w)
    \/ RunEnds(w)

Disturbs ==
    \/ \E r \in RequestIds : RequestFails(r)
    \/ \E w \in WorkerIds : WorkerFails(w) \/ MoveHousekeeping(w)

Acts ==
    /\ \/ \E r \in RequestIds : Enrolls(r) \/ Removes(r)
       \/ \E w \in WorkerIds : Housekeeps(w)
    /\ UNCHANGED events

Event ==
    /\ events < MaxEvents
    /\ events' = events + 1
    /\ Changes \/ Disturbs

Next == Acts \/ Event

\* Timers start every worker again and again, and a request runs to its end.
Fairness ==
    /\ \A r \in RequestIds : WF_vars((Enrolls(r) \/ Removes(r)) /\ UNCHANGED events)
    /\ \A w \in WorkerIds : WF_vars(Housekeeps(w) /\ UNCHANGED events)

Spec == Init /\ [][Next]_vars /\ Fairness

-----------------------------------------------------------------------------
(* Properties.                                                             *)

\* A link never hands out a key that has been revoked, however requests for
\* the same link overlap, except while its member is being removed: the old
\* key goes only after the new one is stored (enroll-device/index.ts:338-345).
LinkHasLiveKey ==
    \A p \in Pairs :
        links[p] # NoKey =>
            \/ keys[links[p]] = p[1]
            \/ \E r \in RequestIds :
                    request[r].pc \in {"delete_links", "delete_member"} /\ Member(r) = p[1]

Linked == {links[p] : p \in Pairs}
InHand == UNION {{request[r].key, request[r].old} \cup request[r].revoke : r \in RequestIds}

\* A key with which a device can join is named by a link, or is in the hands of
\* a request, or went astray in one of the ways that strays records: it was
\* overtaken by another request for its link, its instance was deleted, or a
\* call failed.  Neither a regenerated link nor the removal of a member may
\* leave another one behind (enroll-device/index.ts:200-206, 342-348).
KeysAccounted == LiveKeys \subseteq Linked \cup InHand \cup strays

\* Once grants, members and instances stop changing, the policy becomes what
\* they say and stays so, although each of its writers may have undone what
\* the others wrote: routes lost to a stale copy come back, and revoked routes
\* that a stale copy brought back go again (enroll-device/index.ts:124-127).
PolicySettles ==
    <>[](/\ policy.routes = desiredMemberInstanceGrants
         /\ memberships \cup instances \subseteq policy.tagOwners)

=============================================================================
