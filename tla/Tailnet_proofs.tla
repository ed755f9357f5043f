--------------------------- MODULE Tailnet_proofs ---------------------------
(***************************************************************************)
(* Proofs about the tailnet's auth keys: which link hands out which key,   *)
(* and who answers for each that is live.  For any members, instances,     *)
(* workers and number of requests under way.                               *)
(***************************************************************************)
EXTENDS Tailnet, TLAPS

-----------------------------------------------------------------------------
(* The inductive invariant.                                                *)

RequestPcs ==
    {"none", "tag", "post_tag", "access", "post_access", "key", "link", "retire", "revoke",
     "delete_links", "delete_member", "refused"}

RequestType ==
    [pc: RequestPcs, pair: Pairs \cup {NoPair}, read: Policies, old: KeyIds \cup {NoKey},
     key: KeyIds \cup {NoKey}, revoke: SUBSET KeyIds]

WorkerType ==
    [pc: {"idle", "desired", "post", "devices", "tags", "post_tags", "failed"},
     desired: Policies, read: Policies, devices: SUBSET InstanceIds]

\* A request that is under way is about a pair.
PairKnown ==
    \A r \in RequestIds : request[r].pc \notin {"none", "refused"} => request[r].pair \in Pairs

\* No two links name the same key, and what a link names was made for its member.
LinksDistinct ==
    \A p, q \in Pairs : links[p] # NoKey /\ links[p] = links[q] => p = q

LinksMade ==
    \A p \in Pairs : links[p] # NoKey => keys[links[p]] \in {p[1], Revoked}

\* The key a request is about to store is live, and no one else knows of it.
FreshKey ==
    \A r \in RequestIds : request[r].pc = "link" =>
        /\ request[r].key \in KeyIds /\ keys[request[r].key] = Member(r)
        /\ \A p \in Pairs : links[p] # request[r].key
        /\ \A s \in RequestIds :
              /\ request[s].old # request[r].key
              /\ request[r].key \notin request[s].revoke
              /\ s # r /\ request[s].pc = "link" => request[s].key # request[r].key

\* What a request holds to replace or to revoke was made, ...
HeldIsMade ==
    \A r \in RequestIds :
        /\ request[r].old # NoKey => keys[request[r].old] # Unmade
        /\ \A k \in request[r].revoke : keys[k] # Unmade

\* ... is named by no link but its own, and by none once it was replaced.
OldIsItsOwn ==
    \A r \in RequestIds : \A p \in Pairs :
        request[r].old # NoKey /\ links[p] = request[r].old =>
            p = request[r].pair /\ request[r].pc # "retire"

RevokesItsOwn ==
    \A r \in RequestIds : \A p \in Pairs :
        links[p] \in request[r].revoke => p[1] = Member(r)

\* A live key is named by a link or has gone astray, or a request is about to
\* store it or to revoke it.
Holds(r, k) ==
    \/ request[r].pc = "link" /\ request[r].key = k
    \/ request[r].pc = "retire" /\ request[r].old = k

Accounted ==
    \A k \in LiveKeys : k \in Linked \cup strays \/ \E r \in RequestIds : Holds(r, k)

KeyInv ==
    /\ PairKnown /\ LinksDistinct /\ LinksMade /\ FreshKey /\ HeldIsMade /\ OldIsItsOwn
    /\ RevokesItsOwn /\ LinkHasLiveKey /\ Accounted

IInv == TypeOK /\ KeyInv

-----------------------------------------------------------------------------
(* The operators.                                                          *)

\* What TypeOK says of the requests and the workers, by the names used here.
LEMMA Typed ==
    TypeOK <=>
        /\ memberships \subseteq MemberIds /\ instances \subseteq InstanceIds
        /\ access_grants \subseteq Pairs /\ policy \in Policies /\ housekeeper \in WorkerIds
        /\ keys \in [KeyIds -> MemberIds \cup {Unmade, Revoked}]
        /\ links \in [Pairs -> KeyIds \cup {NoKey}]
        /\ request \in [RequestIds -> RequestType]
        /\ worker \in [WorkerIds -> WorkerType]
        /\ strays \subseteq KeyIds /\ events \in 0 .. MaxEvents
BY DEF TypeOK, RequestType, RequestPcs, WorkerType

LEMMA StaysTyped ==
    ASSUME memberships' \subseteq MemberIds, instances' \subseteq InstanceIds,
           access_grants' \subseteq Pairs, policy' \in Policies, housekeeper' \in WorkerIds,
           keys' \in [KeyIds -> MemberIds \cup {Unmade, Revoked}],
           links' \in [Pairs -> KeyIds \cup {NoKey}],
           request' \in [RequestIds -> RequestType],
           worker' \in [WorkerIds -> WorkerType],
           strays' \subseteq KeyIds, events' \in 0 .. MaxEvents
    PROVE  TypeOK'
BY DEF TypeOK, RequestType, RequestPcs, WorkerType

LEMMA NoKeyIsNone == NoKey \notin KeyIds /\ Unmade \notin MemberIds /\ Revoked \notin MemberIds
                     /\ Unmade # Revoked
BY MembersAreNoStates DEF NoKey, KeyIds, Unmade, Revoked

LEMMA EmptyTyped ==
    /\ EmptyPolicy \in Policies
    /\ NoRequest \in RequestType /\ NoRequest.pc = "none" /\ NoRequest.old = NoKey
    /\ NoRequest.key = NoKey /\ NoRequest.revoke = {}
    /\ Idle \in WorkerType
<1>1. EmptyPolicy \in Policies
  BY DEF EmptyPolicy, Policies
<1> QED
  BY <1>1 DEF NoRequest, Idle, RequestType, RequestPcs, WorkerType

LEMMA DesiredTyped == TypeOK => DesiredState \in Policies
BY DEF TypeOK, DesiredState, Policies, desiredMemberInstanceGrants, Pairs

\* A request that goes on keeps what it holds, and the others are left alone.
LEMMA Going ==
    ASSUME TypeOK, NEW r \in RequestIds, NEW pc \in RequestPcs, NEW read \in Policies,
           request' = [request EXCEPT ![r].pc = pc, ![r].read = read]
    PROVE  /\ request' \in [RequestIds -> RequestType]
           /\ request'[r].pc = pc /\ request'[r].pair = request[r].pair
           /\ request'[r].old = request[r].old /\ request'[r].key = request[r].key
           /\ request'[r].revoke = request[r].revoke
           /\ \A s \in RequestIds \ {r} : request'[s] = request[s]
<1>1. request \in [RequestIds -> RequestType]
  BY Typed
<1>2. request'[r] = [request[r] EXCEPT !.pc = pc, !.read = read]
  BY <1>1
<1>3. request[r] \in RequestType
  BY <1>1
<1>4. /\ request'[r] \in RequestType
      /\ request'[r].pc = pc /\ request'[r].pair = request[r].pair
      /\ request'[r].old = request[r].old /\ request'[r].key = request[r].key
      /\ request'[r].revoke = request[r].revoke
  <2> DEFINE q == request[r]
  <2>1. q \in RequestType /\ request'[r] = [q EXCEPT !.pc = pc, !.read = read]
    BY <1>2, <1>3
  <2> HIDE DEF q
  <2>2. /\ [q EXCEPT !.pc = pc, !.read = read] \in RequestType
        /\ [q EXCEPT !.pc = pc, !.read = read].pc = pc
        /\ [q EXCEPT !.pc = pc, !.read = read].pair = q.pair
        /\ [q EXCEPT !.pc = pc, !.read = read].old = q.old
        /\ [q EXCEPT !.pc = pc, !.read = read].key = q.key
        /\ [q EXCEPT !.pc = pc, !.read = read].revoke = q.revoke
    BY <2>1 DEF RequestType
  <2> QED
    BY <2>1, <2>2 DEF q
<1>5. \A s \in RequestIds \ {r} : request'[s] = request[s]
  BY <1>1
<1>6. DOMAIN request' = RequestIds /\ request' = [s \in RequestIds |-> request'[s]]
  BY <1>1
<1>7. \A s \in RequestIds : request'[s] \in RequestType
  BY <1>1, <1>4, <1>5
<1> QED
  BY <1>4, <1>5, <1>6, <1>7

\* A request that is replaced by another record.
LEMMA Replaced ==
    ASSUME TypeOK, NEW r \in RequestIds, NEW new \in RequestType,
           request' = [request EXCEPT ![r] = new]
    PROVE  /\ request' \in [RequestIds -> RequestType]
           /\ request'[r] = new
           /\ \A s \in RequestIds \ {r} : request'[s] = request[s]
BY Typed

LEMMA WorkerReplaced ==
    ASSUME TypeOK, NEW w \in WorkerIds, NEW new \in WorkerType,
           worker' = [worker EXCEPT ![w] = new]
    PROVE  worker' \in [WorkerIds -> WorkerType]
BY Typed

\* A step that leaves keys, links, strays and requests alone changes nothing
\* that is claimed of them.
LEMMA KeysStay ==
    ASSUME KeyInv, UNCHANGED <<keys, links, strays, request>>
    PROVE  KeyInv'
BY DEF KeyInv, PairKnown, LinksDistinct, LinksMade, FreshKey, HeldIsMade, OldIsItsOwn,
       RevokesItsOwn, LinkHasLiveKey, Accounted, Holds, LiveKeys, Linked, Member

\* A step of a request that takes no key.
Quiet(r) ==
    /\ request'[r].pc \notin {"link", "retire"}
    /\ \/ /\ request'[r].pc \in {"none", "refused"}
          /\ request'[r].old = NoKey /\ request'[r].revoke = {}
       \/ /\ request'[r].pair = request[r].pair /\ request[r].pair \in Pairs
          /\ request'[r].old = request[r].old /\ request'[r].revoke = request[r].revoke

Removing(q) == q.pc \in {"delete_links", "delete_member"}

\* Such a step may drop links, and let go of a key, if the live ones are recorded
\* as strays.  The one that ends a removal must have dropped its member's links.
LEMMA QuietStep ==
    ASSUME TypeOK, KeyInv, NEW D \in SUBSET Pairs, NEW R \in SUBSET RequestIds,
           UNCHANGED keys,
           \A p \in Pairs : links'[p] = IF p \in D THEN NoKey ELSE links[p],
           strays \subseteq strays', \A p \in D : links[p] \in LiveKeys => links[p] \in strays',
           \A r \in R : Quiet(r), \A r \in R : \A k \in LiveKeys : Holds(r, k) => k \in strays',
           \A r \in R : Removing(request[r]) =>
               Removing(request'[r]) \/ \A p \in Pairs : p[1] = Member(r) => p \in D,
           \A r \in RequestIds \ R : request'[r] = request[r]
    PROVE  KeyInv'
<1> USE DEF KeyInv, Member, Quiet
<1>1. PairKnown'
  BY DEF PairKnown
<1>2. LinksDistinct' /\ LinksMade'
  BY NoKeyIsNone DEF LinksDistinct, LinksMade
<1>a. \A s \in RequestIds :
          /\ request'[s].old # NoKey =>
                request'[s].old = request[s].old /\ request'[s].pair = request[s].pair
          /\ request'[s].revoke \subseteq request[s].revoke
          /\ request'[s].pc \in {"link", "retire"} => request'[s] = request[s]
  OBVIOUS
<1>b. \A p \in Pairs : links'[p] \in {NoKey, links[p]}
  OBVIOUS
<1>3. FreshKey'
  <2> SUFFICES ASSUME NEW r \in RequestIds, request'[r].pc = "link"
               PROVE  /\ request[r].key \in KeyIds /\ keys[request[r].key] = request'[r].pair[1]
                      /\ \A p \in Pairs : links'[p] # request[r].key
                      /\ \A s \in RequestIds :
                            /\ request'[s].old # request[r].key
                            /\ request[r].key \notin request'[s].revoke
                            /\ s # r /\ request'[s].pc = "link" =>
                                  request'[s].key # request[r].key
    BY <1>a DEF FreshKey
  <2>1. request'[r] = request[r] /\ request[r].key # NoKey
    BY <1>a, NoKeyIsNone DEF FreshKey
  <2> QED
    BY <2>1, <1>a, <1>b DEF FreshKey
<1>4. HeldIsMade'
  BY DEF HeldIsMade
<1>5. OldIsItsOwn'
  <2> SUFFICES ASSUME NEW r \in RequestIds, NEW p \in Pairs,
                      request'[r].old # NoKey, links'[p] = request'[r].old
               PROVE  p = request'[r].pair /\ request'[r].pc # "retire"
    BY DEF OldIsItsOwn
  <2>1. request'[r].old = request[r].old /\ request'[r].pair = request[r].pair
    BY <1>a
  <2>2. links'[p] = links[p]
    BY <1>b
  <2>3. p = request[r].pair /\ request[r].pc # "retire"
    BY <2>1, <2>2 DEF OldIsItsOwn
  <2> QED
    BY <2>1, <2>3, <1>a
<1>6. RevokesItsOwn'
  <2>1. \A r \in RequestIds : request'[r].revoke \subseteq KeyIds
    BY Typed DEF RequestType
  <2> QED
    BY <2>1, NoKeyIsNone DEF RevokesItsOwn
<1>7. LinkHasLiveKey'
  <2> SUFFICES ASSUME NEW p \in Pairs, links'[p] # NoKey
               PROVE  \/ keys[links[p]] = p[1]
                      \/ \E r \in RequestIds : Removing(request'[r]) /\ request'[r].pair[1] = p[1]
    BY DEF LinkHasLiveKey, Removing
  <2>1. CASE keys[links[p]] = p[1]
    BY <2>1
  <2>2. CASE \E r \in RequestIds : Removing(request[r]) /\ Member(r) = p[1]
    <3>1. PICK r \in RequestIds : Removing(request[r]) /\ Member(r) = p[1]
      BY <2>2
    <3>2. Removing(request'[r]) /\ request'[r].pair = request[r].pair
      BY <3>1 DEF Removing
    <3> QED
      BY <3>1, <3>2
  <2> QED
    BY <2>1, <2>2 DEF LinkHasLiveKey, Removing
<1>8. Accounted'
  <2> SUFFICES ASSUME NEW k \in KeyIds, keys[k] \in MemberIds
               PROVE  k \in Linked' \cup strays' \/ \E r \in RequestIds : Holds(r, k)'
    BY DEF Accounted, LiveKeys
  <2>1. CASE k \in Linked
    BY <2>1 DEF Linked, LiveKeys
  <2>2. CASE \E r \in RequestIds : Holds(r, k)
    BY <2>2 DEF Holds, LiveKeys
  <2> QED
    BY <2>1, <2>2 DEF Accounted, LiveKeys
<1> QED
  BY <1>1, <1>2, <1>3, <1>4, <1>5, <1>6, <1>7, <1>8

-----------------------------------------------------------------------------
(* Types.                                                                  *)

LEMMA TypeInit == Init => TypeOK
<1> SUFFICES ASSUME Init PROVE TypeOK
  OBVIOUS
<1>1. 1 \in KeyIds /\ 0 \in 0 .. MaxEvents
  BY BoundsAreNumbers DEF KeyIds
<1>2. PICK linked \in Pairs \cup {NoPair} :
          /\ links = [p \in Pairs |-> IF p = linked THEN 1 ELSE NoKey]
          /\ keys = [k \in KeyIds |-> IF k = 1 /\ linked # NoPair THEN linked[1] ELSE Unmade]
  BY DEF Init
<1>3. linked # NoPair => linked[1] \in MemberIds
  BY DEF Pairs
<1>4. policy \in Policies
  <2>1. DesiredState \in Policies
    BY DEF Init, DesiredState, Policies, desiredMemberInstanceGrants, Pairs
  <2> QED
    BY <2>1, EmptyTyped DEF Init
<1> QED
  BY <1>1, <1>2, <1>3, <1>4, EmptyTyped, Typed DEF Init

\* The console, the worker and the operator.
LEMMA WorkerSteps ==
    ASSUME TypeOK, NEW w \in WorkerIds, Housekeeps(w) \/ WorkerFails(w) \/ MoveHousekeeping(w),
           events' \in 0 .. MaxEvents
    PROVE  TypeOK' /\ UNCHANGED <<keys, links, strays, request>>
<1> USE DEF tables, credentials
<1>t. worker[w] \in WorkerType /\ policy \in Policies
  BY Typed
<1>i. ASSUME NEW pc \in {"idle", "desired", "post", "devices", "tags", "post_tags", "failed"},
             WorkerAt(w, pc)
      PROVE  worker' \in [WorkerIds -> WorkerType]
  <2>1. [Idle EXCEPT !.pc = pc] \in WorkerType
    BY EmptyTyped DEF WorkerType
  <2> QED
    BY <1>i, <2>1, WorkerReplaced DEF WorkerAt
<1>n. ASSUME NEW i, NextDevice(w, i)
      PROVE  worker' \in [WorkerIds -> WorkerType]
  <2>1. [Idle EXCEPT !.pc = "tags", !.devices = worker[w].devices \ {i}] \in WorkerType
    BY <1>t, EmptyTyped DEF WorkerType
  <2> QED
    BY <1>n, <2>1, EmptyTyped, WorkerReplaced DEF NextDevice
<1>1. CASE getTailnetDesiredState(w)
  <2>1. [worker[w] EXCEPT !.pc = "desired", !.desired = DesiredState] \in WorkerType
    BY <1>t, DesiredTyped DEF WorkerType
  <2>2. worker' = [worker EXCEPT
            ![w] = [worker[w] EXCEPT !.pc = "desired", !.desired = DesiredState]]
    BY <1>1, Typed DEF getTailnetDesiredState
  <2>3. worker' \in [WorkerIds -> WorkerType]
    BY <2>1, <2>2, WorkerReplaced
  <2> QED
    BY <1>1, <2>3, Typed, StaysTyped DEF getTailnetDesiredState
<1>2. CASE GetPolicy(w)
  <2>1. [worker[w] EXCEPT !.read = policy, !.pc = "post"] \in WorkerType
    BY <1>t DEF WorkerType
  <2>2. worker' = [worker EXCEPT ![w] = [worker[w] EXCEPT !.read = policy, !.pc = "post"]]
    BY <1>2, Typed DEF GetPolicy
  <2>3. worker' \in [WorkerIds -> WorkerType]
    BY <2>1, <2>2, WorkerReplaced
  <2> QED
    BY <1>2, <2>3, Typed, StaysTyped DEF GetPolicy
<1>3. CASE reconcileTailnetAccess(w)
  <2>1. reconcileScopedAccessPolicy(worker[w].read, worker[w].desired) \in Policies
    BY <1>t DEF reconcileScopedAccessPolicy, WorkerType, Policies
  <2>2. policy' \in Policies
    BY <1>3, <1>t, <2>1 DEF reconcileTailnetAccess
  <2>3. worker' \in [WorkerIds -> WorkerType]
    BY <1>3, <1>i DEF reconcileTailnetAccess
  <2> QED
    BY <1>3, <2>2, <2>3, Typed, StaysTyped DEF reconcileTailnetAccess
<1>4. CASE syncInstanceDeviceTags(w)
  <2>1. [Idle EXCEPT !.pc = "tags", !.devices = instances] \in WorkerType
    BY EmptyTyped, Typed DEF WorkerType
  <2>2. worker' \in [WorkerIds -> WorkerType]
    BY <1>4, <2>1, EmptyTyped, WorkerReplaced DEF syncInstanceDeviceTags
  <2> QED
    BY <1>4, <2>2, Typed, StaysTyped DEF syncInstanceDeviceTags
<1>5. CASE ReadTagOwners(w)
  <2>1. PICK i \in worker[w].devices :
            IF i \in policy.tagOwners THEN NextDevice(w, i)
            ELSE worker' = [worker EXCEPT ![w].read = policy, ![w].pc = "post_tags"]
    BY <1>5 DEF ReadTagOwners
  <2>2. [worker[w] EXCEPT !.read = policy, !.pc = "post_tags"] \in WorkerType
    BY <1>t DEF WorkerType
  <2>3. CASE worker' = [worker EXCEPT ![w].read = policy, ![w].pc = "post_tags"]
    <3>1. worker' = [worker EXCEPT ![w] = [worker[w] EXCEPT !.read = policy, !.pc = "post_tags"]]
      BY <2>3, Typed
    <3>2. worker' \in [WorkerIds -> WorkerType]
      BY <2>2, <3>1, WorkerReplaced
    <3> QED
      BY <1>5, <3>2, Typed, StaysTyped DEF ReadTagOwners
  <2>4. CASE NextDevice(w, i)
    BY <1>5, <2>4, <1>n, Typed, StaysTyped DEF ReadTagOwners
  <2> QED
    BY <2>1, <2>3, <2>4
<1>6. CASE ensureTailscaleTagOwners(w)
  <2>1. PICK i \in worker[w].devices \ worker[w].read.tagOwners :
            policy' = [worker[w].read EXCEPT !.tagOwners = @ \cup {i}] /\ NextDevice(w, i)
    BY <1>6 DEF ensureTailscaleTagOwners
  <2>2. policy' \in Policies
    BY <1>t, <2>1 DEF WorkerType, Policies
  <2>3. worker' \in [WorkerIds -> WorkerType]
    BY <2>1, <1>n
  <2> QED
    BY <1>6, <2>2, <2>3, Typed, StaysTyped DEF ensureTailscaleTagOwners
<1>7. CASE RunEnds(w) \/ WorkerFails(w)
  BY <1>7, <1>i, Typed, StaysTyped DEF RunEnds, WorkerFails
<1>8. CASE MoveHousekeeping(w)
  BY <1>8, Typed, StaysTyped DEF MoveHousekeeping
<1> QED
  BY <1>1, <1>2, <1>3, <1>4, <1>5, <1>6, <1>7, <1>8 DEF Housekeeps

LEMMA GrantSteps ==
    ASSUME TypeOK, NEW m \in MemberIds, NEW i \in InstanceIds,
           addAccessGrant(m, i) \/ removeAccessGrant(m, i), events' \in 0 .. MaxEvents
    PROVE  TypeOK' /\ UNCHANGED <<keys, links, strays, request>>
BY Typed, StaysTyped DEF addAccessGrant, removeAccessGrant, credentials, Pairs

-----------------------------------------------------------------------------
(* Keys.                                                                   *)

\* A request begins: it notes the key its link names, or those to revoke.
LEMMA StartStep ==
    ASSUME TypeOK, KeyInv, UNCHANGED <<keys, links, strays>>,
           NEW r \in RequestIds, NEW q \in RequestType, request' = [request EXCEPT ![r] = q],
           request[r].pc = "none", q.pc \in {"tag", "revoke"}, q.pair \in Pairs,
           q.old \in {NoKey, links[q.pair]},
           \A k \in q.revoke : k # NoKey /\ \E p \in Pairs : p[1] = q.pair[1] /\ k = links[p]
    PROVE  KeyInv'
<1> USE DEF KeyInv, Member
<1>1. request'[r] = q /\ \A s \in RequestIds \ {r} : request'[s] = request[s]
  BY Replaced
<1>2. PairKnown' /\ LinksDistinct' /\ LinksMade'
  BY <1>1 DEF PairKnown, LinksDistinct, LinksMade
<1>3. \A p \in Pairs : links[p] # NoKey => keys[links[p]] # Unmade
  BY NoKeyIsNone DEF LinksMade, Pairs
<1>4. FreshKey'
  <2>1. \A s \in RequestIds : request'[s].pc = "link" => s # r /\ request'[s] = request[s]
    BY <1>1
  <2>2. \A s \in RequestIds : request[s].pc = "link" =>
            q.old # request[s].key /\ request[s].key \notin q.revoke
    BY NoKeyIsNone DEF FreshKey
  <2> QED
    BY <1>1, <2>1, <2>2 DEF FreshKey
<1>5. HeldIsMade'
  BY <1>1, <1>3 DEF HeldIsMade
<1>6. OldIsItsOwn'
  BY <1>1 DEF OldIsItsOwn, LinksDistinct
<1>7. RevokesItsOwn'
  BY <1>1 DEF RevokesItsOwn, LinksDistinct
<1>8. LinkHasLiveKey'
  BY <1>1 DEF LinkHasLiveKey
<1>9. Accounted'
  BY <1>1 DEF Accounted, Holds, LiveKeys, Linked
<1> QED
  BY <1>2, <1>4, <1>5, <1>6, <1>7, <1>8, <1>9

\* A key is made: no one could have known of it.
LEMMA MadeStep ==
    ASSUME TypeOK, KeyInv, UNCHANGED <<links, strays>>,
           NEW r \in RequestIds, request[r].pc = "key", NEW k \in KeyIds, keys[k] = Unmade,
           keys' = [keys EXCEPT ![k] = Member(r)],
           request'[r].pc = "link", request'[r].key = k, request'[r].pair = request[r].pair,
           request'[r].old = request[r].old, request'[r].revoke = request[r].revoke,
           \A s \in RequestIds \ {r} : request'[s] = request[s]
    PROVE  KeyInv'
<1> USE DEF KeyInv, Member
<1>1. Member(r) \in MemberIds /\ request[r].pair \in Pairs
  BY DEF PairKnown, Pairs
<1>2. keys'[k] = Member(r) /\ \A j \in KeyIds \ {k} : keys'[j] = keys[j]
  BY Typed
<1>3. \A p \in Pairs : links[p] \in KeyIds \cup {NoKey} /\ links[p] # k
  BY Typed, NoKeyIsNone DEF LinksMade, Pairs
<1>4. \A s \in RequestIds :
          /\ request[s].old \in KeyIds \cup {NoKey} /\ request[s].old # k
          /\ request[s].revoke \subseteq KeyIds /\ k \notin request[s].revoke
          /\ request[s].pc = "link" => request[s].key # k /\ request[s].key \in KeyIds
  <2> SUFFICES ASSUME NEW s \in RequestIds
               PROVE  /\ request[s].old \in KeyIds \cup {NoKey} /\ request[s].old # k
                      /\ request[s].revoke \subseteq KeyIds /\ k \notin request[s].revoke
                      /\ request[s].pc = "link" => request[s].key # k /\ request[s].key \in KeyIds
    OBVIOUS
  <2>1. request[s].old \in KeyIds \cup {NoKey} /\ request[s].revoke \subseteq KeyIds
    BY Typed DEF RequestType
  <2>2. request[s].pc = "link" =>
            request[s].key \in KeyIds /\ keys[request[s].key] \in MemberIds
    BY DEF FreshKey, PairKnown, Pairs
  <2> QED
    BY <2>1, <2>2, NoKeyIsNone DEF HeldIsMade
<1>5. PairKnown' /\ LinksDistinct' /\ OldIsItsOwn' /\ RevokesItsOwn'
  BY <1>1 DEF PairKnown, LinksDistinct, OldIsItsOwn, RevokesItsOwn
<1>6. LinksMade'
  BY <1>2, <1>3 DEF LinksMade
<1>7. FreshKey'
  BY <1>2, <1>3, <1>4 DEF FreshKey
<1>8. HeldIsMade'
  BY <1>1, <1>2, <1>4, NoKeyIsNone DEF HeldIsMade
<1>9. LinkHasLiveKey'
  BY <1>2, <1>3 DEF LinkHasLiveKey
<1>10. Accounted'
  <2> SUFFICES ASSUME NEW j \in KeyIds, keys'[j] \in MemberIds
               PROVE  j \in Linked \cup strays \/ \E s \in RequestIds : Holds(s, j)'
    BY DEF Accounted, LiveKeys, Linked
  <2>1. CASE j = k
    BY <2>1 DEF Holds
  <2>2. CASE j # k
    BY <1>2, <2>2 DEF Accounted, LiveKeys, Holds
  <2> QED
    BY <2>1, <2>2
<1> QED
  BY <1>5, <1>6, <1>7, <1>8, <1>9, <1>10

\* A request stores its key and goes on to retire the one it replaces.
LEMMA StoredStep ==
    ASSUME TypeOK, KeyInv, UNCHANGED keys, NEW r \in RequestIds, request[r].pc = "link",
           links' = [links EXCEPT ![request[r].pair] = request[r].key],
           strays' = strays \cup ({links[request[r].pair]} \ {NoKey, request[r].old}),
           \/ request[r].old = NoKey /\ request'[r] = NoRequest
           \/ /\ request'[r].pc = "retire" /\ request'[r].pair = request[r].pair
              /\ request'[r].old = request[r].old /\ request'[r].revoke = request[r].revoke,
           \A s \in RequestIds \ {r} : request'[s] = request[s]
    PROVE  KeyInv'
<1> DEFINE p == request[r].pair
           k == request[r].key
<1> USE DEF KeyInv, Member
<1>1. p \in Pairs /\ k \in KeyIds /\ keys[k] = p[1] /\ k # NoKey
  BY NoKeyIsNone DEF PairKnown, FreshKey
<1>2. links'[p] = k /\ \A q \in Pairs \ {p} : links'[q] = links[q] /\ links[q] # k
  BY <1>1, Typed DEF FreshKey
<1>3. \A s \in RequestIds :
          /\ request[s].old # k /\ k \notin request[s].revoke
          /\ request'[s].old \in {NoKey, request[s].old}
          /\ request'[s].old # NoKey => request'[s].pair = request[s].pair
          /\ request'[s].revoke \subseteq request[s].revoke
          /\ request'[s].revoke # {} => request'[s].pair = request[s].pair
          /\ request'[s].pc = "link" => s # r /\ request[s].pc = "link" /\ request[s].key # k
                                         /\ request'[s] = request[s]
  BY <1>1, EmptyTyped DEF FreshKey
<1> HIDE DEF p, k
<1>4. PairKnown'
  BY <1>1, EmptyTyped DEF PairKnown, p
<1>5. LinksDistinct' /\ LinksMade'
  BY <1>1, <1>2 DEF LinksDistinct, LinksMade
<1>6. FreshKey'
  <2> SUFFICES ASSUME NEW s \in RequestIds, request'[s].pc = "link"
               PROVE  /\ request[s].key \in KeyIds /\ keys[request[s].key] = Member(s)
                      /\ \A q \in Pairs : links'[q] # request[s].key
                      /\ \A t \in RequestIds :
                            /\ request'[t].old # request[s].key
                            /\ request[s].key \notin request'[t].revoke
                            /\ t # s /\ request'[t].pc = "link" =>
                                  request'[t].key # request[s].key
    BY <1>3 DEF FreshKey
  <2>1. request[s].pc = "link" /\ request[s].key # k /\ request[s].key # NoKey
    BY <1>3, NoKeyIsNone DEF FreshKey
  <2> QED
    BY <2>1, <1>2, <1>3 DEF FreshKey
<1>7. HeldIsMade'
  BY <1>3 DEF HeldIsMade
<1>8. OldIsItsOwn'
  <2> SUFFICES ASSUME NEW s \in RequestIds, NEW q \in Pairs,
                      request'[s].old # NoKey, links'[q] = request'[s].old
               PROVE  q = request'[s].pair /\ request'[s].pc # "retire"
    BY DEF OldIsItsOwn
  <2>1. request'[s].old = request[s].old /\ request[s].old # k
    BY <1>3
  <2>2. q # p /\ links'[q] = links[q]
    BY <1>2, <2>1
  <2>3. q = request[s].pair /\ request[s].pc # "retire"
    BY <2>1, <2>2 DEF OldIsItsOwn
  <2>4. s # r
    BY <2>2, <2>3 DEF p
  <2> QED
    BY <2>3, <2>4
<1>9. RevokesItsOwn'
  <2> SUFFICES ASSUME NEW s \in RequestIds, NEW q \in Pairs, links'[q] \in request'[s].revoke
               PROVE  q[1] = request'[s].pair[1]
    BY DEF RevokesItsOwn
  <2>1. links'[q] \in request[s].revoke /\ request'[s].pair = request[s].pair /\ links'[q] # k
    BY <1>3
  <2>2. links'[q] = links[q]
    BY <1>2, <2>1
  <2> QED
    BY <2>1, <2>2 DEF RevokesItsOwn
<1>10. LinkHasLiveKey'
  <2> SUFFICES ASSUME NEW q \in Pairs, links'[q] # NoKey
               PROVE  \/ keys[links'[q]] = q[1]
                      \/ \E s \in RequestIds : Removing(request'[s]) /\ request'[s].pair[1] = q[1]
    BY DEF LinkHasLiveKey, Removing
  <2>1. CASE q = p
    BY <2>1, <1>1, <1>2
  <2>2. CASE q # p
    <3>1. \/ keys[links[q]] = q[1]
          \/ \E s \in RequestIds : Removing(request[s]) /\ Member(s) = q[1]
      BY <1>2, <2>2 DEF LinkHasLiveKey, Removing
    <3>2. \A s \in RequestIds : Removing(request[s]) => s # r
      BY DEF Removing
    <3> QED
      BY <1>2, <2>2, <3>1, <3>2
  <2> QED
    BY <2>1, <2>2
<1>11. Accounted'
  <2> SUFFICES ASSUME NEW j \in KeyIds, keys[j] \in MemberIds
               PROVE  j \in Linked' \cup strays' \/ \E s \in RequestIds : Holds(s, j)'
    BY DEF Accounted, LiveKeys
  <2>1. CASE j = k
    BY <2>1, <1>1, <1>2 DEF Linked
  <2>2. CASE j \in strays
    BY <2>2
  <2>3. CASE \E q \in Pairs : j = links[q]
    <3>1. PICK q \in Pairs : j = links[q]
      BY <2>3
    <3>2. CASE q # p
      BY <3>1, <3>2, <1>2 DEF Linked
    <3>3. CASE q = p /\ j # request[r].old
      BY <3>1, <3>3, NoKeyIsNone DEF p
    <3>4. CASE q = p /\ j = request[r].old
      BY <3>4, NoKeyIsNone DEF Holds
    <3> QED
      BY <3>2, <3>3, <3>4
  <2>4. CASE j # k /\ \E s \in RequestIds : Holds(s, j)
    BY <2>4 DEF Holds, k
  <2> QED
    BY <2>1, <2>2, <2>3, <2>4 DEF Accounted, LiveKeys, Linked
<1> QED
  BY <1>4, <1>5, <1>6, <1>7, <1>8, <1>9, <1>10, <1>11

\* Keys are revoked: those of a member who is removed, or one that was replaced.
LEMMA RevokedStep ==
    ASSUME TypeOK, KeyInv, UNCHANGED links, NEW r \in RequestIds,
           NEW ks \in SUBSET (KeyIds \cup {NoKey}), revokeAuthKey(ks),
           \/ /\ request[r].pc = "revoke" /\ ks = request[r].revoke
              /\ request'[r].pc = "delete_links" /\ request'[r].pair = request[r].pair
              /\ request'[r].old = request[r].old /\ request'[r].revoke = request[r].revoke
           \/ /\ request[r].pc = "retire" /\ ks = {request[r].old}
              /\ request'[r] = NoRequest,
           \A s \in RequestIds \ {r} : request'[s] = request[s]
    PROVE  /\ KeyInv' /\ keys' \in [KeyIds -> MemberIds \cup {Unmade, Revoked}]
           /\ strays' \subseteq KeyIds
<1> USE DEF KeyInv, Member
<1>1. PICK gone \in SUBSET ks :
          /\ keys' = [k \in KeyIds |-> IF k \in gone THEN Revoked ELSE keys[k]]
          /\ strays' = (strays \cup (ks \cap LiveKeys)) \ gone
  BY DEF revokeAuthKey
<1>2. \A k \in KeyIds : keys'[k] = IF k \in gone THEN Revoked ELSE keys[k]
  BY <1>1
<1>3. keys' \in [KeyIds -> MemberIds \cup {Unmade, Revoked}] /\ strays' \subseteq KeyIds
  BY <1>1, Typed DEF LiveKeys
<1>4. \A s \in RequestIds :
          /\ request'[s].old \in {NoKey, request[s].old}
          /\ request'[s].old # NoKey => request'[s].pair = request[s].pair
          /\ request'[s].revoke \subseteq request[s].revoke
          /\ request'[s].revoke # {} => request'[s].pair = request[s].pair
          /\ request'[s].pc \in {"link", "retire"} => request'[s] = request[s]
          /\ request[s].old \in KeyIds \cup {NoKey} /\ request[s].revoke \subseteq KeyIds
  BY EmptyTyped, Typed DEF RequestType
<1>5. PairKnown' /\ LinksDistinct'
  BY EmptyTyped DEF PairKnown, LinksDistinct
<1>6. LinksMade'
  BY <1>2, Typed DEF LinksMade
<1>7. FreshKey'
  <2>1. \A s \in RequestIds : request[s].pc = "link" => request[s].key \notin ks
    BY DEF FreshKey
  <2> QED
    BY <1>2, <1>4, <2>1, NoKeyIsNone DEF FreshKey
<1>8. HeldIsMade'
  BY <1>2, <1>4, NoKeyIsNone DEF HeldIsMade
<1>9. OldIsItsOwn'
  BY <1>4 DEF OldIsItsOwn
<1>10. RevokesItsOwn'
  BY <1>4 DEF RevokesItsOwn
<1>11. LinkHasLiveKey'
  <2> SUFFICES ASSUME NEW p \in Pairs, links[p] # NoKey
               PROVE  \/ keys'[links[p]] = p[1]
                      \/ \E s \in RequestIds : Removing(request'[s]) /\ request'[s].pair[1] = p[1]
    BY DEF LinkHasLiveKey, Removing
  <2>1. CASE links[p] \in gone /\ request[r].pc = "revoke"
    BY <2>1 DEF RevokesItsOwn, Removing
  <2>2. CASE links[p] \in gone /\ request[r].pc = "retire"
    BY <2>2 DEF OldIsItsOwn
  <2>3. CASE links[p] \notin gone
    <3>1. keys'[links[p]] = keys[links[p]]
      BY <2>3, <1>2, Typed
    <3>2. \A s \in RequestIds : Removing(request[s]) => s # r
      BY DEF Removing
    <3> QED
      BY <3>1, <3>2 DEF LinkHasLiveKey, Removing
  <2> QED
    BY <2>1, <2>2, <2>3
<1>12. Accounted'
  <2> SUFFICES ASSUME NEW j \in KeyIds, keys'[j] \in MemberIds
               PROVE  j \in Linked \cup strays' \/ \E s \in RequestIds : Holds(s, j)'
    BY DEF Accounted, LiveKeys, Linked
  <2>1. j \notin gone /\ keys[j] \in MemberIds
    BY <1>2, NoKeyIsNone
  <2>2. CASE \E s \in RequestIds : Holds(s, j)
    BY <2>1, <2>2, <1>1 DEF Holds, LiveKeys
  <2> QED
    BY <2>1, <2>2, <1>1 DEF Accounted, LiveKeys
<1> QED
  BY <1>3, <1>5, <1>6, <1>7, <1>8, <1>9, <1>10, <1>11, <1>12

-----------------------------------------------------------------------------
(* The steps.                                                              *)

LEMMA EnrolmentBegins ==
    ASSUME IInv, NEW r \in RequestIds, NEW m \in MemberIds, NEW i \in InstanceIds,
           RequestEnrollment(r, m, i), events' \in 0 .. MaxEvents
    PROVE  IInv'
<1> DEFINE q == [NoRequest EXCEPT !.pc = "tag", !.pair = <<m, i>>, !.old = links[<<m, i>>]]
<1>1. TypeOK /\ KeyInv /\ <<m, i>> \in Pairs /\ links[<<m, i>>] \in KeyIds \cup {NoKey}
  BY Typed DEF IInv, Pairs
<1>2. /\ q \in RequestType /\ q.pc = "tag" /\ q.pair = <<m, i>> /\ q.old = links[<<m, i>>]
      /\ q.revoke = {}
  BY <1>1, EmptyTyped DEF RequestType, RequestPcs
<1>3. access_grants' \subseteq Pairs
  BY <1>1, Typed DEF RequestEnrollment
<1>4. CASE UNCHANGED request
  BY <1>1, <1>3, <1>4, KeysStay, Typed, StaysTyped DEF RequestEnrollment, credentials, IInv
<1>5. CASE request' = [request EXCEPT ![r] = q]
  <2>1. request' \in [RequestIds -> RequestType]
    BY <1>1, <1>2, <1>5, Replaced
  <2>2. KeyInv'
    BY <1>1, <1>2, <1>5, StartStep DEF RequestEnrollment, Requested, credentials
  <2> QED
    BY <1>1, <1>3, <2>1, <2>2, Typed, StaysTyped DEF RequestEnrollment, credentials, IInv
<1> QED
  BY <1>4, <1>5 DEF RequestEnrollment

LEMMA RemovalBegins ==
    ASSUME IInv, NEW r \in RequestIds, NEW m \in MemberIds, removeMember(r, m),
           events' \in 0 .. MaxEvents
    PROVE  IInv'
<1> DEFINE pair == CHOOSE p \in Pairs : p[1] = m
           ks == {links[p] : p \in {m} \X InstanceIds} \ {NoKey}
           q == [NoRequest EXCEPT !.pc = "revoke", !.pair = pair, !.revoke = ks]
<1>1. TypeOK /\ KeyInv
  BY DEF IInv
<1>2. pair \in Pairs /\ pair[1] = m
  <2>1. PICK i : i \in InstanceIds
    BY SomeInstance
  <2>2. <<m, i>> \in Pairs /\ <<m, i>>[1] = m
    BY <2>1 DEF Pairs
  <2> QED
    BY <2>2
<1>3. ks \subseteq KeyIds /\ \A k \in ks : k # NoKey /\ \E p \in Pairs : p[1] = m /\ k = links[p]
  BY <1>1, Typed DEF Pairs
<1> HIDE DEF pair, ks
<1>4. /\ q \in RequestType /\ q.pc = "revoke" /\ q.pair = pair /\ q.old = NoKey /\ q.revoke = ks
  BY <1>2, <1>3, EmptyTyped DEF RequestType, RequestPcs
<1>5. request' = [request EXCEPT ![r] = q] /\ request[r].pc = "none"
  BY DEF removeMember, Requested, pair, ks
<1> HIDE DEF q
<1>6. request' \in [RequestIds -> RequestType]
  BY <1>1, <1>4, <1>5, Replaced
<1>7. UNCHANGED <<tables, policy, housekeeper, credentials, worker>>
  BY DEF removeMember
<1>8. KeyInv'
  BY <1>1, <1>2, <1>3, <1>4, <1>5, <1>7, StartStep DEF credentials
<1> QED
  BY <1>1, <1>6, <1>7, <1>8, Typed, StaysTyped DEF IInv, tables, credentials

\* A request that goes on to something other than a key, ...
LEMMA GoesOn ==
    ASSUME IInv, NEW r \in RequestIds, request[r].pc \notin {"none", "refused"},
           NEW pc \in RequestPcs \ {"link", "retire"}, NEW read \in Policies,
           request' = [request EXCEPT ![r].pc = pc, ![r].read = read]
    PROVE  /\ request' \in [RequestIds -> RequestType] /\ Quiet(r)
           /\ request'[r].pc = pc /\ request'[r].pair = request[r].pair
           /\ \A s \in RequestIds \ {r} : request'[s] = request[s]
<1>1. request[r].pair \in Pairs
  BY DEF IInv, KeyInv, PairKnown
<1> QED
  BY <1>1, Going DEF IInv, Quiet

\* ... and one that ends.
LEMMA IsOver ==
    ASSUME IInv, NEW r \in RequestIds, Ends(r)
    PROVE  /\ request' \in [RequestIds -> RequestType] /\ Quiet(r)
           /\ request'[r] = NoRequest
           /\ \A s \in RequestIds \ {r} : request'[s] = request[s]
<1>1. /\ request' \in [RequestIds -> RequestType] /\ request'[r] = NoRequest
      /\ \A s \in RequestIds \ {r} : request'[s] = request[s]
  BY EmptyTyped, Replaced DEF IInv, Ends
<1> QED
  BY <1>1, EmptyTyped DEF Quiet

LEMMA InstanceGoes ==
    ASSUME IInv, NEW i \in InstanceIds, InstanceDeleted(i), events' \in 0 .. MaxEvents
    PROVE  IInv'
<1> DEFINE D == {p \in Pairs : p[2] = i}
<1>1. TypeOK /\ KeyInv
  BY DEF IInv
<1>2. /\ links' = [p \in Pairs |-> IF p[2] = i THEN NoKey ELSE links[p]]
      /\ strays' = strays \cup ({links[p] : p \in MemberIds \X {i}} \cap LiveKeys)
      /\ UNCHANGED <<memberships, access_grants, policy, housekeeper, keys, request, worker>>
      /\ instances' \subseteq InstanceIds
  BY <1>1, Typed DEF InstanceDeleted
<1>3. \A p \in Pairs : links'[p] = IF p \in D THEN NoKey ELSE links[p]
  BY <1>2
<1>4. strays \subseteq strays' /\ \A p \in D : links[p] \in LiveKeys => links[p] \in strays'
  BY <1>2 DEF Pairs
<1>5. KeyInv'
  <2> HIDE DEF D
  <2>1. D \in SUBSET Pairs
    BY DEF D
  <2> DEFINE R == {}
  <2>2. R \in SUBSET RequestIds /\ \A r \in RequestIds \ R : request'[r] = request[r]
    BY <1>2
  <2>3. \A r \in R : FALSE
    OBVIOUS
  <2> HIDE DEF R
  <2> QED
    BY <1>1, <1>2, <1>3, <1>4, <2>1, <2>2, <2>3, QuietStep
<1>6. links' \in [Pairs -> KeyIds \cup {NoKey}]
  BY <1>1, <1>2, Typed
<1>7. strays' \subseteq KeyIds
  BY <1>1, <1>2, Typed DEF LiveKeys
<1> QED
  BY <1>1, <1>2, <1>5, <1>6, <1>7, Typed, StaysTyped DEF IInv

\* A request that moves on while the links stay: what it was about to store is
\* recorded if it lets go of it.
LEMMA RequestMoves ==
    ASSUME IInv, NEW r \in RequestIds, UNCHANGED <<keys, links>>,
           Quiet(r), \A s \in RequestIds \ {r} : request'[s] = request[s],
           strays \subseteq strays', \A k \in LiveKeys : Holds(r, k) => k \in strays',
           Removing(request[r]) => Removing(request'[r])
    PROVE  KeyInv'
<1> DEFINE D == {}
           R == {r}
<1>1. D \in SUBSET Pairs /\ R \in SUBSET RequestIds
  OBVIOUS
<1>2. /\ \A p \in D : FALSE
      /\ \A p \in Pairs : links'[p] = IF p \in D THEN NoKey ELSE links[p]
      /\ \A s \in RequestIds \ R : request'[s] = request[s]
      /\ \A s \in R : s = r
  OBVIOUS
<1> HIDE DEF D, R
<1> QED
  BY <1>1, <1>2, QuietStep DEF IInv

LEMMA EnrolmentReads ==
    ASSUME IInv, NEW r \in RequestIds, UNCHANGED events,
           ReadPolicy(r) \/ ensureMemberTag(r) \/ ensureImmediateInstanceAccess(r) \/ Refused(r)
    PROVE  IInv'
<1> USE DEF tables, credentials, Requested
<1>1. TypeOK
  BY DEF IInv
<1>2. request[r].pc \notin {"link", "retire", "delete_links", "delete_member"}
  BY DEF ReadPolicy, ensureMemberTag, ensureImmediateInstanceAccess, Refused
<1>3. policy' \in Policies
  <2>1. request[r].read \in Policies /\ policy \in Policies
    BY <1>1, Typed DEF RequestType
  <2>2. request[r].pc \notin {"none", "refused"} =>
            request[r].pair \in Pairs /\ Member(r) \in MemberIds /\ Instance(r) \in InstanceIds
    BY DEF IInv, KeyInv, PairKnown, Pairs, Member, Instance
  <2>3. CASE UNCHANGED policy
    BY <2>1, <2>3
  <2>4. CASE ensureMemberTag(r)
    BY <2>1, <2>2, <2>4 DEF ensureMemberTag, Policies
  <2>5. CASE ensureImmediateInstanceAccess(r)
    BY <2>1, <2>2, <2>5 DEF ensureImmediateInstanceAccess, Policies
  <2> QED
    BY <2>3, <2>4, <2>5 DEF ReadPolicy, Refused
<1>4. /\ request' \in [RequestIds -> RequestType] /\ Quiet(r)
      /\ \A s \in RequestIds \ {r} : request'[s] = request[s]
  <2>1. CASE Refused(r)
    BY <2>1, IsOver DEF Refused
  <2>2. CASE \E pc \in {"post_tag", "access", "post_access", "key"}, read \in Policies :
                request' = [request EXCEPT ![r].pc = pc, ![r].read = read]
             /\ request[r].pc \notin {"none", "refused"}
    <3>1. PICK pc \in {"post_tag", "access", "post_access", "key"}, read \in Policies :
              request' = [request EXCEPT ![r].pc = pc, ![r].read = read]
      BY <2>2
    <3>2. pc \in RequestPcs \ {"link", "retire"}
      BY DEF RequestPcs
    <3> QED
      BY <2>2, <3>1, <3>2, GoesOn
  <2>3. policy \in Policies
    BY <1>1, Typed
  <2> QED
    BY <2>1, <2>2, <2>3, EmptyTyped
       DEF ReadPolicy, ensureMemberTag, ensureImmediateInstanceAccess, Goes, Copies
<1>5. UNCHANGED <<tables, housekeeper, credentials, worker>>
  BY DEF ReadPolicy, ensureMemberTag, ensureImmediateInstanceAccess, Refused
<1>6. KeyInv'
  BY <1>2, <1>4, <1>5, RequestMoves DEF Holds, Removing
<1> QED
  BY <1>1, <1>3, <1>4, <1>5, <1>6, Typed, StaysTyped DEF IInv

LEMMA KeyIsMade ==
    ASSUME IInv, NEW r \in RequestIds, CreateKey(r), UNCHANGED events
    PROVE  IInv'
<1> USE DEF tables, Requested
<1>1. TypeOK /\ KeyInv /\ request[r].pc = "key"
  BY DEF IInv, CreateKey
<1>2. CASE Ends(r) /\ UNCHANGED keys
  <2>1. KeyInv'
    BY <1>1, <1>2, IsOver, RequestMoves DEF Holds, Removing, CreateKey
  <2> QED
    BY <1>1, <1>2, <2>1, IsOver, Typed, StaysTyped DEF IInv, CreateKey
<1>3. ASSUME NEW k \in KeyIds, keys[k] = Unmade, keys' = [keys EXCEPT ![k] = Member(r)],
             request' = [request EXCEPT ![r].pc = "link", ![r].key = k]
      PROVE  IInv'
  <2> DEFINE q == [request[r] EXCEPT !.pc = "link", !.key = k]
  <2>1. request[r] \in RequestType /\ request[r].pair \in Pairs
    BY <1>1, Typed DEF KeyInv, PairKnown
  <2>2. /\ q \in RequestType /\ q.pc = "link" /\ q.key = k /\ q.pair = request[r].pair
        /\ q.old = request[r].old /\ q.revoke = request[r].revoke
    BY <2>1 DEF RequestType, RequestPcs
  <2>3. request' = [request EXCEPT ![r] = q]
    BY <1>1, <1>3, Typed
  <2> HIDE DEF q
  <2>4. /\ request' \in [RequestIds -> RequestType] /\ request'[r] = q
        /\ \A s \in RequestIds \ {r} : request'[s] = request[s]
    BY <1>1, <2>2, <2>3, Replaced
  <2>5. KeyInv'
    BY <1>1, <1>3, <2>2, <2>4, MadeStep DEF CreateKey
  <2>6. keys' \in [KeyIds -> MemberIds \cup {Unmade, Revoked}]
    BY <1>1, <1>3, <2>1, Typed DEF Member, Pairs
  <2> QED
    BY <1>1, <2>4, <2>5, <2>6, Typed, StaysTyped DEF IInv, CreateKey
<1> QED
  BY <1>2, <1>3 DEF CreateKey

LEMMA LinkIsStored ==
    ASSUME IInv, NEW r \in RequestIds, UpsertLink(r), UNCHANGED events
    PROVE  IInv'
<1> USE DEF tables, Requested
<1>1. TypeOK /\ KeyInv /\ request[r].pc = "link"
  BY DEF IInv, UpsertLink
<1>2. /\ request[r].pair \in Pairs /\ request[r].key \in KeyIds
      /\ links[request[r].pair] \in KeyIds \cup {NoKey}
  BY <1>1, Typed DEF KeyInv, PairKnown, FreshKey
<1>3. UNCHANGED <<tables, policy, housekeeper, keys, worker>>
  BY DEF UpsertLink
<1>4. CASE /\ strays' = strays \cup {request[r].key} /\ Ends(r) /\ UNCHANGED links
  <2>1. KeyInv'
    BY <1>1, <1>3, <1>4, IsOver, RequestMoves DEF Holds, Removing
  <2>2. strays' \subseteq KeyIds
    BY <1>1, <1>2, <1>4, Typed
  <2> QED
    BY <1>1, <1>3, <1>4, <2>1, <2>2, IsOver, Typed, StaysTyped DEF IInv
<1>5. CASE /\ links' = [links EXCEPT ![request[r].pair] = request[r].key]
           /\ strays' = strays \cup ({links[request[r].pair]} \ {NoKey, request[r].old})
           /\ IF request[r].old = NoKey THEN Ends(r) ELSE Goes(r, "retire")
  <2>1. /\ request' \in [RequestIds -> RequestType]
        /\ \/ request[r].old = NoKey /\ request'[r] = NoRequest
           \/ /\ request'[r].pc = "retire" /\ request'[r].pair = request[r].pair
              /\ request'[r].old = request[r].old /\ request'[r].revoke = request[r].revoke
        /\ \A s \in RequestIds \ {r} : request'[s] = request[s]
    <3>1. CASE request[r].old = NoKey /\ Ends(r)
      BY <3>1, IsOver
    <3>2. CASE Goes(r, "retire")
      <4>1. "retire" \in RequestPcs
        BY DEF RequestPcs
      <4> QED
        BY <1>1, <3>2, <4>1, EmptyTyped, Going DEF Goes
    <3> QED
      BY <1>5, <3>1, <3>2
  <2>2. KeyInv'
    BY <1>1, <1>3, <1>5, <2>1, StoredStep
  <2>3. links' \in [Pairs -> KeyIds \cup {NoKey}] /\ strays' \subseteq KeyIds
    BY <1>1, <1>2, <1>5, Typed
  <2> QED
    BY <1>1, <1>3, <2>1, <2>2, <2>3, Typed, StaysTyped DEF IInv
<1> QED
  BY <1>4, <1>5 DEF UpsertLink

LEMMA KeysAreRevoked ==
    ASSUME IInv, NEW r \in RequestIds, RetireKey(r) \/ RevokeKeys(r), UNCHANGED events
    PROVE  IInv'
<1> USE DEF tables, Requested
<1>1. TypeOK /\ KeyInv
  BY DEF IInv
<1>2. /\ request[r].old \in KeyIds \cup {NoKey} /\ request[r].revoke \subseteq KeyIds
  BY <1>1, Typed DEF RequestType
<1>3. UNCHANGED <<tables, policy, housekeeper, links, worker>>
  BY DEF RetireKey, RevokeKeys
<1>4. CASE RetireKey(r)
  <2>1. /\ request[r].pc = "retire" /\ revokeAuthKey({request[r].old}) /\ Ends(r)
        /\ {request[r].old} \in SUBSET (KeyIds \cup {NoKey})
    BY <1>2, <1>4 DEF RetireKey
  <2>2. /\ KeyInv' /\ keys' \in [KeyIds -> MemberIds \cup {Unmade, Revoked}]
        /\ strays' \subseteq KeyIds
    BY <1>1, <1>3, <2>1, IsOver, RevokedStep
  <2> QED
    BY <1>1, <1>3, <2>1, <2>2, IsOver, Typed, StaysTyped DEF IInv
<1>5. CASE RevokeKeys(r)
  <2>1. /\ request[r].pc = "revoke" /\ revokeAuthKey(request[r].revoke)
        /\ Goes(r, "delete_links") /\ request[r].revoke \in SUBSET (KeyIds \cup {NoKey})
        /\ "delete_links" \in RequestPcs
    BY <1>2, <1>5 DEF RevokeKeys, RequestPcs
  <2>2. /\ request' \in [RequestIds -> RequestType]
        /\ request'[r].pc = "delete_links" /\ request'[r].pair = request[r].pair
        /\ request'[r].old = request[r].old /\ request'[r].revoke = request[r].revoke
        /\ \A s \in RequestIds \ {r} : request'[s] = request[s]
    BY <1>1, <2>1, EmptyTyped, Going DEF Goes
  <2>3. /\ KeyInv' /\ keys' \in [KeyIds -> MemberIds \cup {Unmade, Revoked}]
        /\ strays' \subseteq KeyIds
    BY <1>1, <1>3, <2>1, <2>2, RevokedStep
  <2> QED
    BY <1>1, <1>3, <2>2, <2>3, Typed, StaysTyped DEF IInv
<1> QED
  BY <1>4, <1>5

LEMMA MemberGoes ==
    ASSUME IInv, NEW r \in RequestIds, DeleteLinks(r) \/ DeleteMembership(r), UNCHANGED events
    PROVE  IInv'
<1> USE DEF tables, Requested
<1> DEFINE D == {p \in Pairs : p[1] = Member(r)}
           R == {r}
<1>1. /\ TypeOK /\ KeyInv /\ request[r].pc \in {"delete_links", "delete_member"}
      /\ request[r].pair \in Pairs
  BY DEF IInv, DeleteLinks, DeleteMembership, KeyInv, PairKnown
<1>2. /\ links' = LinksGone(Member(r)) /\ strays' = strays \cup KeysLinked(Member(r))
      /\ UNCHANGED <<instances, policy, housekeeper, keys, worker>>
  BY DEF DeleteLinks, DeleteMembership
<1>3. memberships' \subseteq MemberIds /\ access_grants' \subseteq Pairs
  BY <1>1, Typed DEF DeleteLinks, DeleteMembership
<1>4. /\ request' \in [RequestIds -> RequestType] /\ Quiet(r)
      /\ \A s \in RequestIds \ {r} : request'[s] = request[s]
  <2>1. CASE DeleteMembership(r)
    BY <2>1, IsOver DEF DeleteMembership
  <2>2. CASE DeleteLinks(r)
    <3>1. "delete_member" \in RequestPcs \ {"link", "retire"}
      BY DEF RequestPcs
    <3> QED
      BY <2>2, <3>1, GoesOn, EmptyTyped DEF DeleteLinks, Goes
  <2> QED
    BY <2>1, <2>2
<1>5. \A p \in Pairs : links'[p] = IF p \in D THEN NoKey ELSE links[p]
  BY <1>2 DEF LinksGone
<1>6. strays \subseteq strays' /\ \A p \in D : links[p] \in LiveKeys => links[p] \in strays'
  BY <1>2 DEF KeysLinked, Pairs
<1>7. /\ D \in SUBSET Pairs /\ R \in SUBSET RequestIds
      /\ \A p \in Pairs : p[1] = Member(r) => p \in D
      /\ \A s \in R : s = r
      /\ \A s \in RequestIds \ R : request'[s] = request[s]
  BY <1>4
<1>8. KeyInv'
  <2> HIDE DEF D, R
  <2>1. \A k \in LiveKeys : ~ Holds(r, k)
    BY <1>1 DEF Holds
  <2> QED
    BY <1>1, <1>2, <1>4, <1>5, <1>6, <1>7, <2>1, QuietStep
<1>9. links' \in [Pairs -> KeyIds \cup {NoKey}] /\ strays' \subseteq KeyIds
  BY <1>1, <1>2, Typed DEF LinksGone, KeysLinked, LiveKeys
<1> QED
  BY <1>1, <1>2, <1>3, <1>4, <1>8, <1>9, Typed, StaysTyped DEF IInv

\* What a refused request lets go of.
LEMMA LetsGo ==
    ASSUME NEW r
    PROVE  /\ Requested(r, "link") =>
                 (CASE Requested(r, "link") -> {request[r].key}
                    [] Requested(r, "retire") -> {request[r].old} [] OTHER -> {}) = {request[r].key}
           /\ Requested(r, "retire") =>
                 (CASE Requested(r, "link") -> {request[r].key}
                    [] Requested(r, "retire") -> {request[r].old} [] OTHER -> {}) = {request[r].old}
BY DEF Requested

LEMMA FailureStep ==
    ASSUME IInv, NEW r \in RequestIds, RequestFails(r), events' \in 0 .. MaxEvents
    PROVE  IInv'
<1> USE DEF tables
<1>1. TypeOK /\ KeyInv
  BY DEF IInv
<1>2. UNCHANGED <<tables, policy, housekeeper, keys, links, worker>>
  BY DEF RequestFails
<1>3. CASE /\ request[r].pc \in {"revoke", "delete_links"} /\ Goes(r, "delete_member")
           /\ UNCHANGED strays
  <2>1. "delete_member" \in RequestPcs \ {"link", "retire"}
    BY DEF RequestPcs
  <2>2. /\ request' \in [RequestIds -> RequestType] /\ Quiet(r)
        /\ request'[r].pc = "delete_member"
        /\ \A s \in RequestIds \ {r} : request'[s] = request[s]
    BY <1>3, <2>1, GoesOn, EmptyTyped DEF Goes
  <2>3. KeyInv'
    BY <1>2, <1>3, <2>2, RequestMoves DEF Holds, Removing
  <2> QED
    BY <1>1, <1>2, <1>3, <2>2, <2>3, Typed, StaysTyped DEF IInv
<1>4. CASE /\ ~ Removing(request[r])
           /\ request' = [request EXCEPT ![r] = [NoRequest EXCEPT !.pc = "refused"]]
           /\ \E lost : /\ strays' = strays \cup (LiveKeys \cap lost)
                        /\ request[r].pc = "link" => request[r].key \in lost
                        /\ request[r].pc = "retire" => request[r].old \in lost
  <2> DEFINE q == [NoRequest EXCEPT !.pc = "refused"]
  <2>1. q \in RequestType /\ q.pc = "refused" /\ q.old = NoKey /\ q.revoke = {}
    BY EmptyTyped DEF RequestType, RequestPcs
  <2>2. request' = [request EXCEPT ![r] = q]
    BY <1>4
  <2> HIDE DEF q
  <2>3. /\ request' \in [RequestIds -> RequestType] /\ request'[r] = q
        /\ \A s \in RequestIds \ {r} : request'[s] = request[s]
    BY <1>1, <2>1, <2>2, Replaced
  <2>4. strays \subseteq strays' /\ \A k \in LiveKeys : Holds(r, k) => k \in strays'
    BY <1>4 DEF Holds
  <2>5. KeyInv'
    BY <1>2, <1>4, <2>1, <2>3, <2>4, RequestMoves DEF Quiet
  <2>6. strays' \subseteq KeyIds
    BY <1>1, <1>4, Typed DEF LiveKeys
  <2> QED
    BY <1>1, <1>2, <2>3, <2>5, <2>6, Typed, StaysTyped DEF IInv
<1> DEFINE gone == CASE Requested(r, "link") -> {request[r].key}
                     [] Requested(r, "retire") -> {request[r].old} [] OTHER -> {}
<1>5. /\ request[r].pc = "link" => request[r].key \in gone
      /\ (request[r].pc = "retire" => request[r].old \in gone)
  <2>1. /\ Requested(r, "link") => gone = {request[r].key}
        /\ (Requested(r, "retire") => gone = {request[r].old})
    BY LetsGo, Zenon
  <2> HIDE DEF gone
  <2> QED
    BY <2>1 DEF Requested
<1>6. \/ /\ request[r].pc \in {"revoke", "delete_links"} /\ Goes(r, "delete_member")
         /\ UNCHANGED strays
      \/ /\ request[r].pc \in {"tag", "post_tag", "access", "post_access", "key", "link", "retire"}
         /\ request' = [request EXCEPT ![r] = [NoRequest EXCEPT !.pc = "refused"]]
         /\ strays' = strays \cup (LiveKeys \cap gone)
  BY Zenon DEF RequestFails
<1> HIDE DEF gone
<1> QED
  BY <1>3, <1>4, <1>5, <1>6 DEF Removing

-----------------------------------------------------------------------------
(* The theorems.                                                           *)

LEMMA KeyInvInit == Init => KeyInv
<1> SUFFICES ASSUME Init PROVE KeyInv
  OBVIOUS
<1>1. PICK linked \in Pairs \cup {NoPair} :
          /\ links = [p \in Pairs |-> IF p = linked THEN 1 ELSE NoKey]
          /\ keys = [k \in KeyIds |-> IF k = 1 /\ linked # NoPair THEN linked[1] ELSE Unmade]
  BY DEF Init
<1>2. \A r \in RequestIds :
          /\ request[r].pc = "none" /\ request[r].old = NoKey /\ request[r].revoke = {}
  BY EmptyTyped DEF Init
<1>3. 1 \in KeyIds
  BY BoundsAreNumbers DEF KeyIds
<1>4. \A p \in Pairs : links[p] # NoKey =>
          p = linked /\ links[p] = 1 /\ keys[1] = p[1] /\ linked # NoPair
  BY <1>1, <1>3, NoPairIsNone DEF Pairs
<1>5. Accounted
  <2> SUFFICES ASSUME NEW k \in LiveKeys PROVE k \in Linked
    BY DEF Accounted
  <2>1. k = 1 /\ linked \in Pairs
    BY <1>1, NoKeyIsNone DEF LiveKeys
  <2> QED
    BY <2>1, <1>1 DEF Linked
<1>6. LinksDistinct /\ LinksMade
  BY <1>4 DEF LinksDistinct, LinksMade
<1>7. LinkHasLiveKey
  BY <1>4 DEF LinkHasLiveKey
<1>8. RevokesItsOwn /\ OldIsItsOwn /\ HeldIsMade /\ FreshKey /\ PairKnown
  BY <1>2 DEF RevokesItsOwn, OldIsItsOwn, HeldIsMade, FreshKey, PairKnown
<1> QED
  BY <1>5, <1>6, <1>7, <1>8 DEF KeyInv

LEMMA IInvNext == IInv /\ [Next]_vars => IInv'
<1> SUFFICES ASSUME IInv, [Next]_vars PROVE IInv'
  OBVIOUS
<1>1. CASE UNCHANGED vars
  <2>1. KeyInv'
    BY <1>1, KeysStay DEF IInv, vars
  <2> QED
    BY <1>1, <2>1, Typed, StaysTyped DEF IInv, vars
<1>2. CASE Acts
  <2>1. events' \in 0 .. MaxEvents /\ UNCHANGED events
    BY <1>2, Typed DEF IInv, Acts
  <2>2. CASE \E r \in RequestIds : Enrolls(r) \/ Removes(r)
    BY <2>1, <2>2, EnrolmentReads, KeyIsMade, LinkIsStored, KeysAreRevoked, MemberGoes
       DEF Enrolls, Removes
  <2>3. CASE \E w \in WorkerIds : Housekeeps(w)
    BY <2>1, <2>3, WorkerSteps, KeysStay DEF IInv
  <2> QED
    BY <1>2, <2>2, <2>3 DEF Acts
<1>3. CASE Event
  <2>1. events' \in 0 .. MaxEvents
    BY <1>3, Typed, BoundsAreNumbers DEF IInv, Event
  <2>2. CASE Changes
    <3>1. CASE \E m \in MemberIds, i \in InstanceIds :
                  addAccessGrant(m, i) \/ removeAccessGrant(m, i)
      BY <2>1, <3>1, GrantSteps, KeysStay DEF IInv
    <3>2. CASE \E i \in InstanceIds : InstanceDeleted(i)
      BY <2>1, <3>2, InstanceGoes
    <3>3. CASE \E r \in RequestIds, m \in MemberIds :
                  removeMember(r, m) \/ \E i \in InstanceIds : RequestEnrollment(r, m, i)
      BY <2>1, <3>3, RemovalBegins, EnrolmentBegins
    <3> QED
      BY <2>2, <3>1, <3>2, <3>3 DEF Changes
  <2>3. CASE Disturbs
    BY <2>1, <2>3, FailureStep, WorkerSteps, KeysStay DEF IInv, Disturbs
  <2> QED
    BY <1>3, <2>2, <2>3 DEF Event
<1> QED
  BY <1>1, <1>2, <1>3 DEF Next

LEMMA Invariant == Spec => []IInv
<1>1. Init => IInv
  BY TypeInit, KeyInvInit DEF IInv
<1> QED
  BY <1>1, IInvNext, PTL DEF Spec

\* Every variable keeps its type, whatever fails.
THEOREM TypeCorrect == Spec => []TypeOK
<1>1. IInv => TypeOK
  BY DEF IInv
<1> QED
  BY <1>1, Invariant, PTL

\* However many requests for a link overlap and whichever of them fails, a link
\* hands out a live key of its member, except while the member is being removed
\* (enroll-device/index.ts:338-345).
THEOREM LinkAlwaysLive == Spec => []LinkHasLiveKey
<1>1. IInv => LinkHasLiveKey
  BY DEF IInv, KeyInv
<1> QED
  BY <1>1, Invariant, PTL

\* No live key is without a link that names it, a request that holds it, or an
\* entry among the strays, whatever fails (enroll-device/index.ts:200-206,
\* 342-348).
THEOREM KeysAlwaysAccounted == Spec => []KeysAccounted
<1>1. IInv => KeysAccounted
  BY DEF IInv, KeyInv, Accounted, Holds, KeysAccounted, InHand
<1> QED
  BY <1>1, Invariant, PTL
=============================================================================
