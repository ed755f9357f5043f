# GuildCloud console: TLA+ models of the control plane and the site workers

The console sells virtual machines.  Its state is a Supabase PostgreSQL database;
the machines are guests on several Proxmox clusters, and on each cluster one
*site worker* polls the database and does the work.  Nothing is transactional
across the database, Proxmox and Tailscale, a worker can be killed at any point,
and every call can be lost or repeated.  Around that core stand the enrolment of
customers' devices, the deployment of the workers themselves, the console's pages
and the people of an organisation, each with interleavings of its own.  These
modules state what has to stay true all the same, check it with TLC on small
instances, and prove every safety property among it with TLAPS for instances of any size.

Contents

1. [Parts of the system](#1-parts-of-the-system)
2. [Modules and how they correspond to the code](#2-modules-and-how-they-correspond-to-the-code)
3. [What is checked](#3-what-is-checked)
4. [Where the code does not do what its documents say](#4-where-the-code-does-not-do-what-its-documents-say)
5. [What is proved](#5-what-is-proved)
6. [Limits](#6-limits)
7. [Plan](#7-plan)

## 1. Parts of the system

| Part | State | Operations | Correct when |
| --- | --- | --- | --- |
| **Control plane** (`supabase/migrations/`) | `instances`, `operations`, `operation_stages`, `instance_snapshots`, `capacity_reservations` | `request_instance_*`, called by the console and the operator tool; `place_next_pending_operation`, `worker_start_stage`, `worker_hold_capacity`, `worker_finish_operation`, called by workers | a busy instance has an operation that will settle it; an outcome is final; an accepted delete is final; snapshots, restores and holds agree with their operations |
| **Operation loop** (`deploy/site-worker/index.js`, `run`, `processOneStage`) | what one process remembers during one stage | claim placements, list operations, carry out the first open stage of one, mark it, finish; on an error mark, roll a create back, finish as failed | usable instances have their own guests; no stage is skipped; every placed operation ends |
| **Deletion pass** (`processPendingInstanceDeletions`) | the list it read at the start of the run | destroy each listed guest, release its tailnet device, finish the delete | destroys only what is to be deleted, forgets nothing |
| **Placement** (`place_next_pending_operation`, `can_provision_instance`, the worker's preflight) | capacity snapshots, holds, admission flags | choose a node for the oldest unplaced create under an advisory lock; check and hold a resize's memory; refuse a create beforehand | never gives away capacity twice, keeps the 30 % reserve; refuses no create that could be placed |
| **Warm pool** (`maintainWarmPool`, `worker_claim_warm_pool_vm`) | `warm_pool_vms` | build, wait, promote, expire, claim | a warm guest goes to one instance at most, and the pool stays within its target |
| **Orphan sweep** (`reconcileOrphanGuests`, `20260902110000`) | `infrastructure_findings` | report, approve, dismiss, reap | what nobody names is reported; what is reaped is what the operator approved |
| **Guest setup** (`processOneStage` from `template_cloud_init` on, `restartInstanceAfterConfigChange`, `detachVendorSnippet`) | the guest's configuration, its snippet, the one-time password in the vault | password, snippet, configuration, first start or warm takeover, restart after a resize, network attach, verification | the guest can start again, no secret stays behind that cannot be found, the password is the guest's, a resize took effect |
| **SSH key synchronisation** (`processPendingSshKeySyncs`, `settings/actions.ts`) | `ssh_keys`, `ssh_sync_pending`, the managed block in a guest | add, remove, mark, list, rewrite, clear | ready guests come to hold the registered keys |
| **Tailnet policy** (`reconcileTailnetAccess`, `ensureTailscaleTagOwners`, `tailscale-access-policy.js`) | the policy held by Tailscale | read, change, post | desired and applied rules meet although three writers share one document |
| **Enrolment** (`functions/enroll-device`, migrations `20260825*`) | links, keys | open, regenerate, revoke, remove a member | a link's key works; no key is left live and unnamed unless a call failed or was overtaken |
| **Device connection** (`api/enroll/[token]`, `(auth)/connect`, `lib/enrollment-scripts.ts`) | the command, the script, the client on a device | fetch, install, join, advise | whoever follows the script's advice gets on the tailnet |
| **Worker deployment** (`deploy-pull.sh`, `scripts/cutover-worker.sh`) | release directories, the `current` symlink, the checksum, `worker.env` | stage, check, switch, health gate, roll back; mint, activate, validate, restore | the release in use and the credentials in use work together; a good commit goes live |
| **Worker identity** (`20260829120000`, `20260829230000`, `seal-table-access.js`) | tokens, cluster ownership | assert ownership, read secrets | a worker changes only its own cluster's operations |
| **Console pages** (`create-instance-wizard.tsx`, `operation-progress.tsx`, `instance-actions.tsx`, `console/instances/actions.ts`) | the copy a page shows, polls under way, the form's idempotency key | submit, poll, refresh, act, reveal | one instance per form; the page catches up with the database |
| **Organisations** (`settings/actions.ts`, `(auth)/actions.ts`, `(auth)/accept-invite`, `lib/supabase/queries.ts`, the baseline schema) | `organizations`, `memberships`, accounts, sessions | invite, change a role, remove, sign up, link, accept, onboard | one Owner; an invited person gets into the organisation that invited them |
| Health snapshots, the superseded guild-a worker, the backup probe | | | see `components` in `PROJECT.json` |

**How they interact.**  The console inserts an operation and puts its instance in a
busy state; that is all it does.  A systemd timer starts a worker run per cluster
every three minutes, one at a time (`Type=oneshot`).  A run publishes a health
snapshot, reconciles the tailnet if it is the *housekeeper*, carries out pending
deletions, synchronises keys and tags, maintains the warm pool and the orphan
findings, and then loops: any worker may place pending creates on any cluster;
each lists the operations of its own cluster by `updated_at` and advances one
stage of the first.  It ends when its 150 seconds, counted from the start of the
run, are over.  The worker talks to the database through `fetchWithRetry` (five
attempts), to Proxmox without retries, and waits at most 120 s for a Proxmox task.

**What is hard.**  Customer requests interleave with a run at every `await`.  The
vmid in a row, the guest on the cluster, the stage row and the operation row are
four writes with a possible crash or lost answer after each.
Proxmox gives out a vmid again as soon as it is free.  A finish can be applied
without its caller ever knowing, and is then sent again, even with the other
outcome.  The list of deletions is older than the deletions made from it.  The tailnet policy
has no version: whoever posts last undoes what the others wrote meanwhile.  A deploy
and a cutover each judge a host that the other one is changing.  A page polls every
three seconds whether or not the last poll was answered.
`PROJECT.json` lists each such hazard at its line, with the properties that
cover it, or the reason why none does yet.

## 2. Modules and how they correspond to the code

`map` in `PROJECT.json` names the lines each definition stands for.

### ControlPlane

The tables and every function that changes them, one transaction, one action.

| TLA+ | Code |
| --- | --- |
| `instances`, `operations`, `instance_snapshots`, `capacity_reservations` | the tables; `"none"` is a row not inserted, `"gone"` one deleted.  A snapshot row and a reservation are named by the operation that made them |
| `request_instance_create`, `_snapshot`, `_resize`, `_restore_replace`, `_deletion`, `_delete` | the functions of these names.  The first delete is the customer's (no stages), the second the operator's (with stages: `staged`) |
| `InsertOperation`, `RoutedCluster` | the row lock, the state check, the unique index on active operations and the routing trigger that the five later requests share |
| `place_next_pending_operation` | the effect of a placement; which cluster wins is left open |
| `worker_start_stage`, `worker_hold_capacity` | these functions, with the unique index of the reservations |
| `worker_finish_operation` | the outer function, `finish_instance_operation` and the release of the hold, in one transaction |
| `FinishAgain` | the same call on a terminal operation: for a create the outer function writes the instance's state *before* the inner one returns early |

A request whose idempotency key is known, and a refused one, change nothing, so
they are stuttering steps.

### SiteWorker

`EXTENDS ControlPlane` with the workers and the guests.  Each worker has a program
counter and what the process remembers; each database or Proxmox call is a step.

| TLA+ | Code |
| --- | --- |
| `guests[c][v]` | what Proxmox runs on cluster `c` as vmid `v`: for whom it was cloned and its snapshots |
| `proxmox_vmid`, `operation_stages` | the columns of these names |
| `worker[c]` | the local variables of `run`, `processPendingInstanceDeletions` and `processOneStage` |
| `StartRun` .. `EndDeletions` | `processPendingInstanceDeletions`, over the list read at its start |
| `Claim`, `ListOperation`, `EndRun` | the loop of `run` |
| `StartStage`, `NoPendingStage` | `getCurrentStage` and `worker_start_stage` |
| `ReserveCapacity`, `Clone`, `RecordClone`, `TakeSnapshot`, `RollBackGuest`, `ResizeGuest`, `Verify`, `VerifyLater`, `Ready`, `StageThrows` | the branches of `processOneStage` |
| `MarkDone`, `MarkFailed`, `RollBackClone`, `ClearVmid`, `RollbackThrows` | `markStage`, and its `catch` with `rollBackFailedCreate` |
| `CallFinish`, `FinishThrows` | `worker_finish_operation` as each of its three callers sees it: applied, applied without an answer, refused, never arrived |
| `Crash` | the process is killed |

The ten stages of an operation are four here: those that only confirm something are
folded into the next one that changes state, with the union of their outcomes.
`Faults` says what may fail in a configuration and is documented at the head of
the module; every fault is a thing the code has to expect.

**Refinement.**  `SiteSpec` implements `Spec` of ControlPlane: the database alone,
whose functions may be called at any time.  ControlPlane takes exactly one thing
from its callers, that a stage is started or capacity held only for an operation
that is active; the functions do not test it themselves.  That `SiteSpec => Spec`
(checked in `worker_safety`, proved in SiteWorker_proofs) shows that the worker, whose
listing was read one step or a whole crash earlier, keeps it.

### Placement

Stands beside ControlPlane, which leaves open where a create goes: here an
operation is what it asks for, where it is and its stage, and what counts is the
memory of the nodes.

| TLA+ | Code |
| --- | --- |
| `infrastructure_nodes[n]` | the row of a node: the guests the snapshot saw, its age, and the gates as one flag |
| `capacity_reservations` | state and what is left of the 15 minutes |
| `guests`, `AvailableMemory` | what really runs, and what Proxmox says is free |
| `Eligible`, `PostFreeMemory`, `HeldMemory` | the candidates, metrics and rejection reasons of `place_next_pending_operation` |
| `Admitted`, `MemoryFits` | `can_provision_instance`, with the reserve an operator can lower per node (`memory_reserve_ratio`) |
| `place_next_pending_operation` | the oldest create gets any eligible node and a hold, or waits |
| `Preflight`, `HoldForResize`, `CallProxmox`, `Finish`, `Fail` | the stages of a resize, and of a create from its clone on |
| `PublishSnapshot`, `ChangeGate`, `Tick` | `collectClusterSnapshot` with `publish_cluster_snapshot`; operators and measurements; a minute passes |

### Guests, and GuestOwnership

What SiteWorker leaves out: several owners of guests on one cluster.  One run of the
worker is, in this order, deletions, warm pool, sweep, creates; customers and the
operator act between any two of its calls.

| TLA+ | Code |
| --- | --- |
| `guest_at`, `made` | what Proxmox runs on a vmid; guests are numbered, so that a later guest on the same vmid is another guest.  The code knows only vmids |
| `warm_pool_vms`, `findings`, `prompt` | the pool's rows, the orphan findings, and what `operator-cleanup.mjs` has on the screen while it waits for `yes` |
| `StartRun` .. `FinishDelete` | `processPendingInstanceDeletions` |
| `ListPool` .. `BuildThrows` | `maintainWarmPool`, over rows read once at its start |
| `worker_report_orphan_guests` .. `EndReaps` | `reconcileOrphanGuests` |
| `operator_list_orphan_guests`, `operator_approve_orphan_reap`, `operator_dismiss_orphan_guest` | the functions of these names |
| `PickCreate` .. `RollBack` | the create at `proxmox_api_call` (claim, or clone cold) and what becomes of it |

**Refinement.**  `Ownership == INSTANCE GuestOwnership WITH owner <- [g \in GuestIds
|-> OwnerOf(g)], serving <- ..` reads the owner of each guest off the rows that name
its vmid.  GuestOwnership has no vmids: a guest is made, adopted by the pool, taken
by an instance, lost or destroyed, and nobody destroys it while it serves or waits
in the pool.  `OwnedByOne` is its specification.  A vmid named by two rows maps to
`"shared"`, which is no owner there, so the mapping itself fails when a guest
gets two.

Faults: `proxmox_error`, `record_lost`, `answer_lost` (a claim is repeated by the
fetch layer), `crash`, `mark_lost`.

### GuestSetup and Console

GuestSetup is the inside of the stages that SiteWorker folds together, for one
instance, call by call, with the worker killed between any two; Console `EXTENDS` it
with the browser.

| TLA+ | Code |
| --- | --- |
| `guest`, `snippet`, `vault` | the guest's configuration and state, `guildcloud-<vmid>.yaml`, `instance_ssh_password_<id>` |
| `ColdPassword` .. `MarkTemplate`, `WarmPassword`, `WarmExec` | `template_cloud_init` of a create, cold and warm |
| `RestartBegins` .. `RestartGivesUp` | `restartInstanceAfterConfigChange`: what is posted, the wait for the task, and the look at the guest that decides |
| `AttachWarm`, `AttachCold`, `detachVendorSnippet`, `EndAttach` (with `deleteSnippet`), `InstallStarts` .. `InstallExited` | `network_access_attach`, with the path that runs the installer through the agent and polls its pid |
| `rollBackFailedCreate`, `FinishFailed` | the `catch` of a create: guest, snippet and vmid are given up in that order, any call may throw, and the create is finished as failed all the same |
| `NothingToTearDown`, `TearDown`, `TearDownThrows`, `DeleteItsSnippet`, `FinishDelete` | `processPendingInstanceDeletions`; `HalfDestroyed` is what `destroyGuest`, or the same calls of the teardown, leave when they throw |
| `addSshKey`, `removeSshKey`, `mark_org_instances_ssh_dirty`, `ListPendingSync`, `WriteBlock`, `ClearPending`, `SyncFails` | the server actions and `processPendingSshKeySyncs` |
| `GuestStops`, `GuestBoots`, `RebootFails`, `LockReleased`, `DeviceJoins`, `InstallEnds` | Proxmox and the guest, on their own time |
| `Submit`, `Accept`, `Redirect`, `SubmitFails` | `CreateInstanceWizard` and `createInstance`; every submit of one form carries one idempotency key |
| `Render`, `Reload`, `Poll`, `PollAnswered`, `DeletionPoll` | `InstanceDetailPage`, `OperationProgress` and `DeletionProgress`: answers may overtake each other |
| `resizeOrSnapshot`, `deleteInstance`, `revealInstancePassword` | the server actions behind `InstanceActions` and `RevealPasswordButton` |

Faults: `killed_started`, `detach_fails`, `unlink_fails`, `agent_silent`, `keys_race`,
`teardown_fails`, `torn_read`, `acts_again`, `reveal_lost`.

### Tailnet

| TLA+ | Code |
| --- | --- |
| `policy` | what Tailscale holds: the routes and `tagOwners`; one document without a version |
| `request[r]` | a request of `enroll-device`: `RequestEnrollment`, `ReadPolicy`, `ensureMemberTag`, `ensureImmediateInstanceAccess`, `CreateKey`, `UpsertLink`, `RetireKey`; and for a removal `removeMember`, `RevokeKeys`, `DeleteLinks`, `DeleteMembership` |
| `worker[w]` | a run: `getTailnetDesiredState`, `GetPolicy`, `reconcileTailnetAccess`, then `syncInstanceDeviceTags` with `ReadTagOwners` and `ensureTailscaleTagOwners` |
| `housekeeper`, `MoveHousekeeping` | the role, and an operator who moves it while a run holds it |
| `strays` | history: live keys that no link will name any more, by the ways the code is known to lose one |

Faults: `request_fails`, `not_revoked`, `worker_fails`.

### WorkerHost

| TLA+ | Code |
| --- | --- |
| `current`, `state_file`, `worker_env` | the symlink, `.deployed-checksum`, `/etc/guildcloud/worker.env` |
| `Stage`, `Check`, `Switch`, `StartService`, `HealthGate`, `Record`, `roll_back` | `deploy-pull.sh` |
| `Prepare`, `Activate`, `Validate`, `ConfirmHealth`, `Restore` | `cutover-worker.sh` |
| `TimerStarts`, `RunEnds` | `guildcloud-worker.service`; starting a oneshot that runs already waits for that run |
| `Sourced` | the environment the deploy script got from systemd when it started, overlaid by the file as it is when the gate sources it |

A commit may fail its tests, not start, or start and be unhealthy; a minted token may
be good, refused, or unusable.  Faults: `killed_live`, `ssh_lost`.

### Membership and MemberDevices

| TLA+ | Code |
| --- | --- |
| `memberships` | the rows in the order of `created_at`; pending while they name an email, a member's once they name a user |
| `inviteMember`, `updateMemberRole`, `removeMember` | the team card's server actions, under the table's policy `has_org_role` |
| `signUpWithEmail`, `VerifyEmail`, `signInWithEmail`, `signInWithOAuth`, `signOut`, `link_pending_invites` | the auth pages, `/callback`, and the trigger on `auth.users` |
| `AcceptInvitePage`, `accept_invite` | the emailed link, opened with and without a session |
| `ConsoleLayout`, `completeOnboarding` | where a person without a membership is sent, and the organisation made there |
| `requestDeviceEnrollment`, `RegenerateLink`, `LinkExpires` | the link (its steps are in Tailnet) |
| `ConnectDevicePage`, `CurlScript`, `IrmScript`, `enrollmentScript` | the page of the link, the two script routes, and what `enrollment-scripts.ts` does on Linux, macOS and Windows |
| `FollowsAdvice` | the person does what the script's last message says, and nothing else |

Fault: `second_organization`.

### Mistakes

Operators named `X_mistake` (`CreateSettles_unguarded`, `VmidIsFree_unchecked`, ..)
are faulty variants of `X`, each a mistake that could be made in the code `X`
translates.  No specification uses them; each property of a passing run is
violated by one of them put in the place of `X`.

## 3. What is checked

| Run | Configuration | Properties | Distinct states |
| --- | --- | --- | --- |
| `control_plane` | 2 instances, 4 operations, 2 clusters, 2 plans | `TypeOK`, `NoStrandedInstance`, `SnapshotSettled`, `RestorePointReady`, `HeldOnlyWhileActive`, `RoutedToOwner`, `DeletionIsSticky`, `TerminalIsFinal` | 81 378 |
| `worker_safety` | 1 cluster, 2 instances, 3 operations, 2 vmids; failing calls, lost records, marks and answers, crashes | `SiteTypeOK`, `LiveHasGuest`, `SucceededPassedAll`, `DestroysNoLiveGuest`, `Spec` | 318 894 |
| `worker_liveness` | 2 instances, 3 operations, 1 vmid, fairness; without the faults that hide a clone from the worker | `NoOrphanGuest`, `PlacedOperationsEnd` | 302 727 |
| `placement` | 2 nodes of 10 GB, plans of 1 and 6 GB, 3 operations | `TypeOK`, `PlaceableIsAdmitted`, `PlacementFits` | 967 380 |
| `guests` | 2 customers, 2 vmids, 2 guests, a pool of 1; refused calls, lost records and answers, crashes | `TypeOK`, `OwnedByOne`, `ReapsWhatWasApproved`, `StrayIsReported`, `ApprovedIsReaped` | 157 354 |
| `tailnet` | 1 member who is an admin, 1 instance, 2 workers, 2 requests, 3 keys, 3 events; every fault | `TypeOK`, `LinkHasLiveKey`, `KeysAccounted`, `PolicySettles` | 671 876 |
| `worker_host` | 5 commits (2 good), 4 pushes, cutovers or kills | `TypeOK`, `HostWorks`, `GoodCommitGoesLive` | 450 399 |
| `console` | 1 key, 3 operations, 2 submits, 2 polls at a time, 2 kills, key changes or reloads; failing teardown | `TypeOK`, `VmStartable`, `LeftoversFindable`, `RevealedPasswordWorks`, `ResizeTakesEffect`, `PageCatchesUp`, `KeysSettle` | 758 654 |
| `membership` | 2 people, 2 organisations, 3 rows, 2 keys, 3 platforms, 3 events | `TypeOK`, `InviteeGetsIn`, `DeviceConnects` | 38 437 |
| `operator_delete`, `unanswered_finish`, `removed_key` | the smallest instance and the fault that is needed | one property each, violated | (section 4) |

What the properties say:

- `NoStrandedInstance`: a busy instance has the active operation that will settle
  it.  A removed overload of the delete request once broke this in production.
- `SnapshotSettled`, `RestorePointReady`, `HeldOnlyWhileActive`, `RoutedToOwner`:
  rows of different tables agree, whatever the order and number of calls.
- `DeletionIsSticky`, `TerminalIsFinal`: no late or repeated finish revives an
  instance whose delete was accepted, or changes an outcome.
- `LiveHasGuest`: what a customer is shown as usable exists, and is his: the vmid in
  the row is not another instance's guest, and a snapshot shown as finished is there.
- `SucceededPassedAll`: a resumed operation has skipped nothing.
- `DestroysNoLiveGuest`: neither a rollback nor a delete through a remembered vmid
  destroys a guest in use.  The rows of failed deletes and rollbacks keep vmids
  that Proxmox has already given out again; what saves the new owner is the unique
  index on (cluster, vmid), `VmidIsFree`; without it the property fails
  (`VmidIsFree_unchecked`).
- `NoOrphanGuest`: every guest is named by a row that will one day be deleted, as long
  as the worker gets to know of the clones it makes.
- `PlacedOperationsEnd`: an operation that was placed ends.
- `PlacementFits`: a placement leaves 30 % of the node's real memory free, counting
  for each instance the larger of what its guest has and what is held for it,
  although it sees only a snapshot and the holds.  It is claimed for steps at which
  no guest is `Overlooked`.  A guest is overlooked from its finish (or the expiry of
  its hold) to the next snapshot: a window of up to 45 s while the loop runs, during
  which the reserve, and nothing else, absorbs what is given away.  That window is
  in the code (`index.js:2515` says otherwise); the property says that there is no
  other one.
- `PlaceableIsAdmitted`: the console refuses no create that placement would place.
  The converse is false: a node with a lowered reserve, or observations between one
  and five minutes old, admits creates that placement leaves waiting.
- `OwnedByOne`: the refinement of GuestOwnership above.  The claim, the cold clone,
  both teardowns and the reap all act on a vmid that Proxmox gives away again.
- `ReapsWhatWasApproved`: the guest that is reaped is the one the operator was shown,
  not a later one on its vmid, although approval outlives the observation.
- `StrayIsReported`, `ApprovedIsReaped`: an unaccounted guest is put before the
  operator unless they closed a finding on its vmid; an approved one goes.
- `TypeOK` of Guests also says that the pool stays within its target, however runs
  are cut short between a clone and its row.
- `LinkHasLiveKey`: however requests for one link overlap, it never hands out a key
  that is revoked, except while its member is being removed.
- `KeysAccounted`: a live key is named by a link, held by a request, or one of
  `strays`: overtaken by another request for its link, of a deleted instance, or left
  by a failed call.  There is no other way to leave one.
- `PolicySettles`: once grants, members and instances stop changing, the policy comes
  to say what they say, although every writer may have undone another's.
- `HostWorks`: once a release has passed the gate, then whenever neither script is at
  work the live release and `worker.env` work together.
- `GoodCommitGoesLive`: a good commit that stays on `main` goes live and stays,
  although its deploys may be rolled back for the credentials of a cutover under way.
- `VmStartable`: the configuration names no snippet that is gone.
- `LeftoversFindable`: the snippet holds the tailnet key.  It is there for a create that
  is under way, and stays behind, with the guest or without, when a roll-back or a
  teardown throws before it comes to the file: then the row still has the vmid, by which
  the next teardown finds both.  No instance in use has a snippet, and none that is
  gone has left anything.
- `RevealedPasswordWorks`: the stage that makes the password may run several times;
  the one revealed is the one the guest was given.
- `ResizeTakesEffect`: a resize that succeeded was followed by a boot with the new
  configuration.  A wait that ran out is not a failure in this code, and a running
  guest may be one that never went down.
- `PageCatchesUp`: in the end the page shows what is so, though a late answer can
  overwrite a newer one and the page refreshes itself only once.
- `KeysSettle`: a ready guest comes to accept every registered key, and its managed
  block holds no removed one.
- `TypeOK` of Console also says that one form makes one instance and that at most one
  installer runs in the guest; the one of MemberDevices that an organisation keeps
  its one Owner, which no policy of the table sees to.
- `InviteeGetsIn`: a person whose invitation has arrived ends up in the console of the
  organisation that invited them, by whichever of the two paths, unless the invitation
  is withdrawn or expires.
- `DeviceConnects`: a person with a command connects their device, whatever the
  platform and whatever was installed: each exit of the script says what makes the
  next run go further.

**Bounds.**  Instances interact only through vmids, the worker's attention and, in
placement, capacity: two of them show every interaction of two, and the single
vmid of `worker_liveness` makes a clone find none free.  Three operations reach
create, snapshot and restore of one instance, or two creates and a delete whose
vmid is used again; four add an operation after that.  Clusters share no guests,
and a worker touches only its own operations, so one worker is enough for what
`worker_safety` claims; placement by a foreign worker, and two clusters in the
database, are in `control_plane`.  Operations and instances are finite sets of
identifiers, each used once, which bounds every behaviour of these modules.  In
`placement` the plans are chosen so that one of each leaves exactly the reserve: with either forgotten, or one unit miscounted, a placement is wrong.
Three operations are two creates that meet a third, or a resize between two
creates.  Its windows are counted in minutes and shortened to 0, 1 and 1: a
snapshot that is fresh, only admissible, or too old, and a hold that expires, all
occur, and a longer window only repeats them.

In `guests` two vmids of a pool of one are enough for a vmid to be used again by a
guest of another owner while a row, a finding or a prompt still names it; `MaxGuests`
ends the cloning.  In `tailnet` one pair of a member and an instance suffices, since
writers undo each other through the whole document and not through single routes; two
requests and two workers give every overlap of two writers; `MaxKeys` is a link's
key and its regeneration by both requests, `MaxEvents` a grant, its removal and one failure.
In `worker_host` each commit stands for one way to fail, `MaxEvents` for two pushes
with a cutover and a kill.  In `console` three operations are a create, a resize or
snapshot after it, and a delete; two polls are enough for an answer to overtake
another; `MaxEvents` for a kill with a reload or a key added and removed.  In
`membership` three rows are the founder's, an invitation and a second one (or an
organisation the person made), two keys a link and its regeneration.  Deadlock is
checked in every run; Console alone has a step that rests, since a customer may.
`control_plane`, `worker_safety` and `placement` use symmetry; runs of a specification
with fairness do not, since it would not be sound for their temporal properties.

**Fairness.**  In SiteWorker, `Fairness` assumes of each cluster's worker

- `WF_vars(Work(c))`: a run under way goes on, and when it ends the timer starts
  the next one.  Placing, ending a run and crashing are not in `Work`;
- `SF_vars(ListOperation(c, o))` for every operation: the listing is ordered by
  `updated_at`, and every stage that is started or marked touches it, so an
  operation that is listed again and again gets to the head;
- `<>[][~Crash(c)]_vars`: some day the process is no longer killed.

Nothing is assumed of the customer, of placement (`PlacedOperationsEnd` speaks only
of placed operations), or of a failing call: a stage may fail every time.

The other modules assume

- Guests: `WF_vars(Run)`, that kills end, and `SF` of the report and of each reap, a
  call Proxmox does not refuse for ever; nothing of customers and the operator;
- Tailnet: `WF` of every request under way and of every worker's next call, for the
  runtime of the function and the timers; events are bounded, so failures end;
- WorkerHost: `WF` of the deploy script's and the cutover's next command and of the end
  of a run of the worker.  That the worker's timer ever fires is not needed;
- Console: `WF` of the worker's next call, of Proxmox and the guest, of `Render`,
  `Poll`, `PollAnswered` and `DeletionPoll` (timers and answers of the browser), and of
  the marking call of a key change.  Giving up a wait is not assumed;
- MemberDevices: an invited person follows the invitation, finishes signing in and
  opens the emailed link again once signed in; the owner of a device runs the command,
  does what the script says and runs it again; an operation on the instance ends.
  That the link is opened again is needed (section 4).

## 4. Where the code does not do what its documents say

Each is a run that TLC finds violated, with the trace a reader can replay.

1. **`operator_delete`.**  `request_instance_delete`
   (`20260902100000_add_platform_operator_cleanup.sql:208`) gives its operation the
   stages of a create.  When the request comes while a run is past its deletion
   pass, the loop lists it, finds no branch for `instance.delete` and clones a
   second guest, whose vmid replaces the first one's.  The real guest runs on,
   named by no row.  `20260829170000_fix_delete_reprovisioning.sql` removed exactly
   this from the customer's delete.  No fault is needed.
2. **`unanswered_finish`.**  The finish of the stage `ready` is inside the `try` of
   `processOneStage` (`index.js:2310`).  If it is applied but none of five attempts
   is answered, the `catch` rolls back a create that is `ready`.  The comment at
   `index.js:1425` argues that a rolled back instance was never reachable.
3. **`removed_key`.**  A removed SSH key leaves the managed block of a ready guest's
   `authorized_keys` (`index.js:816`), and only that.  The keys of the create are
   written outside the block, by cloud-init (`index.js:1887`) or by the warm path
   (`index.js:1740`), and go on working.  `settings/actions.ts:218` says a removed key
   must stop working on instances that already run.
Further disagreements, known and kept as hazards without a run of their own:

- A failing stage is marked `failed` and its operation finished in two calls.  If the
  second is lost (fault `failure_lost`), the next cycle passes over the failed stage
  (`index.js:1473` looks for `pending` or `active`) and may finish the operation as
  succeeded, after its guest was rolled back.
- `automated_verification` bounds the wait for the guest agent, not the one for port
  22 (`index.js:2263`), although the comment at `index.js:2205` calls it bounded.
- The form of an invitation says (`accept-invite-form.tsx:65-69`) that a person with an
  account has only to sign in.  `signInWithEmail` links nothing: only the trigger on a
  *new* account and the link opened *while signed in* do, so the person is asked to
  create an organisation.
- A resize checks memory in `preflight` and holds it in `capacity_reservation`, in
  another iteration of the loop (`index.js:1557`): the last slot can be taken between.
- A guest is reaped, and the call that marks it so fails (`index.js:1197`): the approval
  stays, and the next run reaps whatever has the vmid by then.
- A roll-back that throws (`getInstance`, the token, `destroyGuest` at `index.js:1445`)
  is only logged (`index.js:2320`) and the create is finished as failed, with guest and
  snippet in place, where `docs/PROJECT_STATUS.md:378` has it that the worker destroys
  the clone, deletes its snippet and clears `proxmox_vmid` before finalizing a failed
  create.  The comment at `index.js:1453` has the truth of it, that the vmid stays and
  the guest is findable, which is `LeftoversFindable`; somebody has to delete the
  instance for it to be found.

**Faults the passing runs leave out**, and what each of them breaks:

| Fault | Module | Breaks |
| --- | --- | --- |
| `gives_up` outside `worker_liveness` | SiteWorker | `LiveHasGuest`, `DestroysNoLiveGuest` (finding 2) |
| `failure_lost`, `handler_crash` | SiteWorker | `LiveHasGuest`, `SucceededPassedAll`: a failed stage is passed over |
| `ssh_wait` in `worker_liveness` | SiteWorker | `PlacedOperationsEnd`: the wait for port 22 has no end |
| `mark_lost` | Guests | `ReapsWhatWasApproved`, `OwnedByOne` |
| `killed_live` | WorkerHost | `HostWorks`: the next deploy takes the unchecked release for the good one |
| `ssh_lost` | WorkerHost | `HostWorks`: the new file stays unproven |
| `killed_started` | GuestSetup | `RevealedPasswordWorks`: the guest booted with the first password, the vault has the second |
| `detach_fails` | GuestSetup | `VmStartable`: the failure is only logged and the snippet deleted all the same |
| `unlink_fails` | GuestSetup | `LeftoversFindable`: `deleteSnippet` only logs an error other than `ENOENT` (`index.js:587`), so the file stays for an instance in use, or after the row has forgotten its vmid |
| `agent_silent` | GuestSetup | `TypeOK` of Console: a second installer beside the first |
| `keys_race` | GuestSetup | `KeysSettle`: the mark of a change is cleared by the sync of the one before |
| `torn_read`, `acts_again` | Console | `PageCatchesUp`: a render shows a busy instance with an operation at its end, which nothing polls any more; a page that has refreshed itself once does not again |
| `second_organization` | Membership | `InviteeGetsIn`: `getCurrentUserOrg` shows the older organisation |

Each row is reproduced by adding the fault to the `Faults` of the run's `.cfg`.
`reveal_lost` breaks no stated property: the password is gone from the vault and nobody
has seen it, which is what showing it once costs.

## 5. What is proved

Every safety property of section 3 is a theorem: it holds for any sets of instances,
operations, vmids, people and so on, and any bounds, not only those of the runs.  Where
section 4 lists a fault that breaks a property, its theorem assumes that the fault is
not in `Faults`, and nothing else is assumed of failures: all others may happen at any
step, any number of times.

| Module | Theorem | Statement | Assuming |
| --- | --- | --- | --- |
| ControlPlane_proofs | `TypeCorrect` | `Spec => []TypeOK` | |
| | `NeverStranded` | `Spec => []NoStrandedInstance` | |
| | `SnapshotsSettle` | `Spec => []SnapshotSettled` | |
| | `RestoresHaveAPoint` | `Spec => []RestorePointReady` | |
| | `HoldsAreReleased` | `Spec => []HeldOnlyWhileActive` | |
| | `OperationsAreRouted` | `Spec => []RoutedToOwner` | |
| | `DeletionSticks` | `Spec => DeletionIsSticky` | |
| | `TerminalStays` | `Spec => TerminalIsFinal` | |
| SiteWorker_proofs | `SiteTypeCorrect` | `SiteSpec => []SiteTypeOK` | |
| | `SitesImplementControlPlane` | `SiteSpec => Spec` (refinement) | |
| | `SitesNeverStrand` | `SiteSpec => []NoStrandedInstance` | |
| | `SuccessIsComplete` | `SiteSpec => []SucceededPassedAll` | `FailuresAreTold` |
| | `LiveAlwaysHasGuest` | `SiteSpec => []LiveHasGuest` | `FailuresAreTold` |
| | `LiveGuestsAreSpared` | `SiteSpec => DestroysNoLiveGuest` | `FailuresAreTold` |
| | `NoGuestIsForgotten` | `SiteSpec => []NoOrphanGuest` | `FailuresAreTold`, `ClonesAreKnown` |
| Placement_proofs | `TypeCorrect` | `Spec => []TypeOK` | |
| | `PlaceableAlwaysAdmitted` | `Spec => []PlaceableIsAdmitted` | |
| | `PlacementAlwaysFits` | `Spec => PlacementFits` | |
| Guests_proofs | `TypeCorrect` | `Spec => []TypeOK` | |
| | `ReapedWasApproved` | `Spec => ReapsWhatWasApproved` | `MarksArrive` |
| | `GuestsAreOwnedByOne` | `Spec => OwnedByOne` (refinement) | `MarksArrive` |
| | `OwnedMeansServed` | `Ownership!Spec => []Ownership!ServedByOneGuest` | |
| | `ServedByOne` | `Spec => []Ownership!ServedByOneGuest` | `MarksArrive` |
| Tailnet_proofs | `TypeCorrect` | `Spec => []TypeOK` | |
| | `LinkAlwaysLive` | `Spec => []LinkHasLiveKey` | |
| | `KeysAlwaysAccounted` | `Spec => []KeysAccounted` | |
| WorkerHost_proofs | `TypeCorrect` | `Spec => []TypeOK` | |
| | `HostAlwaysWorks` | `Spec => []HostWorks` | no `killed_live`, no `ssh_lost` |
| Console_proofs | `TypeCorrect` | `Spec => []TypeOK` | no `agent_silent` |
| | `AlwaysStartable` | `Spec => []VmStartable` | no `detach_fails` |
| | `LeftoversAlwaysFindable` | `Spec => []LeftoversFindable` | no `unlink_fails` |
| | `RevealedAlwaysWorks` | `Spec => []RevealedPasswordWorks` | no `killed_started` |
| | `ResizeAlwaysTakesEffect` | `Spec => []ResizeTakesEffect` | |
| Membership_proofs | `TypeCorrect` | `Spec => []TypeOK` of MemberDevices | |

- `FailuresAreTold`: none of `failure_lost`, `handler_crash` and `gives_up`.  A stage that
  failed is then followed by the failure of its operation in the same run, and a finish
  that was applied is not taken for one that was not.
- `ClonesAreKnown`: none of `task_unseen`, `record_lost`, `mark_lost` and `clone_crash`,
  and no operator's delete: the worker gets to know of each clone it makes, and makes
  one for a create only.
- `MarksArrive`: no `mark_lost`.

Two of these are narrower than what the runs check, and the runs stand for the
difference.  `NoGuestIsForgotten` excludes `gives_up`, which `worker_liveness` has: its
proof goes by way of `LiveHasGuest`, which `gives_up` breaks although `NoOrphanGuest`
survives it.  `PlacementAlwaysFits` is, like the property, about the moments at which no
guest is overlooked.

**Assumptions on constants.**  Nulls are not identifiers, and names that stand for a
state (`"revoked"`, `"nobody"`) are not names of people or instances; bounds are
numbers; vmids are numbers and finitely many (a run takes the lowest free one); the
upgrades are between plans, and the kinds of requests those the pages offer; those
with an admin's role are members, and there is an instance.  Placement also takes
from the code that a node's `memory_reserve_ratio` only lowers the 30 percent, that
placement asks for fresher observations than the console, and that there are
finitely many operations.  All are `ASSUME`s of the modules that declare the constants,
and TLC evaluates them in the runs.

**The arguments.**  No property of section 3 is inductive as it stands.

*ControlPlane.*  `IInv` adds to the five invariants

- `OneActive`: an instance has at most one active operation.  Without it a finish
  could settle an instance that a second operation still holds busy;
- `ActiveHasInstance`, `UnusedHasNoInstance`, `RefersToRow`: an active operation
  has an instance, an unused id has none, and what operations refer to was
  inserted; a deletion sets the references of the *other* operations to null,
  which is harmless only because none of them is active;
- `PlacedUnlessProvisioning`, `UnplacedHasOnlyCreate`, `OneCreate`: an instance
  without a cluster has only its create, so every later operation is inserted with
  a cluster, and a placement moves no operation but its own;
- `FailedDeleteIsOver`: an instance in `delete_failed` has no active operation, so
  that no finish can take it out of that state;
- `RestoreHasSnapshot`: a restore names a snapshot.

`InsertKeepsIInv` treats the five requests that share `InsertOperation` at once;
then there is one lemma per action, with one step per conjunct it can disturb.
The two action properties follow from the invariant and the effect of each action.

*SiteWorker.*  The refinement needs `SiteTypes`, which says at each program counter
whether the worker is inside a deletion, and that the operation it has listed is
active, on its own cluster: between the listing and `StartStage` nobody else can end
it, since finishes of this cluster are this worker's.  With the refinement all of
`IInv` holds of a site, and three invariants build on it:

- `StageInv`: what a run remembers of its stage agrees with the tables, stages are done
  in order, and a failed stage of an operation that goes on is being handled by the run
  that failed it (`FailedIsHandled`).  That gives `SucceededPassedAll`;
- `TableInv`: from the kind and state of an operation follows the state of its
  instance, while it is under way and after;
- `GuestInv`: a vmid is in one row of a cluster (`VmidsDistinct`), what is listed for
  deletion is `deleting` or `delete_failed` for good, what was just cloned is there, and the
  call of a stage that went past it was carried out (`CallHolds`).  So a destroy through
  a remembered vmid reaches no guest in use, whose row names another vmid.

`NoOrphanGuest` needs moreover `OrphanInv`: no delete goes through the stages, an instance
has no vmid until its create has cloned (`ClonesOnce`), and a vmid is cleared or a
row removed only after the guest is destroyed (`DestroysFirst`).

*Placement.*  A sum over a set is a recursive fold, so the module first proves what a
sum of a finite set is: a function that satisfies the recursion exists (`SumsExist`,
from the cardinality of its arguments) and is unique at finite sets
(`SumsAreUnique`), so the choice the community module makes is one
(`SumsAgree`).  From there induction over the subsets of a finite set (`SetInduction`:
a set of subsets that has the smallest and is closed under adding an element has them
all) gives that sums add, compare and split (`SumTakesOff`, `SumsCompare`, `SumOfParts`,
`SumOfGroups`).  The invariant is `PlaceInv`: an unplaced create is on no node, holds
nothing and has no guest; an operation works on the node of its instance
(`WorksWhereItIs`); what waits, waits once.  For `PlacementFits`, the holds for the
instances of a node are, by `WorksWhereItIs`, holds on that node and each counted
once, so what the node owes is at most what the snapshot saw plus what is held plus
what is placed, and `Eligible` bounds that.

*Guests.*  `GuestsInv` has the pool's bound, with what a run is about to build
(`PoolBounded`); that no two instances name one vmid, that what waits in the pool runs and
no instance names it, and that an instance names a guest that is gone only while it is
being deleted, before the run clones anything (`RowsInv`); what each part of a run knows of
the rows it works on (`RunInv`); and that what a finding says of a guest stays true until
it is reaped, for nothing else touches a guest that nobody names (`FindingsTrue`).
The last is where `mark_lost` matters.  The refinement then maps every action to a step
of GuestOwnership or to none.  Of GuestOwnership itself `OwnersInv` adds that *no* instance ever
has two guests: without it a second guest could already be there when an instance starts
to serve.

*Tailnet.*  No two links name one key and what a link names was made for its member;
the key a request is about to store is live and nobody else's; what a request is about
to revoke is named by no link but its own, and by none once it was replaced.  The order
of `UpsertLink` and `RetireKey` is what makes this inductive.

*WorkerHost.*  `FallBack` is the release a rollback would lead to, or the live one when
none is to come: once any has passed the gate, this one has (`FallBackIsProven`), though
a cutover judges meanwhile; and the environment in use works unless a cutover is
about to judge or restore it (`EnvWorks`).

*Console.*  `SetupInv` says at each program point of the worker what the guest's
configuration, its snippet, the vault and the instance's row are to each other: the
snippet is there whenever the configuration names it, and otherwise only while a create
may need it or a roll-back or teardown has not come to it (`SnippetKept`), a guest that
exists is the row's (`GuestNamed`), a cold guest stays off until the password of the
attempt under way is the one it will get (`ColdIsOff`), every attempt but the first followed a kill
(`TriesCounted`), a guest booted since the restart was posted runs what it was given
(`RestartConfirmed`).  A conjunct that a fault breaks has its absence as a premise, so one
induction serves all five theorems.

*Membership.*  A row is of an organisation that exists or is gone; a person without an account
has no membership, so that their invitations can all become memberships at
once, and each organisation has sent them one (`InvitedOnce`); an organisation has
one Owner (`OneOwner`) and a person once (`MemberOnce`).

TLC finds each of these invariants to hold in the run of its module too, on the states
counted in section 3 (`OrphanInv` in `worker_liveness` without `gives_up`): an invariant
was tried there before it was proved, and can be again when the model changes, with a
module that extends both the MC module and the one of the proofs.

## 6. Limits

**Only model-checked:** liveness, which is out of the prover's reach:
`PlacedOperationsEnd`, `StrayIsReported`, `ApprovedIsReaped`, `PolicySettles`,
`GoodCommitGoesLive`, `PageCatchesUp`, `KeysSettle`, `InviteeGetsIn` and
`DeviceConnects`.  Then what is broken, in section 4; and `NoOrphanGuest` with `gives_up`.

**Not modelled**, inside the parts that are:

- Time in ControlPlane and SiteWorker.  Timeouts are faults that may happen, the
  time budget is `EndRun` (that it starts before the deletions and the warm pool,
  `index.js:2504`, and may be used up by them in every run is left out by the fairness
  of the loop); the expiry of a hold and the age of a snapshot are in
  Placement.
- In Placement: vCPUs and storage, which can only refuse more; the score, so that
  any eligible node may be taken; the placement modes; the site-wide gate on the
  snippets store; guests of the warm pool and foreign load on a node.
  `placement-policy.js` is not modelled: only its own tests use it.
- In SiteWorker, how a guest is configured, joined to the tailnet and verified, step
  by step: a stage that throws or waits anywhere inside is the same stage that throws
  or waits.  GuestSetup has those steps, for one instance.
- The Tailscale half of a deletion, except that it may fail after the guest is
  destroyed.
- `stopped` instances (no function produces the state), the service-role path that
  the RPC boundary replaced, audit rows and messages.
- An operation that is neither a create nor listed in `Kinds`: none is requested.
- In Guests: guests outside the pool's boundary, templates, and whether image and plan
  of a create match the pool.  The code has gaps that no property covers: the row of
  an earlier guest hides a new one on its vmid from the sweep (a `claimed` or `failed`
  pool row is never deleted), a closed finding hides later orphans on its vmid, an
  approval carries over to the next guest when an operator removed the first by hand,
  a `delete_failed` row goes on naming a vmid that is free, a repeated or interrupted
  warm claim leaks a guest, and so does an expired one whose DELETE fails.
- In Tailnet: tenant tags and tenant ACLs (a change of those alone is not posted,
  `index.js:913`), the flag of a project whose ACL is applied, the vault's
  copy of a key, device records (`enroll-device` deletes what
  `syncMemberDeviceEnrollment` never finds, since it looks for a hostname no script
  gives), repeated posts of the policy by the fetch layer, and
  `reconcile-enrollment-keys.mjs`.
- In WorkerHost: old release directories, and attempts repeated within one gate.  A
  commit that fails its gate is staged again every two minutes for as long as it is on
  `main`; a restart of the timer that fails (`cutover-worker.sh:144`) is the fault
  `ssh_lost`.
- In Membership and MemberDevices: projects, access grants and the audit log, which
  records a removal that the policy refused; expiry, which `link_pending_invites` does
  not look at, is modelled so; two onboarding tabs of one person; more than one device
  of a person; a client installed where the PowerShell script does not look for it
  (`enrollment-scripts.ts:160` then ends without advice: an installer that fails ends the
  same way, and is `InstallFails`).  `removeMember` goes on when `enroll-device` refuses, which Tailnet has.
- In Console: other tabs, lists, monitoring, the landing and the operator's pages.
- Health probes and `publishSnapshot`'s errors, the legacy worker and the backup probe.

**A property that does not hold, and is not claimed:** that an instance's state is
written only by the end of the operation that holds it.  A repeated finish of a
create (`FinishAgain`) sets `ready` or `failed` although a later operation is under
way; `NoStrandedInstance` and `DeletionIsSticky` say what it cannot break.

## 7. Plan

Done: ControlPlane; SiteWorker, composed with it; Placement, for memory; Guests with
its abstract GuestOwnership; Tailnet; WorkerHost; GuestSetup with Console; Membership with
MemberDevices; a theorem for each of their safety properties.  To come:

1. `NoOrphanGuest` with `gives_up`: an invariant of its own for what an unanswered
   finish leaves, which does not go by way of `LiveHasGuest`.
2. A run of SiteWorker with two clusters, in which the housekeeper lists deletions
   without a vmid of the other one (`index.js:687`).
3. Placement: storage, which nodes share, and the pool's guests.
4. What an operator sees of the cleanup path: `operator-cleanup.mjs` beyond orphans.
5. The safety half of the liveness properties, as theorems: what each wait waits for
   can still come (that a listed operation has an open stage, that a shown page has a
   poll or a refresh to come).
