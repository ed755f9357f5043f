---------------------------- MODULE GuestSetup ----------------------------
(***************************************************************************)
(* What a worker does inside and around the guest of one instance: the     *)
(* stages of an operation after the guest is cloned, the synchronisation   *)
(* of the organisation's SSH keys, and the teardown.  Each stage is a      *)
(* sequence of calls, and the worker may be killed between any two; the    *)
(* next run does the stage again from its first call.                      *)
(*                                                                         *)
(* Simplifications, and why each is sound:                                 *)
(*  - The stages up to the clone, the loop that picks a stage and the      *)
(*    death of a worker that is failing an operation are in SiteWorker.    *)
(*  - Time is left out: what waits for NETWORK_ATTACH_EXEC_MAX_MS or for   *)
(*    the budget of a restart waits any number of times and then gives up. *)
(*    A retry that finds nothing new is a stuttering step.                 *)
(*  - markStage is one with the last call of a stage that can be repeated  *)
(*    without anyone noticing; where repeating shows, it is a step.        *)
(*  - A password is the number of the attempt that made it.                *)
(*  - A destruction that outruns its wait is over, or has come to nothing, *)
(*    before anyone looks at the guest again.                              *)
(*                                                                         *)
(* Faults names what may go wrong besides calls that fail and workers that *)
(* are killed:                                                             *)
(*   killed_started  the worker is killed, or markStage is not answered,   *)
(*                   after a cold guest is started and before that is      *)
(*                   recorded                                              *)
(*   detach_fails    detachVendorSnippet fails, which is only logged       *)
(*   unlink_fails    deleteSnippet fails, which is only logged             *)
(*   agent_silent    the guest agent does not answer while an installation *)
(*                   it started is running                                 *)
(*   keys_race       SSH keys change while they are copied to the guest or *)
(*                   while an operation runs                               *)
(*   teardown_fails  the teardown of an instance fails                     *)
(***************************************************************************)
EXTENDS Naturals, FiniteSets

CONSTANTS
    KeyIds,         \* SSH keys an organisation may register
    Kinds,          \* the operations a customer may ask for: "resize", "snapshot"
    MaxOperations,  \* operations in a behaviour, the create included
    MaxEvents,      \* kills, key changes and reloads in a behaviour
    Faults

ASSUME BoundsArePositive == MaxOperations \in Nat \ {0} /\ MaxEvents \in Nat
ASSUME KindsAreOffered == Kinds \subseteq {"resize", "snapshot"}

VARIABLES
    ssh_keys,     \* the organisation's
    console,      \* a server action that has changed a key and not yet marked
    instance,     \* the row; vmid: it names a guest
    vault,        \* instance_ssh_password_<id>, 0 when there is none
    operation,    \* the instance's latest
    guest,        \* in Proxmox
    snippet,      \* guildcloud-<vmid>.yaml is in the snippets store
    worker,       \* a run of the site worker, and what it holds in memory
    tries,        \* passwords made
    events

guestVars ==
    <<ssh_keys, console, instance, vault, operation, guest, snippet, worker, tries, events>>

-----------------------------------------------------------------------------
InstanceStates ==
    {"none", "provisioning", "ready", "busy", "degraded", "failed",
     "deleting", "delete_failed", "gone"}

Stages == {"clone", "template_cloud_init", "network_access_attach", "automated_verification",
           "ready"}

ProgramPoints ==
    {"idle", "cold_snippet", "cold_config", "cold_start", "cold_mark", "warm_exec", "warm_mark",
     "look", "await",
     "confirm", "detach", "unlink", "roll_back", "clean", "fail", "torn_down",
     "absent", "sync_write", "sync_clear"}

Passwords == 0 .. (MaxEvents + 1)

(* `applied': the guest runs with the configuration Proxmox has.  `fresh': *)
(* it was booted since the worker last posted a reboot or a start.         *)
(* `installs': installations of tailscale that the operation under way has *)
(* started and that still run.                                             *)
NoGuest ==
    [exists |-> FALSE, running |-> FALSE, booted |-> FALSE, vendor |-> FALSE,
     cipassword |-> 0, cikeys |-> {}, password |-> 0, image_keys |-> {}, block |-> {},
     locked |-> FALSE, task |-> "none", applied |-> TRUE, fresh |-> FALSE,
     device |-> FALSE, installs |-> 0]

NoOperation ==
    [id |-> 0, kind |-> "none", state |-> "none", stage |-> "clone", warm |-> FALSE,
     exec_pid |-> "none", ends |-> [o \in 1 .. MaxOperations |-> "none"]]

Idle == [at |-> "idle", listed |-> {}]

Init ==
    /\ ssh_keys \in SUBSET KeyIds
    /\ console = "idle"
    /\ instance = [state |-> "none", password |-> FALSE, private_ip |-> FALSE,
                   sync_pending |-> FALSE, vmid |-> FALSE]
    /\ vault = 0
    /\ operation = NoOperation
    /\ guest = NoGuest
    /\ snippet = FALSE
    /\ worker = Idle
    /\ tries = 0
    /\ events = 0

-----------------------------------------------------------------------------
Event == events < MaxEvents /\ events' = events + 1

(* TRUE stands for the fault happening. *)
MayHappen(fault) == IF fault \in Faults THEN BOOLEAN ELSE {FALSE}

At(p) == worker.at = p
GoTo(p) == worker' = [worker EXCEPT !.at = p]

(* What proxmox_api_call recorded of a create, which its later stages go by. *)
isFromWarmPool == operation.warm

(* A command that the guest agent was given ends in time, with exit code 0. *)
GuestAnswers == guest.running

(* The worker takes up a stage of an operation that is running. *)
Starts(stage) == At("idle") /\ operation.state = "running" /\ operation.stage = stage

NextStage ==
    CASE operation.stage = "clone" -> "template_cloud_init"
      [] operation.stage = "template_cloud_init" -> "network_access_attach"
      [] operation.stage = "network_access_attach" -> "automated_verification"
      [] operation.stage = "automated_verification" -> "ready"

(* markStage(done). *)
markStage ==
    /\ operation' = [operation EXCEPT !.stage = NextStage, !.exec_pid = "none"]
    /\ worker' = Idle

(* A call of a stage fails, or a wait has lasted too long. *)
StageFails == GoTo(IF operation.kind = "create" THEN "roll_back" ELSE "fail")

-----------------------------------------------------------------------------
(* What customers ask for.  `ends' remembers how earlier operations ended.  *)
AskFor(kind, state) ==
    /\ operation' = [NoOperation EXCEPT
           !.id = operation.id + 1, !.kind = kind, !.state = "running",
           !.stage = "template_cloud_init",
           !.ends = [operation.ends EXCEPT ![operation.id] = operation.state]]
    /\ instance' = [instance EXCEPT !.state = state]

request_instance_create(password_enabled) ==
    /\ instance.state = "none"
    /\ operation' = [NoOperation EXCEPT !.id = 1, !.kind = "create", !.state = "running"]
    /\ instance' = [instance EXCEPT !.state = "provisioning", !.password = password_enabled]
    /\ UNCHANGED guest

(* A resize has changed the configuration and grown the disk, which may     *)
(* leave the guest locked, before template_cloud_init.                      *)
request_instance_operation(kind) ==
    /\ instance.state \in {"ready", "degraded"} /\ operation.id < MaxOperations
    /\ console = "idle" \/ "keys_race" \in Faults
    /\ AskFor(kind, "busy")
    /\ \E locked \in BOOLEAN :
          guest' = IF kind = "resize"
                   THEN [guest EXCEPT !.applied = FALSE, !.locked = locked, !.installs = 0]
                   ELSE [guest EXCEPT !.installs = 0]

request_instance_deletion ==
    /\ instance.state \in {"ready", "degraded", "failed", "delete_failed"}
    /\ operation.id < MaxOperations
    /\ AskFor("delete", "deleting")
    /\ UNCHANGED guest

(* addSshKey and removeSshKey: one call changes the table, the next marks  *)
(* the instances.                                                          *)
MayChangeKeys ==
    /\ console = "idle"
    /\ \/ "keys_race" \in Faults
       \/ instance.state = "ready" /\ ~At("sync_write") /\ ~At("sync_clear")

addSshKey(k) ==
    /\ MayChangeKeys /\ k \notin ssh_keys
    /\ ssh_keys' = ssh_keys \cup {k}
    /\ console' = "mark"
    /\ Event
    /\ UNCHANGED instance

removeSshKey(k) ==
    /\ MayChangeKeys /\ k \in ssh_keys
    /\ ssh_keys' = ssh_keys \ {k}
    /\ console' = "mark"
    /\ Event
    /\ UNCHANGED instance

mark_org_instances_ssh_dirty ==
    /\ console = "mark"
    /\ instance' = [instance EXCEPT !.sync_pending = @ \/ instance.state = "ready"]
    /\ console' = "idle"
    /\ UNCHANGED <<ssh_keys, events>>

-----------------------------------------------------------------------------
(* Proxmox, the guest and the tailnet. *)

(* A start validates every cicustom volume. *)
Boots(g) == g.vendor => snippet

Booted ==
    [guest EXCEPT !.running = TRUE, !.applied = TRUE, !.fresh = TRUE, !.task = "none",
        !.booted = TRUE,
        !.password = IF guest.booted THEN @ ELSE guest.cipassword,
        !.image_keys = IF guest.booted THEN @ ELSE guest.cikeys]

GuestStops ==
    /\ guest.task = "reboot" /\ guest.running
    /\ guest' = [guest EXCEPT !.running = FALSE, !.installs = 0]

GuestBoots ==
    /\ \/ guest.task = "start"
       \/ guest.task = "reboot" /\ ~guest.running
    /\ guest' = IF Boots(guest) THEN Booted ELSE [guest EXCEPT !.task = "failed"]

RebootFails == guest.task = "reboot" /\ guest.running /\ guest' = [guest EXCEPT !.task = "failed"]

LockReleased == guest.locked /\ guest' = [guest EXCEPT !.locked = FALSE]

DeviceJoins ==
    /\ guest.running /\ ~guest.device /\ operation.kind = "create"
    /\ guest' = [guest EXCEPT !.device = TRUE]

InstallEnds == guest.installs > 0 /\ guest' = [guest EXCEPT !.installs = @ - 1]

Environment ==
    /\ GuestStops \/ GuestBoots \/ RebootFails \/ LockReleased \/ DeviceJoins \/ InstallEnds
    /\ UNCHANGED <<ssh_keys, console, instance, vault, operation, snippet, worker, tries, events>>

-----------------------------------------------------------------------------
(* The stages before this module's: the guest is cloned cold, or a warm one *)
(* is claimed, which runs, is on the tailnet and still names the snippet it *)
(* was built with.  Its row in the pool may lack an address.                *)
Clone ==
    /\ Starts("clone")
    /\ \E warm \in BOOLEAN :
          /\ guest' = [NoGuest EXCEPT !.exists = TRUE, !.running = warm, !.booted = warm,
                                      !.vendor = warm, !.device = warm]
          /\ snippet' = warm
          /\ operation' = [operation EXCEPT !.warm = warm, !.stage = NextStage]
    /\ instance' = [instance EXCEPT !.vmid = TRUE]
    /\ UNCHANGED <<vault, worker, tries>>

(* template_cloud_init of a create: a new password each time it is done.   *)
SetPassword_once ==
    /\ tries' = tries + 1
    /\ vault' = IF instance.password /\ vault = 0 THEN tries + 1 ELSE vault

SetPassword ==
    /\ tries' = tries + 1
    /\ vault' = IF instance.password THEN tries + 1 ELSE vault

ColdPassword ==
    /\ Starts("template_cloud_init") /\ operation.kind = "create" /\ ~isFromWarmPool
    /\ SetPassword
    /\ worker' = [at |-> "cold_snippet", listed |-> ssh_keys]
    /\ UNCHANGED <<instance, operation, guest, snippet>>

writeSnippet ==
    /\ At("cold_snippet")
    /\ snippet' = TRUE
    /\ GoTo("cold_config")
    /\ UNCHANGED <<instance, vault, operation, guest, tries>>

PutConfig ==
    /\ At("cold_config")
    /\ guest' = [guest EXCEPT !.vendor = TRUE, !.cipassword = tries, !.cikeys = worker.listed]
    /\ GoTo("cold_start")
    /\ UNCHANGED <<instance, vault, operation, snippet, tries>>

(* A guest that is already running is taken as started. *)
StartCold ==
    /\ At("cold_start")
    /\ guest.running \/ Boots(guest)
    /\ guest' = IF guest.running THEN guest ELSE Booted
    /\ GoTo("cold_mark")
    /\ UNCHANGED <<instance, vault, operation, snippet, tries>>

MarkTemplate ==
    /\ At("cold_mark") \/ At("warm_mark")
    /\ markStage
    /\ UNCHANGED <<instance, vault, guest, snippet, tries>>

WarmPassword ==
    /\ Starts("template_cloud_init") /\ operation.kind = "create" /\ isFromWarmPool
    /\ SetPassword
    /\ worker' = [at |-> "warm_exec", listed |-> ssh_keys]
    /\ UNCHANGED <<instance, operation, guest, snippet>>

(* The whole of authorized_keys is written. *)
WarmExec ==
    /\ At("warm_exec")
    /\ guest' = [guest EXCEPT !.image_keys = worker.listed, !.block = {},
                              !.password = IF instance.password THEN tries ELSE @]
    /\ GoTo("warm_mark")
    /\ UNCHANGED <<instance, vault, operation, snippet, tries>>

SnapshotInit ==
    /\ Starts("template_cloud_init") /\ operation.kind = "snapshot"
    /\ markStage
    /\ UNCHANGED <<instance, vault, guest, snippet, tries>>

-----------------------------------------------------------------------------
(* template_cloud_init of a resize: restartInstanceAfterConfigChange.      *)
RestartBegins ==
    /\ Starts("template_cloud_init") /\ operation.kind = "resize"
    /\ GoTo("look")
    /\ UNCHANGED <<instance, vault, operation, guest, snippet, tries>>

(* What is posted depends on what runs; a held lock is waited out.         *)
PostRestart ==
    /\ At("look") /\ ~guest.locked
    /\ guest' = [guest EXCEPT !.task = IF guest.running THEN "reboot" ELSE "start",
                              !.fresh = FALSE]
    /\ GoTo("await")
    /\ UNCHANGED <<instance, vault, operation, snippet, tries>>

(* The wait for the task ends with the task, or outruns its time, which    *)
(* proves nothing: both go on to what the guest's state says.              *)
AwaitRestart ==
    /\ At("await") /\ guest.task # "failed"
    /\ GoTo("confirm")
    /\ UNCHANGED <<instance, vault, operation, guest, snippet, tries>>

RestartFailed ==
    /\ At("await") /\ guest.task = "failed"
    /\ guest' = [guest EXCEPT !.task = "none"]
    /\ StageFails
    /\ UNCHANGED <<instance, vault, operation, snippet, tries>>

CameBack_running == guest.running
CameBack == guest.running /\ guest.fresh

ConfirmRestart ==
    /\ At("confirm") /\ CameBack
    /\ markStage
    /\ UNCHANGED <<instance, vault, guest, snippet, tries>>

(* Stopped and not locked while it is waited for: it is started.           *)
StartStopped ==
    /\ At("confirm") /\ ~guest.running /\ ~guest.locked /\ guest.task # "start"
    /\ guest' = [guest EXCEPT !.task = "start"]
    /\ GoTo("await")
    /\ UNCHANGED <<instance, vault, operation, snippet, tries>>

RestartGivesUp ==
    /\ \/ At("look") /\ guest.locked
       \/ At("confirm") /\ ~CameBack
    /\ StageFails
    /\ UNCHANGED <<instance, vault, operation, guest, snippet, tries>>

-----------------------------------------------------------------------------
(* network_access_attach. *)

(* The instance has its address: nothing to attach. *)
HasAddress ==
    /\ Starts("network_access_attach") /\ operation.kind # "create" /\ instance.private_ip
    /\ markStage
    /\ UNCHANGED <<instance, vault, guest, snippet, tries>>

(* Warm: the device is retagged and the pool's address taken over, if it    *)
(* has one.                                                                *)
AttachWarm ==
    /\ Starts("network_access_attach") /\ operation.kind = "create" /\ isFromWarmPool
    /\ \E address \in BOOLEAN : instance' = [instance EXCEPT !.private_ip = address]
    /\ GoTo("detach")
    /\ UNCHANGED <<vault, operation, guest, snippet, tries>>

(* Cold: the device has to appear in the tailnet. *)
AttachCold ==
    /\ Starts("network_access_attach") /\ operation.kind = "create" /\ ~isFromWarmPool
    /\ guest.device
    /\ GoTo("detach")
    /\ UNCHANGED <<instance, vault, operation, guest, snippet, tries>>

detachVendorSnippet_cold_only ==
    /\ At("detach")
    /\ guest' = [guest EXCEPT !.vendor = operation.warm]
    /\ GoTo("unlink")
    /\ UNCHANGED <<instance, vault, operation, snippet, tries>>

detachVendorSnippet ==
    /\ At("detach")
    /\ \E fails \in MayHappen("detach_fails") : guest' = [guest EXCEPT !.vendor = @ /\ fails]
    /\ GoTo("unlink")
    /\ UNCHANGED <<instance, vault, operation, snippet, tries>>

(* The file is removed, or it is not and nobody is told. *)
deleteSnippet == \E fails \in MayHappen("unlink_fails") : snippet' = (snippet /\ fails)

EndAttach_cold_only ==
    /\ At("unlink")
    /\ snippet' = (snippet /\ operation.warm)
    /\ instance' = [instance EXCEPT !.private_ip = @ \/ ~operation.warm]
    /\ markStage
    /\ UNCHANGED <<vault, guest, tries>>

EndAttach ==
    /\ At("unlink")
    /\ deleteSnippet
    /\ instance' = [instance EXCEPT !.private_ip = @ \/ ~operation.warm]
    /\ markStage
    /\ UNCHANGED <<vault, guest, tries>>

(* The path that shells into the guest, for an instance whose operation has *)
(* no ts_via_cloud_init: it is started once and polled, its pid kept in the *)
(* stage's detail.                                                         *)
UsesExec == operation.kind # "create" /\ ~instance.private_ip

AgentSilent ==
    /\ Starts("network_access_attach") /\ UsesExec
    /\ guest.installs = 0 \/ "agent_silent" \in Faults
    /\ operation' = [operation EXCEPT !.exec_pid = "none"]
    /\ UNCHANGED <<instance, vault, guest, snippet, worker, tries>>

InstallStarts_again ==
    /\ Starts("network_access_attach") /\ UsesExec /\ guest.running
    /\ guest.installs < 2
    /\ guest' = [guest EXCEPT !.installs = @ + 1]
    /\ operation' = [operation EXCEPT !.exec_pid = "pid"]
    /\ UNCHANGED <<instance, vault, snippet, worker, tries>>

InstallStarts ==
    /\ Starts("network_access_attach") /\ UsesExec /\ guest.running
    /\ operation.exec_pid = "none"
    /\ guest' = [guest EXCEPT !.installs = @ + 1]
    /\ operation' = [operation EXCEPT !.exec_pid = "pid"]
    /\ UNCHANGED <<instance, vault, snippet, worker, tries>>

(* The agent was restarted, or the guest was, and does not know the pid.   *)
InstallLost ==
    /\ Starts("network_access_attach") /\ UsesExec
    /\ operation.exec_pid = "pid" /\ guest.installs = 0
    /\ operation' = [operation EXCEPT !.exec_pid = "none"]
    /\ UNCHANGED <<instance, vault, guest, snippet, worker, tries>>

InstallExited ==
    /\ Starts("network_access_attach") /\ UsesExec
    /\ operation.exec_pid = "pid" /\ guest.installs = 0 /\ guest.device
    /\ instance' = [instance EXCEPT !.private_ip = TRUE]
    /\ markStage
    /\ UNCHANGED <<vault, guest, snippet, tries>>

-----------------------------------------------------------------------------
(* automated_verification, and the ready stage. *)
Verify ==
    /\ Starts("automated_verification")
    /\ operation.kind = "snapshot" \/ GuestAnswers
    /\ markStage
    /\ UNCHANGED <<instance, vault, guest, snippet, tries>>

Finish ==
    /\ Starts("ready")
    /\ operation' = [operation EXCEPT !.state = "succeeded"]
    /\ instance' = [instance EXCEPT !.state = "ready"]
    /\ UNCHANGED <<vault, guest, snippet, worker, tries>>

(* Any other call that fails, an installation that does, and the waits for  *)
(* the ACL, the device, the agent and the installation that last too long.  *)
CallFails ==
    /\ \/ Starts("network_access_attach") \/ Starts("automated_verification")
       \/ At("cold_snippet") \/ At("cold_config") \/ At("cold_start") \/ At("warm_exec")
    /\ StageFails
    /\ UNCHANGED <<instance, vault, operation, guest, snippet, tries>>

(* Destroying a guest stops it, deletes it and waits for that.  What is left *)
(* when one of these throws.                                               *)
HalfDestroyed == {guest, [guest EXCEPT !.running = FALSE, !.installs = 0], NoGuest}

rollBackFailedCreate_cleared_first ==
    \/ /\ At("roll_back")
       /\ guest' \in HalfDestroyed
       /\ instance' = [instance EXCEPT !.vmid = FALSE]
       /\ \/ guest' = NoGuest /\ GoTo("clean")
          \/ GoTo("fail")
       /\ UNCHANGED <<vault, operation, snippet, tries>>
    \/ /\ At("clean")
       /\ deleteSnippet
       /\ GoTo("fail")
       /\ UNCHANGED <<instance, vault, operation, guest, tries>>

(* A roll-back that throws is logged, and the create fails like any other:  *)
(* what comes after the call that threw is not done.                       *)
rollBackFailedCreate ==
    \/ /\ At("roll_back")
       /\ guest' = NoGuest
       /\ GoTo("clean")
       /\ UNCHANGED <<instance, vault, operation, snippet, tries>>
    \/ /\ At("roll_back")
       /\ guest' \in HalfDestroyed
       /\ GoTo("fail")
       /\ UNCHANGED <<instance, vault, operation, snippet, tries>>
    \/ /\ At("clean")
       /\ deleteSnippet
       /\ \E throws \in BOOLEAN : instance' = [instance EXCEPT !.vmid = throws]
       /\ GoTo("fail")
       /\ UNCHANGED <<vault, operation, guest, tries>>

FinishFailed ==
    /\ At("fail")
    /\ operation' = [operation EXCEPT !.state = "failed"]
    /\ instance' = [instance EXCEPT !.state =
           IF operation.kind = "create" THEN "failed" ELSE "degraded"]
    /\ worker' = Idle
    /\ UNCHANGED <<vault, guest, snippet, tries>>

-----------------------------------------------------------------------------
(* The teardown of a deleted instance: nothing to do when its row names no *)
(* guest, else the guest and then the snippet.                             *)
MayTearDown == At("idle") /\ instance.state = "deleting"

NothingToTearDown ==
    /\ MayTearDown /\ ~instance.vmid
    /\ operation' = [operation EXCEPT !.state = "succeeded"]
    /\ instance' = [instance EXCEPT !.state = "gone"]
    /\ UNCHANGED <<vault, guest, snippet, worker, tries>>

TearDown ==
    /\ MayTearDown /\ instance.vmid
    /\ guest' = NoGuest
    /\ GoTo("torn_down")
    /\ UNCHANGED <<instance, vault, operation, snippet, tries>>

TearDownThrows ==
    /\ MayTearDown /\ instance.vmid /\ "teardown_fails" \in Faults
    /\ guest' \in HalfDestroyed
    /\ operation' = [operation EXCEPT !.state = "failed"]
    /\ instance' = [instance EXCEPT !.state = "delete_failed"]
    /\ UNCHANGED <<vault, snippet, worker, tries>>

DeleteItsSnippet ==
    /\ At("torn_down")
    /\ deleteSnippet
    /\ GoTo("absent")
    /\ UNCHANGED <<instance, vault, operation, guest, tries>>

(* The device may not be removed from the tailnet, which fails the delete. *)
FinishDelete ==
    /\ At("absent")
    /\ \E fails \in MayHappen("teardown_fails") :
          /\ operation' = [operation EXCEPT !.state = IF fails THEN "failed" ELSE "succeeded"]
          /\ instance' = [instance EXCEPT !.state = IF fails THEN "delete_failed" ELSE "gone"]
    /\ worker' = Idle
    /\ UNCHANGED <<vault, guest, snippet, tries>>

(* processPendingSshKeySyncs: the keys as listed replace the managed block. *)
ListPendingSync ==
    /\ At("idle") /\ instance.sync_pending /\ instance.state = "ready" /\ GuestAnswers
    /\ worker' = [at |-> "sync_write", listed |-> ssh_keys]
    /\ UNCHANGED <<instance, vault, operation, guest, snippet, tries>>

WriteBlock ==
    /\ At("sync_write") /\ GuestAnswers
    /\ guest' = [guest EXCEPT !.block = worker.listed]
    /\ GoTo("sync_clear")
    /\ UNCHANGED <<instance, vault, operation, snippet, tries>>

ClearPending ==
    /\ At("sync_clear")
    /\ instance' = [instance EXCEPT !.sync_pending = FALSE]
    /\ worker' = Idle
    /\ UNCHANGED <<vault, operation, guest, snippet, tries>>

SyncFails_clears ==
    /\ At("sync_write")
    /\ worker' = Idle
    /\ instance' = [instance EXCEPT !.sync_pending = FALSE]
    /\ IF guest.running THEN Event ELSE UNCHANGED events
    /\ UNCHANGED <<ssh_keys, console, vault, operation, guest, snippet, tries>>

(* The agent does not answer: the instance stays pending.  (A guest that is *)
(* off fails every time, which ListPendingSync leaves out.)                *)
SyncFails ==
    /\ At("sync_write")
    /\ worker' = Idle
    /\ IF guest.running THEN Event ELSE UNCHANGED events
    /\ UNCHANGED <<ssh_keys, console, instance, vault, operation, guest, snippet, tries>>

-----------------------------------------------------------------------------
(* The worker is killed; what it has done stays done. *)
Killed ==
    /\ ~At("idle") /\ ~At("roll_back") /\ ~At("clean") /\ ~At("fail")
    /\ At("cold_mark") => "killed_started" \in Faults
    /\ worker' = Idle
    /\ Event
    /\ UNCHANGED <<ssh_keys, console, instance, vault, operation, guest, snippet, tries>>

SetsUp ==
    \/ Clone \/ ColdPassword \/ writeSnippet \/ PutConfig \/ StartCold \/ MarkTemplate
    \/ WarmPassword \/ WarmExec \/ SnapshotInit
    \/ RestartBegins \/ PostRestart \/ AwaitRestart \/ RestartFailed \/ ConfirmRestart
    \/ StartStopped
    \/ HasAddress \/ AttachWarm \/ AttachCold \/ detachVendorSnippet \/ EndAttach
    \/ InstallStarts \/ InstallLost \/ InstallExited
    \/ Verify \/ Finish \/ rollBackFailedCreate \/ FinishFailed
    \/ NothingToTearDown \/ TearDown \/ TearDownThrows \/ DeleteItsSnippet \/ FinishDelete

Syncs == ListPendingSync \/ WriteBlock \/ ClearPending

GivesUp == RestartGivesUp \/ AgentSilent \/ CallFails

Works == (SetsUp \/ Syncs \/ GivesUp) /\ UNCHANGED <<ssh_keys, console, events>>
=============================================================================
