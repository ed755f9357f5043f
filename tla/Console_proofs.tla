--------------------------- MODULE Console_proofs ---------------------------
(***************************************************************************)
(* Proofs about what a worker does in and around a guest and what the      *)
(* customer's page shows of it, for any sets of keys and any bounds.       *)
(***************************************************************************)
EXTENDS Console, TLAPS, FiniteSetTheorems

-----------------------------------------------------------------------------
(* The inductive invariant.                                                *)

InstanceType ==
    [state: InstanceStates, password: BOOLEAN, private_ip: BOOLEAN, sync_pending: BOOLEAN,
     vmid: BOOLEAN]

OperationType ==
    [id: 0 .. MaxOperations, kind: {"none", "create", "resize", "snapshot", "delete"},
     state: {"none", "running", "succeeded", "failed"}, stage: Stages, warm: BOOLEAN,
     exec_pid: {"none", "pid"},
     ends: [1 .. MaxOperations -> {"none", "running", "succeeded", "failed"}]]

GuestType ==
    [exists: BOOLEAN, running: BOOLEAN, booted: BOOLEAN, vendor: BOOLEAN,
     cipassword: Nat, cikeys: SUBSET KeyIds, password: Nat, image_keys: SUBSET KeyIds,
     block: SUBSET KeyIds, locked: BOOLEAN, task: {"none", "reboot", "start", "failed"},
     applied: BOOLEAN, fresh: BOOLEAN, device: BOOLEAN, installs: Nat]

WorkerType == [at: ProgramPoints, listed: SUBSET KeyIds]

SetupType ==
    /\ ssh_keys \subseteq KeyIds /\ console \in {"idle", "mark"}
    /\ instance \in InstanceType
    /\ operation \in OperationType
    /\ guest \in GuestType
    /\ worker \in WorkerType
    /\ vault \in Nat /\ tries \in Nat /\ snippet \in BOOLEAN
    /\ events \in 0 .. MaxEvents

\* What the latest operation makes of the instance's state.
Settles(o, running, failed, succeeded) ==
    IF o.state = "running" THEN running ELSE IF o.state = "failed" THEN failed ELSE succeeded

StateOf(o) ==
    IF o.kind = "none" THEN "none"
    ELSE IF o.kind = "create" THEN Settles(o, "provisioning", "failed", "ready")
    ELSE IF o.kind = "delete" THEN Settles(o, "deleting", "delete_failed", "gone")
    ELSE Settles(o, "busy", "degraded", "ready")

RowsAgree ==
    /\ instance.state = StateOf(operation)
    /\ operation.kind = "none" <=> operation.id = 0
    /\ operation.kind = "none" <=> operation.state = "none"
    /\ operation.kind = "delete" => operation.stage = "template_cloud_init"
    /\ operation.kind \in {"resize", "snapshot"} => operation.stage # "clone"
    /\ operation.state = "succeeded" /\ operation.kind # "delete" => operation.stage = "ready"

\* A worker that is in the middle of a stage does it for the running operation.
WorkerIsAt ==
    /\ worker.at \in {"cold_snippet", "cold_config", "cold_start", "cold_mark"} =>
          /\ operation.kind = "create" /\ ~operation.warm /\ operation.state = "running"
          /\ operation.stage = "template_cloud_init"
    /\ worker.at \in {"warm_exec", "warm_mark"} =>
          /\ operation.kind = "create" /\ operation.warm /\ operation.state = "running"
          /\ operation.stage = "template_cloud_init"
    /\ worker.at \in {"look", "await", "confirm"} =>
          /\ operation.kind = "resize" /\ operation.state = "running"
          /\ operation.stage = "template_cloud_init"
    /\ worker.at \in {"detach", "unlink"} =>
          /\ operation.kind = "create" /\ operation.state = "running"
          /\ operation.stage = "network_access_attach"
    /\ worker.at \in {"roll_back", "clean"} =>
          operation.kind = "create" /\ operation.state = "running"
    /\ worker.at = "fail" =>
          operation.kind \in {"create", "resize", "snapshot"} /\ operation.state = "running"
    /\ worker.at \in {"torn_down", "absent"} =>
          operation.kind = "delete" /\ operation.state = "running"

\* What the proofs assume of a fault, each only where it matters.
StartsAreRecorded == "killed_started" \notin Faults
DetachNeverFails == "detach_fails" \notin Faults
AgentAnswers == "agent_silent" \notin Faults
UnlinkNeverFails == "unlink_fails" \notin Faults

\* The guest is the row's, and is gone when its destruction is over.
GuestNamed ==
    /\ guest.exists => instance.vmid
    /\ worker.at \in {"clean", "torn_down", "absent"} => ~guest.exists /\ ~guest.vendor
    /\ operation.kind = "none" \/ (operation.kind = "delete" /\ operation.state = "succeeded")
       => ~guest.exists
    /\ /\ operation.kind = "create" /\ operation.state = "running"
       /\ operation.stage # "clone" /\ worker.at # "fail"
       => instance.vmid

\* The snippet is there whenever the guest's configuration names it, and otherwise
\* only for a create that may still need it, and where a roll-back or a teardown
\* has not come to it: then the row names its guest.
SnippetKept ==
    /\ UnlinkNeverFails /\ snippet =>
          /\ instance.vmid
          /\ \/ /\ operation.kind = "create" /\ operation.state \in {"running", "failed"}
                /\ operation.stage \in {"template_cloud_init", "network_access_attach"}
             \/ /\ operation.kind = "delete" /\ operation.state \in {"running", "failed"}
                /\ worker.at # "absent"
    /\ worker.at = "cold_config" => snippet
    /\ DetachNeverFails => (guest.vendor => snippet)
    /\ DetachNeverFails => (worker.at = "unlink" => ~guest.vendor)

\* The stage that gives the guest its password is done.
Configured ==
    /\ operation.kind # "none"
    /\ operation.kind = "create" => operation.stage \notin {"clone", "template_cloud_init"}

\* Until it is started for the first time a cold guest is off, and the password
\* of the attempt under way is the one it will get.
ColdIsOff ==
    StartsAreRecorded =>
        /\ /\ operation.kind = "create" /\ operation.state = "running" /\ ~operation.warm
           /\ operation.stage = "template_cloud_init"
           /\ worker.at \notin {"cold_mark", "roll_back", "clean", "fail"}
           => ~guest.running /\ ~guest.booted
        /\ /\ operation.kind = "create" /\ operation.state = "running" /\ operation.warm
           /\ operation.stage = "template_cloud_init" /\ worker.at \notin {"clean", "fail"}
           => guest.booted
        /\ worker.at = "cold_start" => guest.cipassword = tries
        /\ worker.at \in {"cold_mark", "warm_mark"} =>
              guest.booted /\ (instance.password => guest.password = tries)
        /\ worker.at \in {"cold_snippet", "cold_config", "cold_start", "cold_mark", "warm_exec",
                          "warm_mark"} => (instance.password => vault = tries)

\* From then on the guest has the password in the vault until it is revealed,
\* and the one revealed afterwards.  A deletion may find a guest whose create
\* failed before that: its page never showed it as ready.
PasswordsAgree ==
    /\ page.state = "ready" => Configured
    /\ page.password # 0 => Configured /\ instance.password
    /\ /\ StartsAreRecorded /\ Configured /\ guest.exists
       /\ operation.kind = "delete" => page.state = "ready" \/ page.password # 0
       =>
          /\ guest.booted
          /\ instance.password /\ vault # 0 => guest.password = vault
          /\ page.password # 0 => guest.password = page.password

\* Every attempt at the stage but the first follows a kill.
TriesCounted ==
    /\ tries <= events + 1
    /\ operation.kind = "none" => tries = 0
    /\ /\ operation.kind = "create" /\ operation.state = "running"
       /\ operation.stage \in {"clone", "template_cloud_init"}
       /\ worker.at \in {"idle", "sync_write", "sync_clear"}
       => tries <= events
    /\ guest.password <= tries /\ guest.cipassword <= tries /\ vault <= tries
    /\ page.password <= tries

\* An installation that runs is one the operation knows of.
InstallsKnown ==
    AgentAnswers =>
        /\ guest.installs \in 0 .. 1
        /\ guest.installs = 1 /\ operation.kind # "delete" =>
              /\ operation.kind \in {"resize", "snapshot"} /\ operation.exec_pid = "pid"
              /\ operation.stage = "network_access_attach" /\ ~instance.private_ip

\* A guest that was booted since the restart was posted runs what it was given.
RestartConfirmed ==
    /\ operation.kind \in {"none", "create"} => guest.task = "none"
    /\ worker.at \in {"await", "confirm"} /\ guest.fresh =>
          guest.running /\ guest.applied /\ guest.task = "none"
    /\ operation.kind = "resize" /\ operation.stage # "template_cloud_init" =>
          guest.running /\ guest.applied /\ guest.task = "none"

Rest ==
    /\ RowsAgree /\ WorkerIsAt /\ GuestNamed /\ SnippetKept /\ ColdIsOff
    /\ PasswordsAgree /\ TriesCounted /\ InstallsKnown /\ RestartConfirmed

Answers(ids) == [id: ids, state: {"none", "running", "succeeded", "failed"}]

PageRecord ==
    [open: BOOLEAN, rendering: BOOLEAN, state: InstanceStates,
     operation: Answers(0 .. MaxOperations), refreshed: BOOLEAN, fired: BOOLEAN, password: Nat]

\* A page that is open shows an operation that there is or was.
PageType ==
    /\ form \in [at: {"open", "sent", "answered", "left"}, submits: 0 .. MaxSubmits,
                 password: BOOLEAN]
    /\ accepted \subseteq {1}
    /\ page \in PageRecord
    /\ IsFiniteSet(polls) /\ Cardinality(polls) <= MaxPolls
    /\ polls \subseteq Answers(1 .. MaxOperations)
    /\ page.open \/ accepted # {} \/ form.at = "answered" => operation.kind # "none"
    /\ page.open /\ ~page.rendering => page.operation.id # 0

SetupInv == SetupType /\ Rest

IInv == SetupInv /\ PageType

-----------------------------------------------------------------------------
(* The operators.                                                          *)

LEMMA Typed ==
    ASSUME SetupInv
    PROVE  /\ SetupType /\ Rest
           /\ instance \in InstanceType /\ operation \in OperationType
           /\ guest \in GuestType /\ worker \in WorkerType
BY DEF SetupInv, SetupType

LEMMA NoGuestTyped ==
    /\ NoGuest \in GuestType
    /\ ~NoGuest.exists /\ ~NoGuest.running /\ ~NoGuest.booted /\ ~NoGuest.vendor
    /\ NoGuest.task = "none" /\ NoGuest.installs = 0
    /\ NoGuest.password = 0 /\ NoGuest.cipassword = 0
BY DEF NoGuest, GuestType

LEMMA IdleTyped == Idle \in WorkerType /\ Idle.at = "idle"
BY DEF Idle, WorkerType, ProgramPoints

LEMMA WentTo ==
    ASSUME SetupType, NEW p \in ProgramPoints, GoTo(p)
    PROVE  worker' \in WorkerType /\ worker'.at = p /\ worker'.listed = worker.listed
BY DEF SetupType, GoTo, WorkerType

LEMMA GivenUp ==
    ASSUME SetupType, StageFails
    PROVE  /\ worker' \in WorkerType
           /\ operation.kind = "create" => worker'.at = "roll_back"
           /\ operation.kind # "create" => worker'.at = "fail"
BY WentTo DEF StageFails, ProgramPoints

\* The snippet is gone unless the fault is there.
LEMMA Unlinked ==
    ASSUME SetupType, deleteSnippet
    PROVE  snippet' \in BOOLEAN /\ (snippet' => snippet) /\ (UnlinkNeverFails => ~snippet')
BY DEF SetupType, deleteSnippet, MayHappen, UnlinkNeverFails

\* What is left of a guest is the guest, stopped at most, or nothing.
LEMMA Halved ==
    ASSUME SetupType, guest' \in HalfDestroyed
    PROVE  /\ guest' \in GuestType
           /\ \/ guest' = NoGuest
              \/ /\ guest'.exists = guest.exists /\ guest'.booted = guest.booted
                 /\ guest'.vendor = guest.vendor /\ guest'.password = guest.password
                 /\ guest'.cipassword = guest.cipassword /\ guest'.task = guest.task
                 /\ guest'.installs \in {guest.installs, 0}
                 /\ guest'.running => guest.running
<1>1. guest \in GuestType /\ NoGuest \in GuestType
  BY NoGuestTyped DEF SetupType
<1>2. CASE guest' = [guest EXCEPT !.running = FALSE, !.installs = 0]
  BY <1>1, <1>2 DEF GuestType
<1>3. CASE guest' \in {guest, NoGuest}
  BY <1>1, <1>3
<1> QED
  BY <1>2, <1>3 DEF HalfDestroyed

\* A guest that boots runs what it was given; the first boot sets its password.
LEMMA BootedTyped ==
    ASSUME SetupType
    PROVE  /\ Booted \in GuestType
           /\ Booted.running /\ Booted.booted /\ Booted.applied /\ Booted.fresh
           /\ Booted.task = "none" /\ Booted.exists = guest.exists
           /\ Booted.vendor = guest.vendor /\ Booted.installs = guest.installs
           /\ Booted.cipassword = guest.cipassword
           /\ Booted.password = IF guest.booted THEN guest.password ELSE guest.cipassword
<1>1. guest \in GuestType
  BY DEF SetupType
<1> QED
  BY <1>1 DEF Booted, GuestType

\* markStage moves the operation on and lets the worker look for the next stage.
LEMMA Marked ==
    ASSUME SetupType, operation.stage # "ready", markStage
    PROVE  /\ operation' \in OperationType /\ worker' \in WorkerType /\ worker'.at = "idle"
           /\ operation'.id = operation.id /\ operation'.kind = operation.kind
           /\ operation'.state = operation.state /\ operation'.warm = operation.warm
           /\ operation'.exec_pid = "none" /\ operation'.stage = NextStage
           /\ operation.stage = "clone" => NextStage = "template_cloud_init"
           /\ operation.stage = "template_cloud_init" => NextStage = "network_access_attach"
           /\ operation.stage = "network_access_attach" => NextStage = "automated_verification"
           /\ operation.stage = "automated_verification" => NextStage = "ready"
<1>1. /\ operation.stage = "clone" => NextStage = "template_cloud_init"
      /\ operation.stage = "template_cloud_init" => NextStage = "network_access_attach"
      /\ operation.stage = "network_access_attach" => NextStage = "automated_verification"
      /\ operation.stage = "automated_verification" => NextStage = "ready"
  BY DEF NextStage
<1>2. NextStage \in Stages
  BY <1>1 DEF SetupType, OperationType, Stages
<1>3. operation \in OperationType
  BY DEF SetupType
<1>4. operation' = [operation EXCEPT !.stage = NextStage, !.exec_pid = "none"]
  BY DEF markStage
<1>5. operation' \in OperationType
  BY <1>2, <1>3, <1>4 DEF OperationType
<1>6. /\ operation'.id = operation.id /\ operation'.kind = operation.kind
      /\ operation'.state = operation.state /\ operation'.warm = operation.warm
      /\ operation'.exec_pid = "none" /\ operation'.stage = NextStage
  BY <1>3, <1>4 DEF OperationType
<1> QED
  BY <1>1, <1>5, <1>6, IdleTyped DEF markStage

-----------------------------------------------------------------------------
(* The steps of the worker, the guest and the customer.                    *)

\* The stages up to the password.
LEMMA ConfigureSteps ==
    ASSUME SetupInv, UNCHANGED <<ssh_keys, console, events, pageVars>>,
           \/ Clone \/ ColdPassword \/ writeSnippet \/ PutConfig \/ StartCold
           \/ MarkTemplate \/ WarmPassword \/ WarmExec \/ SnapshotInit
    PROVE  SetupInv'
<1> USE Typed DEF Rest, pageVars, At, Starts,
        RowsAgree, StateOf, Settles, WorkerIsAt, GuestNamed, SnippetKept, ColdIsOff,
        PasswordsAgree,
        Configured, TriesCounted, InstallsKnown, RestartConfirmed
<1>1. CASE Clone
  <2>1. PICK warm \in BOOLEAN :
          /\ guest' = [NoGuest EXCEPT !.exists = TRUE, !.running = warm, !.booted = warm,
                                      !.vendor = warm, !.device = warm]
          /\ snippet' = warm
          /\ operation' = [operation EXCEPT !.warm = warm, !.stage = NextStage]
    BY <1>1 DEF Clone
  <2>i. /\ instance' \in InstanceType /\ instance'.vmid /\ instance'.state = instance.state
        /\ instance'.password = instance.password /\ instance'.private_ip = instance.private_ip
    BY <1>1 DEF Clone, InstanceType
  <2>2. NextStage = "template_cloud_init"
    BY <1>1 DEF Clone, NextStage
  <2>3. /\ guest' \in GuestType /\ guest'.running = warm /\ guest'.booted = warm
        /\ guest'.vendor = warm /\ guest'.task = "none" /\ guest'.installs = 0
        /\ guest'.password = 0 /\ guest'.cipassword = 0
    BY <2>1, NoGuestTyped DEF GuestType
  <2>4. /\ operation' \in OperationType /\ operation'.stage = "template_cloud_init"
        /\ operation'.id = operation.id /\ operation'.kind = operation.kind
        /\ operation'.state = operation.state /\ operation'.warm = warm
    BY <2>1, <2>2 DEF OperationType, Stages
  <2>5. /\ snippet' = warm /\ worker' = worker
        /\ vault' = vault /\ tries' = tries
        /\ worker.at = "idle" /\ operation.state = "running" /\ operation.stage = "clone"
    BY <1>1, <2>1 DEF Clone
  <2>6. operation.kind = "create"
    BY <2>5 DEF OperationType
  <2>7. SetupType'
    BY <1>1, <2>i, <2>1, <2>3, <2>4 DEF Clone, SetupType
  <2>8. Rest'
    BY <2>i, <2>3, <2>4, <2>5, <2>6 DEF SetupType, InstanceType, GuestType
  <2> QED
    BY <2>7, <2>8 DEF SetupInv
<1>2. CASE ColdPassword
  <2>1. worker' \in WorkerType /\ worker'.at = "cold_snippet"
    BY <1>2 DEF ColdPassword, isFromWarmPool, SetupType, WorkerType, ProgramPoints
  <2>2. SetupType'
    BY <1>2, <2>1 DEF ColdPassword, isFromWarmPool, SetupType, SetPassword
  <2>3. Rest'
    BY <1>2, <2>1
       DEF ColdPassword, isFromWarmPool, SetupType, InstanceType, OperationType, GuestType,
           WorkerType,
           SetPassword
  <2> QED
    BY <2>2, <2>3 DEF SetupInv
<1>3. CASE writeSnippet
  <2>1. worker' \in WorkerType /\ worker'.at = "cold_config" /\ worker'.listed = worker.listed
    BY <1>3, WentTo DEF writeSnippet, ProgramPoints
  <2>2. SetupType'
    BY <1>3, <2>1 DEF writeSnippet, SetupType
  <2>3. Rest'
    BY <1>3, <2>1 DEF writeSnippet, SetupType, InstanceType, OperationType, GuestType, WorkerType
  <2> QED
    BY <2>2, <2>3 DEF SetupInv
<1>4. CASE PutConfig
  <2>1. worker' \in WorkerType /\ worker'.at = "cold_start" /\ worker'.listed = worker.listed
    BY <1>4, WentTo DEF PutConfig, ProgramPoints
  <2>2. guest' \in GuestType
    BY <1>4 DEF PutConfig, SetupType, GuestType, WorkerType
  <2>3. SetupType'
    BY <1>4, <2>1, <2>2 DEF PutConfig, SetupType
  <2>4. Rest'
    BY <1>4, <2>1, <2>2
       DEF PutConfig, SetupType, InstanceType, OperationType, GuestType, WorkerType
  <2> QED
    BY <2>3, <2>4 DEF SetupInv
<1>5. CASE StartCold
  <2>1. worker' \in WorkerType /\ worker'.at = "cold_mark" /\ worker'.listed = worker.listed
    BY <1>5, WentTo DEF StartCold, ProgramPoints
  <2>2. guest' \in GuestType
    BY <1>5, BootedTyped DEF StartCold
  <2>3. SetupType'
    BY <1>5, <2>1, <2>2 DEF StartCold, SetupType
  <2>4. Rest'
    BY <1>5, <2>1, <2>2, BootedTyped
       DEF StartCold, SetupType, InstanceType, OperationType, GuestType, WorkerType
  <2> QED
    BY <2>3, <2>4 DEF SetupInv
<1>6. CASE MarkTemplate
  <2>1. markStage /\ operation.stage # "ready"
    BY <1>6 DEF MarkTemplate
  <2>2. SetupType'
    BY <1>6, <2>1, Marked DEF MarkTemplate, SetupType
  <2>3. Rest'
    BY <1>6, <2>1, Marked
       DEF MarkTemplate, SetupType, InstanceType, OperationType, GuestType, WorkerType
  <2> QED
    BY <2>2, <2>3 DEF SetupInv
<1>7. CASE WarmPassword
  <2>1. worker' \in WorkerType /\ worker'.at = "warm_exec"
    BY <1>7 DEF WarmPassword, isFromWarmPool, SetupType, WorkerType, ProgramPoints
  <2>2. SetupType'
    BY <1>7, <2>1 DEF WarmPassword, isFromWarmPool, SetupType, SetPassword
  <2>3. Rest'
    BY <1>7, <2>1
       DEF WarmPassword, isFromWarmPool, SetupType, InstanceType, OperationType, GuestType,
           WorkerType,
           SetPassword
  <2> QED
    BY <2>2, <2>3 DEF SetupInv
<1>8. CASE WarmExec
  <2>1. worker' \in WorkerType /\ worker'.at = "warm_mark" /\ worker'.listed = worker.listed
    BY <1>8, WentTo DEF WarmExec, ProgramPoints
  <2>2. guest' \in GuestType
    BY <1>8 DEF WarmExec, SetupType, GuestType, WorkerType
  <2>3. SetupType'
    BY <1>8, <2>1, <2>2 DEF WarmExec, SetupType
  <2>4. Rest'
    BY <1>8, <2>1, <2>2
       DEF WarmExec, SetupType, InstanceType, OperationType, GuestType, WorkerType
  <2> QED
    BY <2>3, <2>4 DEF SetupInv
<1>9. CASE SnapshotInit
  <2>1. markStage /\ operation.stage # "ready"
    BY <1>9 DEF SnapshotInit
  <2>2. SetupType'
    BY <1>9, <2>1, Marked DEF SnapshotInit, SetupType
  <2>3. Rest'
    BY <1>9, <2>1, Marked
       DEF SnapshotInit, SetupType, InstanceType, OperationType, GuestType, WorkerType
  <2> QED
    BY <2>2, <2>3 DEF SetupInv
<1> QED
  BY <1>1, <1>2, <1>3, <1>4, <1>5, <1>6, <1>7, <1>8, <1>9

\* The restart of a resize.
LEMMA RestartSteps ==
    ASSUME SetupInv, UNCHANGED <<ssh_keys, console, events, pageVars>>,
           \/ RestartBegins \/ PostRestart \/ AwaitRestart \/ RestartFailed
           \/ ConfirmRestart \/ StartStopped \/ RestartGivesUp
    PROVE  SetupInv'
<1> USE Typed DEF Rest, pageVars, At, Starts,
        RowsAgree, StateOf, Settles, WorkerIsAt, GuestNamed, SnippetKept, ColdIsOff,
        PasswordsAgree,
        Configured, TriesCounted, InstallsKnown, RestartConfirmed
<1>1. CASE RestartBegins
  <2>1. worker' \in WorkerType /\ worker'.at = "look" /\ worker'.listed = worker.listed
    BY <1>1, WentTo DEF RestartBegins, ProgramPoints
  <2>2. SetupType'
    BY <1>1, <2>1 DEF RestartBegins, SetupType
  <2>3. Rest'
    BY <1>1, <2>1 DEF RestartBegins, SetupType, InstanceType, OperationType, GuestType, WorkerType
  <2> QED
    BY <2>2, <2>3 DEF SetupInv
<1>2. CASE PostRestart
  <2>1. worker' \in WorkerType /\ worker'.at = "await" /\ worker'.listed = worker.listed
    BY <1>2, WentTo DEF PostRestart, ProgramPoints
  <2>2. guest' \in GuestType
    BY <1>2 DEF PostRestart, GuestType
  <2>3. SetupType'
    BY <1>2, <2>1, <2>2 DEF PostRestart, SetupType
  <2>4. Rest'
    BY <1>2, <2>1, <2>2
       DEF PostRestart, SetupType, InstanceType, OperationType, GuestType, WorkerType
  <2> QED
    BY <2>3, <2>4 DEF SetupInv
<1>3. CASE AwaitRestart
  <2>1. worker' \in WorkerType /\ worker'.at = "confirm" /\ worker'.listed = worker.listed
    BY <1>3, WentTo DEF AwaitRestart, ProgramPoints
  <2>2. SetupType'
    BY <1>3, <2>1 DEF AwaitRestart, SetupType
  <2>3. Rest'
    BY <1>3, <2>1 DEF AwaitRestart, SetupType, InstanceType, OperationType, GuestType, WorkerType
  <2> QED
    BY <2>2, <2>3 DEF SetupInv
<1>4. CASE RestartFailed
  <2>1. guest' \in GuestType
    BY <1>4 DEF RestartFailed, GuestType
  <2>2. SetupType'
    BY <1>4, <2>1, GivenUp DEF RestartFailed, SetupType
  <2>3. Rest'
    BY <1>4, <2>1, GivenUp
       DEF RestartFailed, SetupType, InstanceType, OperationType, GuestType, WorkerType
  <2> QED
    BY <2>2, <2>3 DEF SetupInv
<1>5. CASE ConfirmRestart
  <2>1. markStage /\ operation.stage # "ready"
    BY <1>5 DEF ConfirmRestart
  <2>2. SetupType'
    BY <1>5, <2>1, Marked DEF ConfirmRestart, SetupType
  <2>3. Rest'
    BY <1>5, <2>1, Marked
       DEF ConfirmRestart, SetupType, InstanceType, OperationType, GuestType, WorkerType,
           CameBack
  <2> QED
    BY <2>2, <2>3 DEF SetupInv
<1>6. CASE StartStopped
  <2>1. worker' \in WorkerType /\ worker'.at = "await" /\ worker'.listed = worker.listed
    BY <1>6, WentTo DEF StartStopped, ProgramPoints
  <2>2. guest' \in GuestType
    BY <1>6 DEF StartStopped, GuestType
  <2>3. SetupType'
    BY <1>6, <2>1, <2>2 DEF StartStopped, SetupType
  <2>4. Rest'
    BY <1>6, <2>1, <2>2
       DEF StartStopped, SetupType, InstanceType, OperationType, GuestType, WorkerType
  <2> QED
    BY <2>3, <2>4 DEF SetupInv
<1>7. CASE RestartGivesUp
  <2>1. SetupType'
    BY <1>7, GivenUp DEF RestartGivesUp, SetupType
  <2>2. Rest'
    BY <1>7, GivenUp
       DEF RestartGivesUp, SetupType, InstanceType, OperationType, GuestType, WorkerType,
           CameBack
  <2> QED
    BY <2>1, <2>2 DEF SetupInv
<1> QED
  BY <1>1, <1>2, <1>3, <1>4, <1>5, <1>6, <1>7

\* Attaching the guest to the tailnet.
LEMMA AttachSteps ==
    ASSUME SetupInv, UNCHANGED <<ssh_keys, console, events, pageVars>>,
           \/ HasAddress \/ AttachWarm \/ AttachCold \/ detachVendorSnippet
           \/ EndAttach \/ InstallStarts \/ InstallLost \/ AgentSilent
           \/ InstallExited
    PROVE  SetupInv'
<1> USE Typed DEF Rest, pageVars, At, Starts,
        RowsAgree, StateOf, Settles, WorkerIsAt, GuestNamed, SnippetKept, ColdIsOff,
        PasswordsAgree,
        Configured, TriesCounted, InstallsKnown, RestartConfirmed
<1>1. CASE HasAddress
  <2>1. markStage /\ operation.stage # "ready"
    BY <1>1 DEF HasAddress
  <2>2. SetupType'
    BY <1>1, <2>1, Marked DEF HasAddress, SetupType
  <2>3. Rest'
    BY <1>1, <2>1, Marked
       DEF HasAddress, SetupType, InstanceType, OperationType, GuestType, WorkerType
  <2> QED
    BY <2>2, <2>3 DEF SetupInv
<1>2. CASE AttachWarm
  <2>1. worker' \in WorkerType /\ worker'.at = "detach" /\ worker'.listed = worker.listed
    BY <1>2, WentTo DEF AttachWarm, isFromWarmPool, ProgramPoints
  <2>2. instance' \in InstanceType
    BY <1>2 DEF AttachWarm, isFromWarmPool, InstanceType
  <2>3. SetupType'
    BY <1>2, <2>1, <2>2 DEF AttachWarm, isFromWarmPool, SetupType
  <2>4. Rest'
    BY <1>2, <2>1, <2>2
       DEF AttachWarm, isFromWarmPool, SetupType, InstanceType, OperationType, GuestType,
           WorkerType
  <2> QED
    BY <2>3, <2>4 DEF SetupInv
<1>3. CASE AttachCold
  <2>1. worker' \in WorkerType /\ worker'.at = "detach" /\ worker'.listed = worker.listed
    BY <1>3, WentTo DEF AttachCold, isFromWarmPool, ProgramPoints
  <2>2. SetupType'
    BY <1>3, <2>1 DEF AttachCold, isFromWarmPool, SetupType
  <2>3. Rest'
    BY <1>3, <2>1
       DEF AttachCold, isFromWarmPool, SetupType, InstanceType, OperationType, GuestType,
           WorkerType
  <2> QED
    BY <2>2, <2>3 DEF SetupInv
<1>4. CASE detachVendorSnippet
  <2>1. worker' \in WorkerType /\ worker'.at = "unlink" /\ worker'.listed = worker.listed
    BY <1>4, WentTo DEF detachVendorSnippet, ProgramPoints
  <2>2. PICK fails \in MayHappen("detach_fails") : guest' = [guest EXCEPT !.vendor = @ /\ fails]
    BY <1>4 DEF detachVendorSnippet
  <2>3. /\ guest' \in GuestType /\ guest' = [guest EXCEPT !.vendor = guest'.vendor]
        /\ DetachNeverFails => ~guest'.vendor
        /\ guest'.vendor => guest.vendor
    BY <2>2 DEF GuestType, MayHappen, DetachNeverFails
  <2>4. SetupType'
    BY <1>4, <2>1, <2>2, <2>3 DEF detachVendorSnippet, SetupType
  <2>5. Rest'
    BY <1>4, <2>1, <2>2, <2>3
       DEF detachVendorSnippet, SetupType, InstanceType, OperationType, GuestType, WorkerType
  <2> QED
    BY <2>4, <2>5 DEF SetupInv
<1>5. CASE EndAttach
  <2>1. markStage /\ operation.stage # "ready"
    BY <1>5 DEF EndAttach
  <2>2. /\ instance' \in InstanceType /\ instance'.state = instance.state
        /\ instance'.password = instance.password /\ instance'.vmid = instance.vmid
    BY <1>5 DEF EndAttach, OperationType, InstanceType
  <2>3. snippet' \in BOOLEAN /\ (snippet' => snippet) /\ (UnlinkNeverFails => ~snippet')
    BY <1>5, Unlinked DEF EndAttach
  <2>4. SetupType'
    BY <1>5, <2>1, <2>2, <2>3, Marked DEF EndAttach, SetupType
  <2>5. Rest'
    BY <1>5, <2>1, <2>2, <2>3, Marked
       DEF EndAttach, SetupType, InstanceType, OperationType, GuestType, WorkerType
  <2> QED
    BY <2>4, <2>5 DEF SetupInv
<1>6. CASE InstallStarts
  <2>1. guest' \in GuestType /\ operation' \in OperationType
    BY <1>6 DEF InstallStarts, GuestType, OperationType
  <2>2. SetupType'
    BY <1>6, <2>1 DEF InstallStarts, SetupType
  <2>3. Rest'
    BY <1>6, <2>1
       DEF InstallStarts, SetupType, InstanceType, OperationType, GuestType,
           WorkerType, UsesExec
  <2> QED
    BY <2>2, <2>3 DEF SetupInv
<1>7. CASE InstallLost
  <2>1. SetupType'
    BY <1>7 DEF InstallLost, SetupType, OperationType
  <2>2. Rest'
    BY <1>7
       DEF InstallLost, SetupType, InstanceType, OperationType, GuestType, WorkerType, UsesExec
  <2> QED
    BY <2>1, <2>2 DEF SetupInv
<1>8. CASE AgentSilent
  <2>1. SetupType'
    BY <1>8 DEF AgentSilent, SetupType, OperationType
  <2>2. Rest'
    BY <1>8
       DEF AgentSilent, SetupType, InstanceType, OperationType, GuestType, WorkerType, UsesExec,
           AgentAnswers
  <2> QED
    BY <2>1, <2>2 DEF SetupInv
<1>9. CASE InstallExited
  <2>1. markStage /\ operation.stage # "ready"
    BY <1>9 DEF InstallExited
  <2>2. instance' \in InstanceType
    BY <1>9 DEF InstallExited, InstanceType
  <2>3. SetupType'
    BY <1>9, <2>1, <2>2, Marked DEF InstallExited, SetupType
  <2>4. Rest'
    BY <1>9, <2>1, <2>2, Marked
       DEF InstallExited, SetupType, InstanceType, OperationType, GuestType, WorkerType, UsesExec
  <2> QED
    BY <2>3, <2>4 DEF SetupInv
<1> QED
  BY <1>1, <1>2, <1>3, <1>4, <1>5, <1>6, <1>7, <1>8, <1>9

\* The end of an operation, the teardown and the synchronisation of keys.
LEMMA EndSteps ==
    ASSUME SetupInv, UNCHANGED <<ssh_keys, console, events, pageVars>>,
           \/ Verify \/ Finish \/ CallFails \/ FinishFailed \/ NothingToTearDown
           \/ TearDown \/ TearDownThrows \/ DeleteItsSnippet \/ FinishDelete \/ ListPendingSync \/ WriteBlock
           \/ ClearPending \/ rollBackFailedCreate
    PROVE  SetupInv'
<1> USE Typed DEF Rest, pageVars, At, Starts,
        RowsAgree, StateOf, Settles, WorkerIsAt, GuestNamed, SnippetKept, ColdIsOff,
        PasswordsAgree,
        Configured, TriesCounted, InstallsKnown, RestartConfirmed
<1>1. CASE Verify
  <2>1. markStage /\ operation.stage # "ready"
    BY <1>1 DEF Verify, GuestAnswers
  <2>2. SetupType'
    BY <1>1, <2>1, Marked DEF Verify, GuestAnswers, SetupType
  <2>3. Rest'
    BY <1>1, <2>1, Marked
       DEF Verify, GuestAnswers, SetupType, InstanceType, OperationType, GuestType, WorkerType
  <2> QED
    BY <2>2, <2>3 DEF SetupInv
<1>2. CASE Finish
  <2>1. operation' \in OperationType /\ instance' \in InstanceType
    BY <1>2 DEF Finish, OperationType, InstanceType, InstanceStates
  <2>2. SetupType'
    BY <1>2, <2>1 DEF Finish, SetupType
  <2>3. Rest'
    BY <1>2, <2>1 DEF Finish, SetupType, InstanceType, OperationType, GuestType, WorkerType
  <2> QED
    BY <2>2, <2>3 DEF SetupInv
<1>3. CASE CallFails
  <2>1. operation.kind # "none" /\ operation.kind # "delete"
    BY <1>3 DEF CallFails, OperationType
  <2>2. SetupType'
    BY <1>3, <2>1, GivenUp DEF CallFails, SetupType
  <2>3. Rest'
    BY <1>3, <2>1, GivenUp
       DEF CallFails, SetupType, InstanceType, OperationType, GuestType, WorkerType
  <2> QED
    BY <2>2, <2>3 DEF SetupInv
<1>4. CASE FinishFailed
  <2>1. operation' \in OperationType /\ instance' \in InstanceType
    BY <1>4 DEF FinishFailed, OperationType, InstanceType, InstanceStates
  <2>2. SetupType'
    BY <1>4, <2>1, IdleTyped DEF FinishFailed, SetupType
  <2>3. Rest'
    BY <1>4, <2>1, IdleTyped
       DEF FinishFailed, SetupType, InstanceType, OperationType, GuestType, WorkerType
  <2> QED
    BY <2>2, <2>3 DEF SetupInv
<1>5. CASE TearDown
  <2>1. worker' \in WorkerType /\ worker'.at = "torn_down" /\ worker'.listed = worker.listed
    BY <1>5, WentTo DEF TearDown, ProgramPoints
  <2>2. operation.kind = "delete" /\ operation.state = "running"
    BY <1>5 DEF TearDown, MayTearDown, OperationType
  <2>3. SetupType'
    BY <1>5, <2>1, <2>2, NoGuestTyped DEF TearDown, SetupType
  <2>4. Rest'
    BY <1>5, <2>1, <2>2, NoGuestTyped
       DEF TearDown, MayTearDown, SetupType, InstanceType, OperationType, GuestType, WorkerType
  <2> QED
    BY <2>3, <2>4 DEF SetupInv
<1>n. CASE NothingToTearDown
  <2>1. operation.kind = "delete" /\ operation.state = "running"
    BY <1>n DEF NothingToTearDown, MayTearDown, OperationType
  <2>2. operation' \in OperationType /\ instance' \in InstanceType
    BY <1>n DEF NothingToTearDown, OperationType, InstanceType, InstanceStates
  <2>3. SetupType'
    BY <1>n, <2>2 DEF NothingToTearDown, SetupType
  <2>4. Rest'
    BY <1>n, <2>1, <2>2
       DEF NothingToTearDown, MayTearDown, SetupType, InstanceType, OperationType, GuestType,
           WorkerType
  <2> QED
    BY <2>3, <2>4 DEF SetupInv
<1>h. CASE TearDownThrows
  <2>1. operation.kind = "delete" /\ operation.state = "running"
    BY <1>h DEF TearDownThrows, MayTearDown, OperationType
  <2>2. operation' \in OperationType /\ instance' \in InstanceType
    BY <1>h DEF TearDownThrows, OperationType, InstanceType, InstanceStates
  <2>3. guest' \in GuestType
    BY <1>h, Halved DEF TearDownThrows
  <2>4. SetupType'
    BY <1>h, <2>2, <2>3 DEF TearDownThrows, SetupType
  <2>5. Rest'
    BY <1>h, <2>1, <2>2, <2>3, Halved, NoGuestTyped
       DEF TearDownThrows, MayTearDown, SetupType, InstanceType, OperationType, GuestType,
           WorkerType
  <2> QED
    BY <2>4, <2>5 DEF SetupInv
<1>6. CASE DeleteItsSnippet
  <2>1. worker' \in WorkerType /\ worker'.at = "absent" /\ worker'.listed = worker.listed
    BY <1>6, WentTo DEF DeleteItsSnippet, ProgramPoints
  <2>2. snippet' \in BOOLEAN /\ (snippet' => snippet) /\ (UnlinkNeverFails => ~snippet')
    BY <1>6, Unlinked DEF DeleteItsSnippet
  <2>3. SetupType'
    BY <1>6, <2>1, <2>2 DEF DeleteItsSnippet, SetupType
  <2>4. Rest'
    BY <1>6, <2>1, <2>2
       DEF DeleteItsSnippet, SetupType, InstanceType, OperationType, GuestType, WorkerType
  <2> QED
    BY <2>3, <2>4 DEF SetupInv
<1>7. CASE FinishDelete
  <2>1. operation' \in OperationType /\ instance' \in InstanceType
    BY <1>7 DEF FinishDelete, OperationType, InstanceType, InstanceStates
  <2>2. SetupType'
    BY <1>7, <2>1, IdleTyped DEF FinishDelete, SetupType
  <2>3. Rest'
    BY <1>7, <2>1, IdleTyped
       DEF FinishDelete, SetupType, InstanceType, OperationType, GuestType, WorkerType
  <2> QED
    BY <2>2, <2>3 DEF SetupInv
<1>8. CASE ListPendingSync
  <2>1. worker' \in WorkerType /\ worker'.at = "sync_write"
    BY <1>8 DEF ListPendingSync, GuestAnswers, SetupType, WorkerType, ProgramPoints
  <2>2. SetupType'
    BY <1>8, <2>1 DEF ListPendingSync, GuestAnswers, SetupType
  <2>3. Rest'
    BY <1>8, <2>1
       DEF ListPendingSync, GuestAnswers, SetupType, InstanceType, OperationType, GuestType,
           WorkerType
  <2> QED
    BY <2>2, <2>3 DEF SetupInv
<1>9. CASE WriteBlock
  <2>1. worker' \in WorkerType /\ worker'.at = "sync_clear" /\ worker'.listed = worker.listed
    BY <1>9, WentTo DEF WriteBlock, GuestAnswers, ProgramPoints
  <2>2. guest' \in GuestType
    BY <1>9 DEF WriteBlock, GuestAnswers, GuestType, WorkerType
  <2>3. SetupType'
    BY <1>9, <2>1, <2>2 DEF WriteBlock, GuestAnswers, SetupType
  <2>4. Rest'
    BY <1>9, <2>1, <2>2
       DEF WriteBlock, GuestAnswers, SetupType, InstanceType, OperationType, GuestType, WorkerType
  <2> QED
    BY <2>3, <2>4 DEF SetupInv
<1>10. CASE ClearPending
  <2>1. instance' \in InstanceType
    BY <1>10 DEF ClearPending, InstanceType
  <2>2. SetupType'
    BY <1>10, <2>1, IdleTyped DEF ClearPending, SetupType
  <2>3. Rest'
    BY <1>10, <2>1, IdleTyped
       DEF ClearPending, SetupType, InstanceType, OperationType, GuestType, WorkerType
  <2> QED
    BY <2>2, <2>3 DEF SetupInv
<1>11. CASE rollBackFailedCreate
  <2>1. CASE At("roll_back") /\ guest' = NoGuest /\ GoTo("clean")
             /\ UNCHANGED <<instance, vault, operation, snippet, tries>>
    <3>1. worker' \in WorkerType /\ worker'.at = "clean" /\ worker'.listed = worker.listed
      BY <2>1, WentTo DEF ProgramPoints
    <3>2. SetupType'
      BY <2>1, <3>1, NoGuestTyped DEF SetupType
    <3>3. Rest'
      BY <2>1, <3>1, NoGuestTyped
         DEF SetupType, InstanceType, OperationType, GuestType, WorkerType
    <3> QED
      BY <3>2, <3>3 DEF SetupInv
  <2>2. CASE At("roll_back") /\ guest' \in HalfDestroyed /\ GoTo("fail")
             /\ UNCHANGED <<instance, vault, operation, snippet, tries>>
    <3>1. worker' \in WorkerType /\ worker'.at = "fail" /\ worker'.listed = worker.listed
      BY <2>2, WentTo DEF ProgramPoints
    <3>2. SetupType'
      BY <2>2, <3>1, Halved DEF SetupType
    <3>3. Rest'
      BY <2>2, <3>1, Halved, NoGuestTyped
         DEF SetupType, InstanceType, OperationType, GuestType, WorkerType
    <3> QED
      BY <3>2, <3>3 DEF SetupInv
  <2>3. CASE At("clean") /\ deleteSnippet /\ GoTo("fail")
             /\ (\E throws \in BOOLEAN : instance' = [instance EXCEPT !.vmid = throws])
             /\ UNCHANGED <<vault, operation, guest, tries>>
    <3>1. worker' \in WorkerType /\ worker'.at = "fail" /\ worker'.listed = worker.listed
      BY <2>3, WentTo DEF ProgramPoints
    <3>2. snippet' \in BOOLEAN /\ (snippet' => snippet) /\ (UnlinkNeverFails => ~snippet')
      BY <2>3, Unlinked
    <3>3. /\ instance' \in InstanceType /\ instance'.state = instance.state
          /\ instance'.password = instance.password /\ instance'.private_ip = instance.private_ip
      BY <2>3 DEF InstanceType
    <3>4. SetupType'
      BY <2>3, <3>1, <3>2, <3>3 DEF SetupType
    <3>5. Rest'
      BY <2>3, <3>1, <3>2, <3>3
         DEF SetupType, InstanceType, OperationType, GuestType, WorkerType
    <3> QED
      BY <3>4, <3>5 DEF SetupInv
  <2> QED
    BY <1>11, <2>1, <2>2, <2>3 DEF rollBackFailedCreate
<1> QED
  BY <1>1, <1>2, <1>3, <1>4, <1>5, <1>n, <1>h, <1>6, <1>7, <1>8, <1>9, <1>10, <1>11

LEMMA WorksSteps ==
    ASSUME SetupInv, Works, UNCHANGED pageVars
    PROVE  SetupInv'
BY ConfigureSteps, RestartSteps, AttachSteps, EndSteps DEF Works, SetsUp, Syncs, GivesUp, pageVars

\* A synchronisation that fails, and a worker that is killed.
LEMMA StopSteps ==
    ASSUME SetupInv, UNCHANGED pageVars, SyncFails \/ Killed
    PROVE  SetupInv'
<1>1. /\ worker' = Idle /\ events' \in 0 .. MaxEvents /\ events <= events'
      /\ Killed => events' = events + 1
      /\ UNCHANGED <<ssh_keys, console, instance, vault, operation, guest, snippet, tries>>
  BY Typed, BoundsArePositive DEF SyncFails, Killed, Event, SetupType
<1>2. SetupType'
  BY <1>1, Typed, IdleTyped DEF SetupType
<1>3. Killed => worker.at \notin {"roll_back", "clean", "fail"}
             /\ (StartsAreRecorded => worker.at # "cold_mark")
  BY DEF Killed, At, StartsAreRecorded
<1>4. SyncFails => worker.at = "sync_write"
  BY DEF SyncFails, At
<1>5. Rest'
  BY <1>1, <1>3, <1>4, Typed, IdleTyped
     DEF Rest, pageVars, SetupType, InstanceType, OperationType, GuestType, WorkerType,
         ProgramPoints,
         RowsAgree, StateOf, Settles, WorkerIsAt, GuestNamed, SnippetKept, ColdIsOff,
         PasswordsAgree,
         Configured, TriesCounted, InstallsKnown, RestartConfirmed
<1> QED
  BY <1>2, <1>5 DEF SetupInv

\* Proxmox, the guest and the tailnet.
LEMMA EnvironmentSteps ==
    ASSUME SetupInv, Environment, UNCHANGED pageVars
    PROVE  SetupInv'
<1> USE Typed DEF Rest, pageVars, RowsAgree, StateOf, Settles, WorkerIsAt, GuestNamed, SnippetKept,
        ColdIsOff, PasswordsAgree, Configured, TriesCounted, InstallsKnown, RestartConfirmed
<1>t. ASSUME guest' \in GuestType PROVE SetupType'
  BY <1>t DEF Environment, SetupType
<1>1. CASE GuestStops
  <2>1. guest' \in GuestType
    BY <1>1 DEF GuestStops, GuestType
  <2>2. Rest'
    BY <1>1, <2>1 DEF GuestStops, Environment, GuestType
  <2> QED
    BY <1>t, <2>1, <2>2 DEF SetupInv
<1>2. CASE GuestBoots
  <2>1. CASE guest' = Booted
    <3>1. Rest'
      BY <1>2, <2>1, BootedTyped DEF GuestBoots, Environment, GuestType
    <3> QED
      BY <1>t, <2>1, <3>1, BootedTyped DEF SetupInv
  <2>2. CASE guest' = [guest EXCEPT !.task = "failed"]
    <3>1. guest' \in GuestType
      BY <2>2 DEF GuestType
    <3>2. Rest'
      BY <1>2, <2>2, <3>1 DEF GuestBoots, Environment, GuestType
    <3> QED
      BY <1>t, <3>1, <3>2 DEF SetupInv
  <2> QED
    BY <1>2, <2>1, <2>2 DEF GuestBoots
<1>3. CASE RebootFails
  <2>1. guest' \in GuestType
    BY <1>3 DEF RebootFails, GuestType
  <2>2. Rest'
    BY <1>3, <2>1 DEF RebootFails, Environment, GuestType
  <2> QED
    BY <1>t, <2>1, <2>2 DEF SetupInv
<1>4. CASE LockReleased
  <2>1. guest' \in GuestType
    BY <1>4 DEF LockReleased, GuestType
  <2>2. Rest'
    BY <1>4, <2>1 DEF LockReleased, Environment, GuestType
  <2> QED
    BY <1>t, <2>1, <2>2 DEF SetupInv
<1>5. CASE DeviceJoins
  <2>1. guest' \in GuestType
    BY <1>5 DEF DeviceJoins, GuestType
  <2>2. Rest'
    BY <1>5, <2>1 DEF DeviceJoins, Environment, GuestType
  <2> QED
    BY <1>t, <2>1, <2>2 DEF SetupInv
<1>6. CASE InstallEnds
  <2>1. guest' \in GuestType /\ guest'.installs = guest.installs - 1
    BY <1>6 DEF InstallEnds, GuestType
  <2>2. Rest'
    BY <1>6, <2>1 DEF InstallEnds, Environment, GuestType
  <2> QED
    BY <1>t, <2>1, <2>2 DEF SetupInv
<1> QED
  BY <1>1, <1>2, <1>3, <1>4, <1>5, <1>6 DEF Environment

\* A customer asks for an operation.
LEMMA NoOperationTyped ==
    /\ NoOperation \in OperationType /\ NoOperation.id = 0 /\ NoOperation.kind = "none"
    /\ NoOperation.state = "none" /\ NoOperation.stage = "clone" /\ ~NoOperation.warm
<1>1. [o \in 1 .. MaxOperations |-> "none"]
          \in [1 .. MaxOperations -> {"none", "running", "succeeded", "failed"}]
  OBVIOUS
<1> QED
  BY <1>1, BoundsArePositive DEF NoOperation, OperationType, Stages

LEMMA CreateStep ==
    ASSUME SetupInv, NEW enabled \in BOOLEAN, request_instance_create(enabled),
           UNCHANGED <<ssh_keys, console, vault, snippet, worker, tries, events>>,
           page'.state = page.state, page'.password = page.password
    PROVE  SetupInv'
<1>1. operation.kind = "none" /\ operation.id = 0
  BY Typed DEF request_instance_create, Rest, RowsAgree, StateOf, Settles, OperationType
<1>o. 1 \in 0 .. MaxOperations
  BY BoundsArePositive
<1>2. /\ operation' \in OperationType /\ operation'.id = 1 /\ operation'.kind = "create"
      /\ operation'.state = "running" /\ operation'.stage = "clone" /\ ~operation'.warm
  BY <1>o, NoOperationTyped DEF request_instance_create, OperationType
<1>3. /\ instance' \in InstanceType /\ instance'.state = "provisioning"
      /\ instance'.private_ip = instance.private_ip /\ instance'.password = enabled
      /\ instance'.vmid = instance.vmid
  BY Typed DEF request_instance_create, InstanceType, InstanceStates
<1>4. SetupType'
  BY <1>2, <1>3, Typed DEF SetupType, request_instance_create
<1>5. Rest'
  BY <1>1, <1>2, <1>3, Typed
     DEF Rest, request_instance_create, SetupType, GuestType, RowsAgree, StateOf, Settles,
         WorkerIsAt,
         GuestNamed, SnippetKept, ColdIsOff, PasswordsAgree, Configured, TriesCounted,
         InstallsKnown, RestartConfirmed
<1> QED
  BY <1>4, <1>5 DEF SetupInv

LEMMA Asked ==
    ASSUME SetupType, NEW kind \in {"resize", "snapshot", "delete"}, NEW state \in InstanceStates,
           operation.id \in 1 .. (MaxOperations - 1), AskFor(kind, state)
    PROVE  /\ operation' \in OperationType /\ operation'.id = operation.id + 1
           /\ operation'.kind = kind /\ operation'.state = "running" /\ operation'.exec_pid = "none"
           /\ operation'.stage = "template_cloud_init" /\ ~operation'.warm
           /\ instance' \in InstanceType /\ instance'.state = state
           /\ instance'.password = instance.password /\ instance'.private_ip = instance.private_ip
           /\ instance'.vmid = instance.vmid
<1>1. operation \in OperationType /\ instance \in InstanceType
  BY DEF SetupType
<1>2. [operation.ends EXCEPT ![operation.id] = operation.state]
          \in [1 .. MaxOperations -> {"none", "running", "succeeded", "failed"}]
  BY <1>1 DEF OperationType
<1>3. operation.id + 1 \in 0 .. MaxOperations
  BY BoundsArePositive
<1>4. /\ operation' \in OperationType /\ operation'.id = operation.id + 1
      /\ operation'.kind = kind /\ operation'.state = "running" /\ operation'.exec_pid = "none"
      /\ operation'.stage = "template_cloud_init" /\ ~operation'.warm
  BY <1>2, <1>3 DEF AskFor, NoOperation, OperationType, Stages
<1>5. /\ instance' \in InstanceType /\ instance'.state = state
      /\ instance'.password = instance.password /\ instance'.private_ip = instance.private_ip
      /\ instance'.vmid = instance.vmid
  BY <1>1 DEF AskFor, InstanceType
<1> QED
  BY <1>4, <1>5

LEMMA OperationStep ==
    ASSUME SetupInv, NEW kind \in Kinds, request_instance_operation(kind),
           UNCHANGED <<ssh_keys, console, vault, snippet, worker, tries, events>>,
           page'.state = page.state, page'.password = page.password
    PROVE  SetupInv'
<1>1. kind \in {"resize", "snapshot", "delete"} /\ kind # "delete" /\ "busy" \in InstanceStates
  BY KindsAreOffered DEF InstanceStates
<1>2. /\ operation.kind \in {"create", "resize", "snapshot"} /\ operation.state # "running"
      /\ operation.kind = "create" => operation.state = "succeeded"
      /\ operation.id \in 1 .. (MaxOperations - 1)
  BY Typed, BoundsArePositive
     DEF request_instance_operation, Rest, RowsAgree, StateOf, Settles, OperationType
<1>3. PICK locked \in BOOLEAN :
          guest' = IF kind = "resize"
                   THEN [guest EXCEPT !.applied = FALSE, !.locked = locked, !.installs = 0]
                   ELSE [guest EXCEPT !.installs = 0]
  BY DEF request_instance_operation
<1>4. /\ guest' \in GuestType /\ guest'.exists = guest.exists /\ guest'.vendor = guest.vendor
      /\ guest'.installs = 0 /\ guest'.password = guest.password /\ guest'.booted = guest.booted
      /\ guest'.cipassword = guest.cipassword
  BY <1>3, Typed DEF GuestType
<1>5. /\ operation' \in OperationType /\ operation'.id = operation.id + 1
      /\ operation'.kind = kind /\ operation'.state = "running"
      /\ operation'.stage = "template_cloud_init"
      /\ instance' \in InstanceType /\ instance'.state = "busy"
      /\ instance'.password = instance.password /\ instance'.vmid = instance.vmid
  BY <1>1, <1>2, Asked, Typed DEF request_instance_operation
<1>6. SetupType'
  BY <1>4, <1>5, Typed DEF SetupType
<1>7. Rest'
  BY <1>1, <1>2, <1>4, <1>5, Typed
     DEF Rest, SetupType, RowsAgree, StateOf, Settles, WorkerIsAt, GuestNamed, SnippetKept,
         ColdIsOff,
         PasswordsAgree, Configured, TriesCounted, InstallsKnown, RestartConfirmed, OperationType,
         GuestType
<1> QED
  BY <1>6, <1>7 DEF SetupInv

LEMMA DeletionStep ==
    ASSUME SetupInv, request_instance_deletion,
           UNCHANGED <<ssh_keys, console, vault, snippet, worker, tries, events>>,
           page'.state = page.state, page'.password = page.password
    PROVE  SetupInv'
<1>1. /\ operation.kind # "none" /\ operation.state # "running"
      /\ operation.id \in 1 .. (MaxOperations - 1)
  BY Typed, BoundsArePositive
     DEF request_instance_deletion, Rest, RowsAgree, StateOf, Settles, OperationType
<1>2. /\ operation' \in OperationType /\ operation'.id = operation.id + 1
      /\ operation'.kind = "delete" /\ operation'.state = "running"
      /\ operation'.stage = "template_cloud_init"
      /\ instance' \in InstanceType /\ instance'.state = "deleting"
      /\ instance'.password = instance.password /\ instance'.vmid = instance.vmid
      /\ guest' = guest
  BY <1>1, Asked, Typed DEF request_instance_deletion, InstanceStates
<1>3. SetupType'
  BY <1>2, Typed DEF SetupType
<1>4. Rest'
  BY <1>1, <1>2, Typed
     DEF Rest, SetupType, RowsAgree, StateOf, Settles, WorkerIsAt, GuestNamed, SnippetKept,
         ColdIsOff,
         PasswordsAgree, Configured, TriesCounted, InstallsKnown, RestartConfirmed, OperationType,
         GuestType
<1> QED
  BY <1>3, <1>4 DEF SetupInv

\* The organisation's keys change.
LEMMA KeyStep ==
    ASSUME SetupInv, KeysChange
    PROVE  SetupInv'
<1>1. /\ ssh_keys' \subseteq KeyIds /\ console' \in {"idle", "mark"}
      /\ events' \in 0 .. MaxEvents /\ events <= events'
      /\ UNCHANGED <<vault, operation, guest, snippet, worker, tries, page>>
  BY Typed, BoundsArePositive
     DEF KeysChange, mark_org_instances_ssh_dirty, addSshKey, removeSshKey, Event, SetupType,
         pageVars
<1>2. /\ instance' \in InstanceType /\ instance'.state = instance.state
      /\ instance'.password = instance.password /\ instance'.private_ip = instance.private_ip
      /\ instance'.vmid = instance.vmid
  <2>1. CASE mark_org_instances_ssh_dirty
    BY <2>1, Typed DEF mark_org_instances_ssh_dirty, InstanceType
  <2>2. CASE UNCHANGED instance
    BY <2>2, Typed
  <2> QED
    BY <2>1, <2>2 DEF KeysChange, addSshKey, removeSshKey
<1>3. SetupType'
  BY <1>1, <1>2, Typed DEF SetupType
<1>4. Rest'
  BY <1>1, <1>2, Typed
     DEF Rest, SetupType, RowsAgree, StateOf, Settles, WorkerIsAt, GuestNamed, SnippetKept,
         ColdIsOff,
         PasswordsAgree, Configured, TriesCounted, InstallsKnown, RestartConfirmed
<1> QED
  BY <1>3, <1>4 DEF SetupInv

-----------------------------------------------------------------------------
(* The page.                                                               *)

\* What the browser does alone: the page may forget the password, and shows an
\* instance as ready only when it is configured.
LEMMA BrowserStays ==
    ASSUME SetupInv, UNCHANGED <<ssh_keys, console, instance, vault, operation, guest, snippet,
                                 worker, tries>>,
           events' \in 0 .. MaxEvents, events <= events',
           page'.state = "ready" =>
               Configured /\ (operation.kind = "delete" => page.state = "ready"),
           page'.password \in {0, page.password}
    PROVE  SetupInv'
<1>1. SetupType'
  BY Typed DEF SetupType
<1>2. Rest'
  BY Typed
     DEF Rest, SetupType, RowsAgree, StateOf, Settles, WorkerIsAt, GuestNamed, SnippetKept,
         ColdIsOff,
         PasswordsAgree, Configured, TriesCounted, InstallsKnown, RestartConfirmed
<1> QED
  BY <1>1, <1>2 DEF SetupInv

LEMMA ShownTyped ==
    /\ SetupType => Shown(operation) \in Answers(0 .. MaxOperations)
                    /\ Shown(operation).id = operation.id
    /\ Shown(NoOperation) \in Answers(0 .. MaxOperations)
BY NoOperationTyped DEF SetupType, OperationType, Shown, Answers

LEMMA NoPageTyped ==
    NoPage \in PageRecord /\ NoPage.state = "none" /\ NoPage.password = 0 /\ ~NoPage.open
BY ShownTyped DEF NoPage, PageRecord, InstanceStates

LEMMA NewPage ==
    ASSUME NEW p, p = [NoPage EXCEPT !.open = TRUE, !.rendering = TRUE]
    PROVE  p \in PageRecord /\ p.state = "none" /\ p.password = 0 /\ p.open /\ p.rendering
BY NoPageTyped DEF PageRecord

\* An instance whose row says ready has been given its password.
LEMMA ReadyIsConfigured ==
    ASSUME SetupInv, instance.state = "ready"
    PROVE  Configured /\ operation.kind # "delete"
BY Typed DEF Rest, RowsAgree, StateOf, Settles, Configured, OperationType

\* A poll that is added to fewer than the bound, and one that is answered.
LEMMA PollsCounted ==
    ASSUME PageType, NEW answer
    PROVE  /\ IsFiniteSet(polls \cup {answer}) /\ IsFiniteSet(polls \ {answer}) /\ IsFiniteSet({})
           /\ Cardinality(polls) < MaxPolls => Cardinality(polls \cup {answer}) <= MaxPolls
           /\ Cardinality(polls \ {answer}) <= MaxPolls
           /\ Cardinality({}) <= MaxPolls
<1>1. IsFiniteSet(polls) /\ Cardinality(polls) \in Nat /\ Cardinality(polls) <= MaxPolls
  BY FS_CardinalityType DEF PageType
<1>2. /\ IsFiniteSet(polls \cup {answer})
      /\ Cardinality(polls \cup {answer}) \in {Cardinality(polls), Cardinality(polls) + 1}
  BY <1>1, FS_AddElement
<1>3. /\ IsFiniteSet(polls \ {answer})
      /\ Cardinality(polls \ {answer}) \in {Cardinality(polls), Cardinality(polls) - 1}
  BY <1>1, FS_RemoveElement
<1>4. IsFiniteSet({}) /\ Cardinality({}) = 0
  BY FS_EmptySet
<1> QED
  BY <1>1, <1>2, <1>3, <1>4, ConsoleBounds

\* The form.
LEMMA FormSteps ==
    ASSUME IInv, Submit \/ Redirect \/ SubmitFails \/ OpenPage
    PROVE  IInv'
<1> USE DEF IInv
<1>t. /\ SetupType /\ page \in PageRecord /\ events \in 0 .. MaxEvents /\ page.password \in Nat
      /\ page.state = "ready" => Configured
  BY Typed DEF PageType, PageRecord, SetupType, Rest, PasswordsAgree
<1>1. CASE Submit
  <2>1. form' \in [at: {"open", "sent", "answered", "left"}, submits: 0 .. MaxSubmits,
                   password: BOOLEAN] /\ form'.at = "sent"
    BY <1>1, ConsoleBounds DEF Submit, PageType
  <2>2. SetupInv'
    BY <1>1, <1>t, BrowserStays DEF Submit, guestVars
  <2> QED
    BY <1>1, <2>1, <2>2 DEF Submit, PageType, guestVars
<1>2. CASE Redirect \/ OpenPage
  <2>1. form' \in [at: {"open", "sent", "answered", "left"}, submits: 0 .. MaxSubmits,
                   password: BOOLEAN] /\ form'.at = "left"
    <3>1. 0 \in 0 .. MaxSubmits
      BY ConsoleBounds
    <3>2. form' = FormLeft
      BY <1>2 DEF Redirect, OpenPage
    <3> QED
      BY <3>1, <3>2 DEF FormLeft
  <2>2. page' \in PageRecord /\ page'.state = "none" /\ page'.password = 0 /\ page'.rendering
    BY <1>2, NewPage DEF Redirect, OpenPage
  <2>3. SetupInv'
    BY <1>2, <1>t, <2>2, BrowserStays DEF Redirect, OpenPage, guestVars
  <2>4. operation.kind # "none"
    BY <1>2, Typed DEF Redirect, OpenPage, PageType, Rest, RowsAgree, StateOf, Settles
  <2> QED
    BY <1>2, <2>1, <2>2, <2>3, <2>4 DEF Redirect, OpenPage, PageType, guestVars
<1>3. CASE SubmitFails
  <2>1. form' \in [at: {"open", "sent", "answered", "left"}, submits: 0 .. MaxSubmits,
                   password: BOOLEAN] /\ form'.at = "open"
    BY <1>3 DEF SubmitFails, PageType
  <2>2. SetupInv'
    BY <1>3, <1>t, BrowserStays DEF SubmitFails, guestVars
  <2> QED
    BY <1>3, <2>1, <2>2 DEF SubmitFails, PageType, guestVars
<1> QED
  BY <1>1, <1>2, <1>3

LEMMA AcceptStep ==
    ASSUME IInv, Accept
    PROVE  IInv'
<1> USE DEF IInv
<1>1. form' \in [at: {"open", "sent", "answered", "left"}, submits: 0 .. MaxSubmits,
                 password: BOOLEAN] /\ form.password \in BOOLEAN
  BY DEF Accept, PageType
<1>2. accepted' = {1}
  BY DEF Accept, PageType, IdempotencyKey
<1>3. CASE accepted = {}
  <2>1. request_instance_create(form.password)
    BY <1>3 DEF Accept
  <2>2. SetupInv'
    BY <1>1, <1>3, <2>1, CreateStep DEF Accept
  <2>3. operation'.kind = "create"
    BY <2>1, NoOperationTyped DEF request_instance_create, OperationType
  <2> QED
    BY <1>1, <1>2, <2>2, <2>3 DEF Accept, PageType
<1>4. CASE accepted # {}
  <2>1. SetupInv'
    BY <1>4, Typed, BrowserStays DEF Accept, guestVars, Rest, PasswordsAgree, SetupType
  <2> QED
    BY <1>1, <1>2, <1>4, <2>1 DEF Accept, PageType, guestVars
<1> QED
  BY <1>3, <1>4

\* The page: rendering, reloading, polling.
LEMMA RenderSteps ==
    ASSUME IInv, Render \/ Reload \/ DeletionPoll
    PROVE  IInv'
<1> USE DEF IInv
<1>t. /\ SetupType /\ page \in PageRecord /\ events \in 0 .. MaxEvents /\ page.password \in Nat
      /\ page.state = "ready" => Configured
  BY Typed DEF PageType, PageRecord, SetupType, Rest, PasswordsAgree
<1>1. CASE Render /\ instance.state # "gone"
  <2>1. PICK state \in StatesRead :
            page' = [page EXCEPT !.rendering = FALSE, !.state = state, !.operation = Shown(operation)]
    BY <1>1 DEF Render
  <2>2. state \in InstanceStates /\ (state = "ready" => Configured /\ operation.kind # "delete")
    BY <2>1, ReadyIsConfigured, Typed DEF StatesRead, InstanceStates, InstanceType
  <2>3. /\ page' \in PageRecord /\ page'.state = state /\ page'.password = page.password
        /\ page'.open = page.open /\ page'.operation.id = operation.id
    BY <1>t, <2>1, <2>2, ShownTyped DEF PageRecord
  <2>4. UNCHANGED guestVars /\ UNCHANGED <<form, accepted>> /\ polls' = polls
    BY <1>1 DEF Render
  <2>5. SetupInv'
    BY <1>t, <2>2, <2>3, <2>4, BrowserStays DEF guestVars
  <2>6. operation.kind # "none" => operation.id # 0
    BY Typed DEF Rest, RowsAgree
  <2> QED
    BY <2>3, <2>4, <2>5, <2>6 DEF PageType, guestVars
<1>2. CASE page' = NoPage /\ polls' = {} /\ UNCHANGED <<guestVars, form, accepted>>
  <2>1. SetupInv'
    BY <1>2, <1>t, NoPageTyped, BrowserStays DEF guestVars
  <2> QED
    BY <1>2, <2>1, NoPageTyped, PollsCounted DEF PageType, guestVars
<1>3. CASE Reload
  <2>1. page' \in PageRecord /\ page'.state = "none" /\ page'.password = 0 /\ page'.rendering
    BY <1>3, NewPage DEF Reload
  <2>2. events' \in 0 .. MaxEvents /\ events <= events'
    BY <1>3, <1>t, BoundsArePositive DEF Reload, Event
  <2>3. SetupInv'
    BY <1>3, <2>1, <2>2, BrowserStays DEF Reload
  <2> QED
    BY <1>3, <2>1, <2>3, PollsCounted DEF Reload, PageType
<1> QED
  BY <1>1, <1>2, <1>3 DEF Render, DeletionPoll

LEMMA PollSteps ==
    ASSUME IInv, Poll \/ PollAnswered
    PROVE  IInv'
<1> USE DEF IInv
<1>t. /\ SetupType /\ page \in PageRecord /\ events \in 0 .. MaxEvents /\ page.password \in Nat
      /\ page.state = "ready" => Configured
  BY Typed DEF PageType, PageRecord, SetupType, Rest, PasswordsAgree
<1>1. CASE Poll
  <2>1. SetupInv'
    BY <1>1, <1>t, BrowserStays DEF Poll, guestVars
  <2>2. page.operation.id \in 1 .. MaxOperations
    BY <1>1, <1>t DEF Poll, PageType, PageRecord, Answers
  <2>3. operation.id \in 0 .. MaxOperations
        /\ operation.state \in {"none", "running", "succeeded", "failed"}
        /\ operation.ends[page.operation.id] \in {"none", "running", "succeeded", "failed"}
    BY <2>2, Typed DEF OperationType
  <2>4. OperationIs(page.operation.id) \in Answers(1 .. MaxOperations)
    BY <2>2, <2>3 DEF OperationIs, Shown, Answers
  <2> QED
    BY <1>1, <2>1, <2>4, PollsCounted DEF Poll, PageType, guestVars
<1>2. CASE PollAnswered
  <2>1. PICK answer \in polls :
            /\ polls' = polls \ {answer}
            /\ page' = [page EXCEPT
                   !.operation = answer,
                   !.refreshed = @ \/ answer.state \in Terminal,
                   !.rendering = @ \/ (answer.state \in Terminal /\ ~page.refreshed)]
            /\ UNCHANGED <<guestVars, form, accepted>>
    BY <1>2 DEF PollAnswered
  <2>2. answer \in Answers(1 .. MaxOperations) /\ answer \in Answers(0 .. MaxOperations) /\ answer.id # 0
    BY <2>1 DEF PageType, Answers
  <2>3. /\ page' \in PageRecord /\ page'.state = page.state /\ page'.password = page.password
        /\ page'.open = page.open /\ page'.operation = answer
    BY <1>t, <2>1, <2>2 DEF PageRecord
  <2>4. SetupInv'
    BY <1>t, <2>1, <2>3, BrowserStays DEF guestVars
  <2> QED
    BY <2>1, <2>2, <2>3, <2>4, PollsCounted DEF PageType, guestVars
<1> QED
  BY <1>1, <1>2

\* The actions of the page.
LEMMA ActSteps ==
    ASSUME IInv, resizeOrSnapshot \/ deleteInstance \/ KeysChange
    PROVE  IInv'
<1> USE DEF IInv
<1>1. CASE resizeOrSnapshot \/ deleteInstance
  <2>1. page \in PageRecord /\ page' = [page EXCEPT !.rendering = TRUE]
    BY <1>1 DEF resizeOrSnapshot, deleteInstance, MayAct, PageType
  <2>2. /\ page' \in PageRecord /\ page'.state = page.state /\ page'.password = page.password
        /\ page'.open = page.open /\ page'.rendering
    BY <2>1 DEF PageRecord
  <2>3. SetupInv' /\ operation'.kind # "none"
    <3>1. CASE resizeOrSnapshot
      <4>1. PICK kind \in Kinds : request_instance_operation(kind)
        BY <3>1 DEF resizeOrSnapshot
      <4>2. SetupInv'
        BY <3>1, <4>1, <2>2, OperationStep DEF resizeOrSnapshot
      <4>3. operation'.kind = kind /\ kind # "none"
        BY <4>1, KindsAreOffered, NoOperationTyped
           DEF request_instance_operation, AskFor, OperationType
      <4> QED
        BY <4>2, <4>3
    <3>2. CASE deleteInstance
      <4>1. SetupInv'
        BY <3>2, <2>2, DeletionStep DEF deleteInstance
      <4>2. operation'.kind = "delete"
        BY <3>2, NoOperationTyped
           DEF deleteInstance, request_instance_deletion, AskFor, OperationType
      <4> QED
        BY <4>1, <4>2
    <3> QED
      BY <1>1, <3>1, <3>2
  <2> QED
    BY <1>1, <2>2, <2>3 DEF resizeOrSnapshot, deleteInstance, PageType
<1>2. CASE KeysChange
  BY <1>2, KeyStep DEF KeysChange, PageType, pageVars
<1> QED
  BY <1>1, <1>2

\* Revealing the password takes it out of the vault; the page keeps it.
LEMMA RevealStep ==
    ASSUME IInv, revealInstancePassword
    PROVE  IInv'
<1> USE DEF IInv
<1>1. PICK lost \in BOOLEAN :
          page' = IF lost THEN page ELSE [page EXCEPT !.fired = TRUE, !.password = vault]
  BY DEF revealInstancePassword, MayHappen
<1>2. /\ page' \in PageRecord /\ page'.state = page.state /\ page'.open = page.open
      /\ page'.rendering = page.rendering /\ page'.operation = page.operation
      /\ page'.password \in {page.password, vault}
  BY <1>1, Typed DEF PageType, PageRecord, SetupType
<1>3. /\ Configured /\ instance.password /\ vault' = 0 /\ page.state = "ready"
      /\ UNCHANGED <<ssh_keys, console, instance, operation, guest, snippet, worker, tries, events>>
  BY Typed DEF revealInstancePassword, Rest, PasswordsAgree
<1>4. SetupType'
  BY <1>3, Typed DEF SetupType
<1>5. Rest'
  BY <1>2, <1>3, Typed
     DEF Rest, SetupType, RowsAgree, StateOf, Settles, WorkerIsAt, GuestNamed, SnippetKept,
         ColdIsOff,
         PasswordsAgree, Configured, TriesCounted, InstallsKnown, RestartConfirmed
<1>6. PageType'
  BY <1>2, <1>3 DEF revealInstancePassword, PageType
<1> QED
  BY <1>4, <1>5, <1>6 DEF SetupInv

\* The worker and what it runs in leave the page alone, and never take an
\* operation back.
LEMMA RunSteps ==
    ASSUME IInv, Runs
    PROVE  IInv'
<1> USE DEF IInv
<1>1. SetupInv' /\ UNCHANGED pageVars
  BY WorksSteps, StopSteps, EnvironmentSteps DEF Runs
<1>2. operation'.kind = operation.kind
  <2>1. CASE SetsUp
    BY <2>1, Typed
       DEF SetsUp, Clone, ColdPassword, isFromWarmPool, writeSnippet, PutConfig, StartCold,
           MarkTemplate, WarmPassword, WarmExec, SnapshotInit, RestartBegins, PostRestart, AwaitRestart, RestartFailed,
           ConfirmRestart, StartStopped, HasAddress, AttachWarm, AttachCold,
           detachVendorSnippet, EndAttach, InstallStarts, InstallLost, InstallExited, Verify, Finish,
           rollBackFailedCreate, FinishFailed, NothingToTearDown, TearDown,
           TearDownThrows, DeleteItsSnippet, FinishDelete, markStage,
           OperationType
  <2>2. CASE Syncs \/ GivesUp \/ SyncFails \/ Killed \/ Environment
    BY <2>2, Typed
       DEF Syncs, ListPendingSync, GuestAnswers, WriteBlock, ClearPending, GivesUp,
           RestartGivesUp, AgentSilent, CallFails, SyncFails, Killed, Environment, OperationType
  <2> QED
    BY <2>1, <2>2 DEF Runs, Works
<1> QED
  BY <1>1, <1>2 DEF PageType, pageVars

LEMMA IInvNext ==
    ASSUME IInv, [Next]_vars
    PROVE  IInv'
<1>1. CASE UNCHANGED vars
  <2>1. SetupInv'
    BY <1>1, Typed, BrowserStays
       DEF IInv, vars, guestVars, pageVars, SetupType, Rest, PasswordsAgree
  <2> QED
    BY <1>1, <2>1 DEF IInv, vars, guestVars, pageVars, PageType
<1> QED
  BY <1>1, FormSteps, AcceptStep, RenderSteps, PollSteps, ActSteps, RevealStep, RunSteps
     DEF Next, Browses, Acts, Rests

LEMMA IInvInit == ConsoleInit => IInv
<1> SUFFICES ASSUME ConsoleInit PROVE IInv
  OBVIOUS
<1>1. SetupType
  <2>1. instance \in InstanceType
    BY DEF ConsoleInit, Init, InstanceType, InstanceStates
  <2>2. events \in 0 .. MaxEvents
    BY BoundsArePositive DEF ConsoleInit, Init
  <2> QED
    BY <2>1, <2>2, NoOperationTyped, NoGuestTyped, IdleTyped DEF ConsoleInit, Init, SetupType
<1>2. Rest
  BY NoOperationTyped, NoGuestTyped, IdleTyped, NoPageTyped, BoundsArePositive
     DEF ConsoleInit, Init, Rest, RowsAgree, StateOf, Settles, WorkerIsAt, GuestNamed,
         SnippetKept, ColdIsOff,
         PasswordsAgree, Configured, TriesCounted, InstallsKnown, RestartConfirmed
<1>3. PageType
  BY NoPageTyped, FS_EmptySet, ConsoleBounds DEF ConsoleInit, Init, PageType
<1> QED
  BY <1>1, <1>2, <1>3 DEF IInv, SetupInv

-----------------------------------------------------------------------------
(* The theorems.  All rest on the same invariant.                          *)

\* Every variable has its type; at most one installation runs in the guest at a
\* time, however often its stage is taken up again; a form makes one instance,
\* however often it is submitted (index.js, stageNetworkAccess;
\* create-instance-wizard.tsx).
THEOREM TypeCorrect == ASSUME "agent_silent" \notin Faults PROVE Spec => []TypeOK
<1>1. IInv => TypeOK
  <2> SUFFICES ASSUME IInv PROVE TypeOK
    OBVIOUS
  <2>1. /\ ssh_keys \subseteq KeyIds /\ console \in {"idle", "mark"}
        /\ instance.state \in InstanceStates /\ operation.id \in 0 .. MaxOperations
        /\ operation.stage \in Stages /\ worker.at \in ProgramPoints /\ events \in 0 .. MaxEvents
        /\ guest.block \cup guest.image_keys \cup guest.cikeys \cup worker.listed \subseteq KeyIds
    BY Typed DEF IInv, SetupType, InstanceType, OperationType, GuestType, WorkerType
  <2>2. {vault, tries, guest.password, guest.cipassword, page.password} \subseteq Passwords
    BY Typed, BoundsArePositive
       DEF IInv, Rest, TriesCounted, SetupType, GuestType, PageType, PageRecord, Passwords
  <2>3. guest.installs \in 0 .. 1
    BY Typed DEF IInv, Rest, InstallsKnown, AgentAnswers
  <2>4. page.state \in InstanceStates /\ page.operation.id \in 0 .. MaxOperations
        /\ Cardinality(polls) <= MaxPolls /\ form.submits \in 0 .. MaxSubmits
    BY DEF IInv, PageType, PageRecord, Answers
  <2>5. Cardinality(accepted) <= 1
    <3>1. IsFiniteSet({1}) /\ Cardinality({1}) = 1
      BY FS_Singleton
    <3>2. accepted \in SUBSET {1}
      BY DEF IInv, PageType
    <3>3. Cardinality(accepted) <= Cardinality({1})
      BY <3>1, <3>2, FS_Subset
    <3> QED
      BY <3>1, <3>3
  <2> QED
    BY <2>1, <2>2, <2>3, <2>4, <2>5 DEF TypeOK
<1>2. IInv /\ [Next]_vars => IInv'
  BY IInvNext
<1> QED
  BY <1>1, <1>2, IInvInit, PTL DEF Spec

\* A guest's configuration never names a snippet that is not there, wherever its
\* worker is killed, as long as a detach that fails does not go unnoticed
\* (index.js:594, detachVendorSnippet).
THEOREM AlwaysStartable == ASSUME "detach_fails" \notin Faults PROVE Spec => []VmStartable
<1>1. IInv => VmStartable
  BY Typed DEF IInv, Rest, SnippetKept, VmStartable, DetachNeverFails
<1>2. IInv /\ [Next]_vars => IInv'
  BY IInvNext
<1> QED
  BY <1>1, <1>2, IInvInit, PTL DEF Spec

\* A create that failed and whose roll-back threw, and a teardown that threw, leave
\* a row that names the guest and so the snippet with the tailnet key; no instance
\* in use has a snippet, as long as an unlink that fails does not go unnoticed
\* (index.js:1453, rollBackFailedCreate; index.js:587, deleteSnippet).
THEOREM LeftoversAlwaysFindable ==
    ASSUME "unlink_fails" \notin Faults
    PROVE  Spec => []LeftoversFindable
<1>1. IInv => LeftoversFindable
  BY Typed
     DEF IInv, Rest, GuestNamed, SnippetKept, RowsAgree, StateOf, Settles, LeftoversFindable,
         UnlinkNeverFails, OperationType
<1>2. IInv /\ [Next]_vars => IInv'
  BY IInvNext
<1> QED
  BY <1>1, <1>2, IInvInit, PTL DEF Spec

\* The password the page reveals once is the guest's, however many attempts made
\* one, when a guest that was started is recorded as started (index.js,
\* stageTemplateCloudInit; actions.ts, revealInstancePassword).
THEOREM RevealedAlwaysWorks ==
    ASSUME "killed_started" \notin Faults
    PROVE  Spec => []RevealedPasswordWorks
<1>1. IInv => RevealedPasswordWorks
  BY Typed DEF IInv, Rest, PasswordsAgree, RevealedPasswordWorks, StartsAreRecorded
<1>2. IInv /\ [Next]_vars => IInv'
  BY IInvNext
<1> QED
  BY <1>1, <1>2, IInvInit, PTL DEF Spec

\* A resize that has succeeded runs with the configuration it was given
\* (index.js, restartInstanceAfterConfigChange).
THEOREM ResizeAlwaysTakesEffect == Spec => []ResizeTakesEffect
<1>1. IInv => ResizeTakesEffect
  BY Typed DEF IInv, Rest, RestartConfirmed, RowsAgree, ResizeTakesEffect
<1>2. IInv /\ [Next]_vars => IInv'
  BY IInvNext
<1> QED
  BY <1>1, <1>2, IInvInit, PTL DEF Spec
=============================================================================
