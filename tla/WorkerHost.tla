----------------------------- MODULE WorkerHost -----------------------------
(***************************************************************************)
(* The container a site worker lives in.  Four things change it, and none  *)
(* of them knows of the others:                                            *)
(*  - deploy-pull.sh, every two minutes: stages what is on main if its     *)
(*    checksum is new, checks it, switches the symlink `current' to it,    *)
(*    and switches back if it does not start or does not pass --health;    *)
(*  - cutover-worker.sh, run by an operator: mints a worker token, puts it *)
(*    into worker.env and puts the old file back if the live release does  *)
(*    not accept it;                                                       *)
(*  - the worker's own timer, which runs the live release;                 *)
(*  - pushes to main.                                                      *)
(*                                                                         *)
(* Simplifications, and why each is sound:                                 *)
(*  - A release is the commit it was staged from: directories are named by *)
(*    the second, and what is staged never changes.  Old directories, and  *)
(*    their removal after a deploy, are left out: the live release and the *)
(*    one before it are never among those removed.                         *)
(*  - A credential that works works until it is replaced.                  *)
(*  - An attempt at --health that fails and is repeated is a delay.        *)
(*                                                                         *)
(* Faults names what may go wrong besides failing commits and tokens:      *)
(*   killed_live  deploy-pull.sh is killed after the switch (it may always *)
(*                be killed before)                                        *)
(*   ssh_lost     cutover-worker.sh ends after it has activated the new    *)
(*                file: its connection is lost, or restarting the timer    *)
(*                fails, which no restore follows                          *)
(***************************************************************************)
EXTENDS Naturals

CONSTANTS
    Commits,
    Sound,       \* commits that pass node --check, npm install and npm test
    Starts,      \* commits whose index.js loads and runs
    Healthy,     \* commits that also pass --health with working credentials
    MaxEvents,   \* pushes, cutovers and kills in a behaviour
    Faults,
    NoCommit

ASSUME CommitsAreKnown == Sound \subseteq Commits /\ Healthy \subseteq Starts /\ Starts \subseteq Commits
ASSUME NoCommitIsNone == NoCommit \notin Commits
ASSUME MaxEventsIsNat == MaxEvents \in Nat

VARIABLES
    main,         \* the commit on main
    current,      \* the release the symlink points to
    state_file,   \* .deployed-checksum
    deploy,       \* a run of deploy-pull.sh
    worker_env,   \* /etc/guildcloud/worker.env
    cutover,      \* a run of cutover-worker.sh
    worker,       \* a run of guildcloud-worker.service
    proven,       \* releases that have passed the health gate: history
    events

vars == <<main, current, state_file, deploy, worker_env, cutover, worker, proven, events>>

-----------------------------------------------------------------------------
(* What worker.env may hold: the service-role key; a token that the control *)
(* plane accepts; one it refuses (signed with a key it does not know); or   *)
(* what loadWorkerConfig rejects (no API key beside the token).             *)
Envs == {"service_role", "token", "refused_token", "incomplete"}
Working == {"service_role", "token"}
NoEnv == "none"

\* What a minted token makes of the file: the control plane alone can tell a
\* good token from one signed with a key it does not know.
Minted == {"token", "refused_token", "incomplete"}

NoDeploy == [pc |-> "idle", release |-> NoCommit, previous |-> NoCommit, env |-> NoEnv]
NoCutover == [pc |-> "idle", fresh |-> NoEnv, backup |-> NoEnv]
NoRun == [release |-> NoCommit, ok |-> FALSE]

TypeOK ==
    /\ main \in Commits
    /\ {current, state_file} \subseteq Commits \cup {NoCommit}
    /\ deploy \in [pc: {"idle", "staged", "checked", "live", "waiting", "gate", "roll_back", "record"},
                   release: Commits \cup {NoCommit}, previous: Commits \cup {NoCommit},
                   env: Envs \cup {NoEnv}]
    /\ worker_env \in Envs
    /\ cutover \in [pc: {"idle", "prepared", "activated", "restarted"}, fresh: Envs \cup {NoEnv},
                    backup: Envs \cup {NoEnv}]
    /\ worker \in [release: Commits \cup {NoCommit}, ok: BOOLEAN]
    /\ proven \subseteq Commits
    /\ events \in 0 .. MaxEvents

\* A new host, or one that runs a healthy release.
Init ==
    /\ main \in Commits
    /\ current \in Healthy \cup {NoCommit}
    /\ state_file = current
    /\ proven = {current} \ {NoCommit}
    /\ worker_env \in Working
    /\ deploy = NoDeploy /\ cutover = NoCutover /\ worker = NoRun
    /\ events = 0

\* Whether a release, started with a file, has the credentials it needs.
healthFailures(release, env) == release \notin Healthy \/ env \notin Working

\* What the deploy script's own environment makes of the file.  systemd gave it
\* the file as it was when the script started; a key that the new file no longer
\* holds stays set, and parseControlPlaneAuth refuses both credentials at once.
Sourced(start, env) ==
    IF start # env /\ "service_role" \in {start, env} THEN "incomplete" ELSE env

Event == events < MaxEvents /\ events' = events + 1

Deploying(pc) == deploy.pc = pc
Deploys(pc) == deploy' = [deploy EXCEPT !.pc = pc]

-----------------------------------------------------------------------------
(* deploy-pull.sh.                                                         *)

Push(c) ==
    /\ Event
    /\ c # main
    /\ main' = c
    /\ UNCHANGED <<current, state_file, deploy, worker_env, cutover, worker, proven>>

Stage ==
    /\ Deploying("idle")
    /\ main # state_file
    /\ deploy' = [pc |-> "staged", release |-> main, previous |-> current, env |-> worker_env]
    /\ UNCHANGED <<main, current, state_file, worker_env, cutover, worker, proven, events>>

Check ==
    /\ Deploying("staged")
    /\ IF deploy.release \in Sound THEN Deploys("checked") ELSE deploy' = NoDeploy
    /\ UNCHANGED <<main, current, state_file, worker_env, cutover, worker, proven, events>>

\* The mistake: what was staged counts as deployed before it passed the gate.
Switch_recorded ==
    /\ Deploying("checked")
    /\ current' = deploy.release
    /\ state_file' = deploy.release
    /\ Deploys("live")
    /\ UNCHANGED <<main, worker_env, cutover, worker, proven, events>>

Switch ==
    /\ Deploying("checked")
    /\ current' = deploy.release
    /\ Deploys("live")
    /\ UNCHANGED <<main, state_file, worker_env, cutover, worker, proven, events>>

\* A run of the live release: it fails with what --health would fail with.
Run == [release |-> current, ok |-> current \in Starts /\ worker_env \in Working]

\* The service is a oneshot: starting it waits for its run, and a run of the
\* old release that is still going on is waited for instead.
StartService ==
    /\ Deploying("live")
    /\ worker' = IF worker = NoRun THEN Run ELSE worker
    /\ Deploys("waiting")
    /\ UNCHANGED <<main, current, state_file, worker_env, cutover, proven, events>>

HealthGate ==
    /\ Deploying("gate")
    /\ IF healthFailures(current, Sourced(deploy.env, worker_env))
       THEN Deploys("roll_back") /\ UNCHANGED proven
       ELSE Deploys("record") /\ proven' = proven \cup {current}
    /\ UNCHANGED <<main, current, state_file, worker_env, cutover, worker, events>>

Record ==
    /\ Deploying("record")
    /\ state_file' = deploy.release
    /\ deploy' = NoDeploy
    /\ UNCHANGED <<main, current, worker_env, cutover, worker, proven, events>>

roll_back_timer_only ==
    /\ Deploying("roll_back")
    /\ deploy' = NoDeploy
    /\ UNCHANGED <<main, current, state_file, worker_env, cutover, worker, proven, events>>

\* Without a previous release the failed one stays.
roll_back ==
    /\ Deploying("roll_back")
    /\ current' = IF deploy.previous = NoCommit THEN current ELSE deploy.previous
    /\ deploy' = NoDeploy
    /\ UNCHANGED <<main, state_file, worker_env, cutover, worker, proven, events>>

DeployKilled ==
    /\ Event
    /\ ~Deploying("idle")
    /\ deploy.pc \in {"staged", "checked"} \/ "killed_live" \in Faults
    /\ deploy' = NoDeploy
    /\ UNCHANGED <<main, current, state_file, worker_env, cutover, worker, proven>>

-----------------------------------------------------------------------------
(* The worker's timer, and the end of a run.                               *)

\* A release that does not load is gone before anything could wait for it.
TimerStarts ==
    /\ worker = NoRun /\ current # NoCommit
    /\ worker' = IF current \in Starts THEN Run ELSE NoRun
    /\ UNCHANGED <<main, current, state_file, deploy, worker_env, cutover, proven, events>>

RunEnds ==
    /\ worker # NoRun
    /\ worker' = NoRun
    /\ IF Deploying("waiting")
       THEN Deploys(IF worker.ok THEN "gate" ELSE "roll_back")
       ELSE UNCHANGED deploy
    /\ UNCHANGED <<main, current, state_file, worker_env, cutover, proven, events>>

-----------------------------------------------------------------------------
(* cutover-worker.sh.                                                      *)

\* A token is minted and staged; what comes of it shows later.
Prepare_unsaved(fresh) ==
    /\ Event
    /\ cutover.pc = "idle" /\ current # NoCommit
    /\ cutover' = [pc |-> "prepared", fresh |-> fresh, backup |-> NoEnv]
    /\ UNCHANGED <<main, current, state_file, deploy, worker_env, worker, proven>>

Prepare(fresh) ==
    /\ Event
    /\ cutover.pc = "idle" /\ current # NoCommit
    /\ cutover' = [pc |-> "prepared", fresh |-> fresh, backup |-> worker_env]
    /\ UNCHANGED <<main, current, state_file, deploy, worker_env, worker, proven>>

Activate ==
    /\ cutover.pc = "prepared"
    /\ worker_env' = cutover.fresh
    /\ cutover' = [cutover EXCEPT !.pc = "activated"]
    /\ UNCHANGED <<main, current, state_file, deploy, worker, proven, events>>

Restore ==
    /\ worker_env' = cutover.backup
    /\ cutover' = NoCutover

\* --print-config, and the restart of the timer.
Validate ==
    /\ cutover.pc = "activated"
    /\ IF current \in Starts /\ worker_env # "incomplete"
       THEN cutover' = [cutover EXCEPT !.pc = "restarted"] /\ UNCHANGED worker_env
       ELSE Restore
    /\ UNCHANGED <<main, current, state_file, deploy, worker, proven, events>>

\* --health of whatever release is live by now.
ConfirmHealth ==
    /\ cutover.pc = "restarted"
    /\ IF healthFailures(current, worker_env)
       THEN Restore
       ELSE cutover' = NoCutover /\ UNCHANGED worker_env
    /\ UNCHANGED <<main, current, state_file, deploy, worker, proven, events>>

CutoverStops ==
    /\ Event
    /\ cutover.pc # "idle"
    /\ cutover.pc = "prepared" \/ "ssh_lost" \in Faults
    /\ cutover' = NoCutover
    /\ UNCHANGED <<main, current, state_file, deploy, worker_env, worker, proven>>

-----------------------------------------------------------------------------
DeploySteps ==
    \/ Stage \/ Check \/ Switch \/ StartService \/ HealthGate \/ Record \/ roll_back

CutoverSteps == Activate \/ Validate \/ ConfirmHealth

Next ==
    \/ DeploySteps \/ TimerStarts \/ RunEnds \/ CutoverSteps
    \/ \E c \in Commits : Push(c)
    \/ \E fresh \in Minted : Prepare(fresh)
    \/ DeployKilled \/ CutoverStops

\* Timers start the scripts and a run is bounded.  That the timer of the worker
\* ever starts a run is not needed.
Fairness == WF_vars(DeploySteps) /\ WF_vars(RunEnds) /\ WF_vars(CutoverSteps)

Spec == Init /\ [][Next]_vars /\ Fairness

-----------------------------------------------------------------------------
(* Properties.                                                             *)

\* Once a release has ever passed the gate, then whenever neither script is at
\* work the live release and worker.env work together: a failed deploy and a
\* failed cutover are each undone, also when one overlaps the other
\* (deploy-pull.sh:94-111, cutover-worker.sh:137-160).
HostWorks ==
    Deploying("idle") /\ cutover.pc = "idle" /\ proven # {} => ~healthFailures(current, worker_env)

\* A good commit that stays on main goes live and stays live, although its
\* first deploys may be rolled back for the credentials of a cutover under way
\* rather than for the commit: what was rolled back counts as not deployed
\* (deploy-pull.sh:58-63, 141-142).
GoodCommitGoesLive ==
    <>[](main \in Sound \cap Healthy) => <>[](current = main /\ state_file = main)

=============================================================================
