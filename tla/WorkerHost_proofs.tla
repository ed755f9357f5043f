-------------------------- MODULE WorkerHost_proofs --------------------------
(***************************************************************************)
(* Proofs about the container of a site worker, for any set of commits.    *)
(***************************************************************************)
EXTENDS WorkerHost, TLAPS

-----------------------------------------------------------------------------
(* The inductive invariant.                                                *)

\* A cutover under way holds the file it stages and the one it saved: without
\* this a step of it might put nothing into worker.env.
FilesAreReal == cutover.pc # "idle" => cutover.fresh \in Envs /\ cutover.backup \in Envs

TypeInv == TypeOK /\ FilesAreReal

\* What has passed the gate is healthy.
ProvenIsHealthy == proven \subseteq Healthy

\* Where a rollback would lead, or the live release when none is to come.
FallBack ==
    IF deploy.pc \in {"idle", "staged", "checked", "record"} THEN current ELSE deploy.previous

\* Once any release has passed the gate, the one to fall back to has.
FallBackIsProven == proven # {} => FallBack \in proven

\* Up to the switch the live release is the one to fall back to.
PreviousIsCurrent == deploy.pc \in {"staged", "checked"} => deploy.previous = current

\* The file in use works until a cutover replaces it, and the one saved works.
EnvWorks ==
    /\ cutover.pc \in {"idle", "prepared"} => worker_env \in Working
    /\ cutover.pc # "idle" => cutover.backup \in Working

IInv ==
    /\ TypeInv
    /\ ProvenIsHealthy
    /\ FallBackIsProven
    /\ PreviousIsCurrent
    /\ EnvWorks

-----------------------------------------------------------------------------
LEMMA TypeInit == Init => TypeInv
<1> SUFFICES ASSUME Init PROVE TypeInv
  OBVIOUS
<1>1. Healthy \subseteq Commits
  BY CommitsAreKnown
<1>2. events \in 0 .. MaxEvents
  BY MaxEventsIsNat DEF Init
<1>3. /\ deploy \in [pc: {"idle", "staged", "checked", "live", "waiting", "gate", "roll_back", "record"},
                     release: Commits \cup {NoCommit}, previous: Commits \cup {NoCommit},
                     env: Envs \cup {NoEnv}]
      /\ cutover \in [pc: {"idle", "prepared", "activated", "restarted"},
                      fresh: Envs \cup {NoEnv}, backup: Envs \cup {NoEnv}]
      /\ worker \in [release: Commits \cup {NoCommit}, ok: BOOLEAN]
  BY DEF Init, NoDeploy, NoCutover, NoRun
<1>4. worker_env \in Envs
  BY DEF Init, Working, Envs
<1> QED
  BY <1>1, <1>2, <1>3, <1>4 DEF Init, TypeOK, TypeInv, FilesAreReal, NoCutover

DeployType ==
    [pc: {"idle", "staged", "checked", "live", "waiting", "gate", "roll_back", "record"},
     release: Commits \cup {NoCommit}, previous: Commits \cup {NoCommit}, env: Envs \cup {NoEnv}]

CutoverType ==
    [pc: {"idle", "prepared", "activated", "restarted"},
     fresh: Envs \cup {NoEnv}, backup: Envs \cup {NoEnv}]

\* A bounded event leaves the count within its bound.
LEMMA EventCounts == ASSUME events \in 0 .. MaxEvents, Event PROVE events' \in 0 .. MaxEvents
BY MaxEventsIsNat DEF Event

\* A step of the deploy script from one state to the next keeps its record's type.
LEMMA DeploysType ==
    ASSUME deploy \in DeployType,
           NEW pc \in {"idle", "staged", "checked", "live", "waiting", "gate", "roll_back", "record"},
           Deploys(pc)
    PROVE  deploy' \in DeployType
BY DEF Deploys, DeployType

LEMMA NoneTyped == NoDeploy \in DeployType /\ NoCutover \in CutoverType
BY DEF NoDeploy, NoCutover, DeployType, CutoverType

LEMMA RunTyped ==
    TypeOK => {Run, NoRun} \subseteq [release: Commits \cup {NoCommit}, ok: BOOLEAN]
<1> SUFFICES ASSUME TypeOK PROVE {Run, NoRun} \subseteq [release: Commits \cup {NoCommit}, ok: BOOLEAN]
  OBVIOUS
<1>1. current \in Commits \cup {NoCommit}
  BY DEF TypeOK
<1>2. (current \in Starts /\ worker_env \in Working) \in BOOLEAN
  OBVIOUS
<1> QED
  BY <1>1, <1>2 DEF Run, NoRun

LEMMA TypeNext == TypeInv /\ [Next]_vars => TypeInv'
<1> SUFFICES ASSUME TypeInv, [Next]_vars
             PROVE  TypeInv'
  OBVIOUS
<1>t. deploy \in DeployType /\ cutover \in CutoverType /\ TypeOK /\ FilesAreReal
  BY DEF TypeInv, TypeOK, DeployType, CutoverType
<1>s. ASSUME deploy' \in DeployType, cutover' \in CutoverType,
             main' \in Commits, {current, state_file}' \subseteq Commits \cup {NoCommit},
             worker_env' \in Envs, worker' \in [release: Commits \cup {NoCommit}, ok: BOOLEAN],
             proven' \subseteq Commits, events' \in 0 .. MaxEvents,
             FilesAreReal'
      PROVE  TypeInv'
  BY <1>s DEF TypeInv, TypeOK, DeployType, CutoverType
<1>1. CASE Stage
  <2>1. deploy' \in DeployType
    BY <1>1, <1>t DEF Stage, DeployType, TypeOK
  <2> QED
    BY <1>1, <1>s, <1>t, <2>1 DEF Stage, TypeOK, FilesAreReal
<1>2. CASE Check
  <2>1. deploy' \in DeployType
    BY <1>2, <1>t, DeploysType, NoneTyped DEF Check
  <2> QED
    BY <1>2, <1>s, <1>t, <2>1 DEF Check, TypeOK, FilesAreReal
<1>3. CASE Switch
  <2>1. deploy' \in DeployType
    BY <1>3, <1>t, DeploysType DEF Switch
  <2>2. deploy.release \in Commits \cup {NoCommit}
    BY <1>t DEF DeployType
  <2> QED
    BY <1>3, <1>s, <1>t, <2>1, <2>2 DEF Switch, TypeOK, FilesAreReal
<1>4. CASE StartService
  <2>1. deploy' \in DeployType
    BY <1>4, <1>t, DeploysType DEF StartService
  <2>2. worker' \in [release: Commits \cup {NoCommit}, ok: BOOLEAN]
    BY <1>4, RunTyped, <1>t DEF StartService, TypeOK
  <2> QED
    BY <1>4, <1>s, <1>t, <2>1, <2>2 DEF StartService, TypeOK, FilesAreReal
<1>5. CASE HealthGate
  <2>1. deploy' \in DeployType
    BY <1>5, <1>t, DeploysType DEF HealthGate
  <2>2. proven' \subseteq Commits
    BY <1>5, <1>t, CommitsAreKnown DEF HealthGate, TypeOK, healthFailures
  <2> QED
    BY <1>5, <1>s, <1>t, <2>1, <2>2 DEF HealthGate, TypeOK, FilesAreReal
<1>6. CASE Record
  <2>1. deploy.release \in Commits \cup {NoCommit}
    BY <1>t DEF DeployType
  <2> QED
    BY <1>6, <1>s, <1>t, NoneTyped, <2>1 DEF Record, TypeOK, FilesAreReal
<1>7. CASE roll_back
  <2>1. deploy.previous \in Commits \cup {NoCommit}
    BY <1>t DEF DeployType
  <2> QED
    BY <1>7, <1>s, <1>t, NoneTyped, <2>1 DEF roll_back, TypeOK, FilesAreReal
<1>8. CASE TimerStarts
  <2>1. worker' \in [release: Commits \cup {NoCommit}, ok: BOOLEAN]
    BY <1>8, <1>t, RunTyped DEF TimerStarts
  <2> QED
    BY <1>8, <1>s, <1>t, <2>1 DEF TimerStarts, TypeOK, FilesAreReal
<1>9. CASE RunEnds
  <2>1. deploy' \in DeployType
    BY <1>9, <1>t, DeploysType DEF RunEnds
  <2>2. worker' \in [release: Commits \cup {NoCommit}, ok: BOOLEAN]
    BY <1>9 DEF RunEnds, NoRun
  <2> QED
    BY <1>9, <1>s, <1>t, <2>1, <2>2 DEF RunEnds, TypeOK, FilesAreReal
<1>10. CASE Activate
  <2>1. cutover' \in CutoverType /\ cutover'.fresh = cutover.fresh /\ cutover'.backup = cutover.backup
    BY <1>10, <1>t DEF Activate, CutoverType
  <2>2. cutover.fresh \in Envs /\ cutover.backup \in Envs
    BY <1>10, <1>t DEF Activate, FilesAreReal
  <2> QED
    BY <1>10, <1>s, <1>t, <2>1, <2>2 DEF Activate, TypeOK, FilesAreReal
<1>11. ASSUME Restore, cutover.pc # "idle"
       PROVE  cutover' \in CutoverType /\ worker_env' \in Envs /\ FilesAreReal'
  BY <1>11, <1>t, NoneTyped DEF Restore, FilesAreReal, NoCutover
<1>12. CASE Validate
  <2>1. CASE Restore
    BY <1>12, <1>s, <1>t, <1>11, <2>1 DEF Validate, TypeOK
  <2>2. CASE cutover' = [cutover EXCEPT !.pc = "restarted"] /\ UNCHANGED worker_env
    <3>1. cutover' \in CutoverType /\ cutover'.fresh = cutover.fresh /\ cutover'.backup = cutover.backup
      BY <2>2, <1>t DEF CutoverType
    <3>2. cutover.fresh \in Envs /\ cutover.backup \in Envs
      BY <1>12, <1>t DEF Validate, FilesAreReal
    <3> QED
      BY <1>12, <1>s, <1>t, <2>2, <3>1, <3>2 DEF Validate, TypeOK, FilesAreReal
  <2> QED
    BY <1>12, <2>1, <2>2 DEF Validate
<1>13. CASE ConfirmHealth
  <2>1. CASE Restore
    BY <1>13, <1>s, <1>t, <1>11, <2>1 DEF ConfirmHealth, TypeOK
  <2>2. CASE cutover' = NoCutover /\ UNCHANGED worker_env
    BY <1>13, <1>s, <1>t, <2>2, NoneTyped DEF ConfirmHealth, TypeOK, FilesAreReal, NoCutover
  <2> QED
    BY <1>13, <2>1, <2>2 DEF ConfirmHealth
<1>14. ASSUME NEW c \in Commits, Push(c)
       PROVE  TypeInv'
  BY <1>14, <1>s, <1>t, EventCounts DEF Push, TypeOK, FilesAreReal
<1>15. ASSUME NEW fresh \in Minted, Prepare(fresh)
       PROVE  TypeInv'
  <2>1. fresh \in Envs /\ worker_env \in Envs
    BY <1>t DEF Minted, Envs, TypeOK
  <2>2. cutover' \in CutoverType /\ FilesAreReal'
    BY <1>15, <2>1 DEF Prepare, CutoverType, FilesAreReal
  <2> QED
    BY <1>15, <1>s, <1>t, <2>2, EventCounts DEF Prepare, TypeOK
<1>16. CASE DeployKilled
  BY <1>16, <1>s, <1>t, EventCounts, NoneTyped DEF DeployKilled, TypeOK, FilesAreReal
<1>17. CASE CutoverStops
  BY <1>17, <1>s, <1>t, EventCounts, NoneTyped DEF CutoverStops, TypeOK, FilesAreReal, NoCutover
<1>18. CASE UNCHANGED vars
  BY <1>18, <1>s, <1>t DEF vars, TypeOK, FilesAreReal
<1> QED
  BY <1>1, <1>2, <1>3, <1>4, <1>5, <1>6, <1>7, <1>8, <1>9, <1>10, <1>12, <1>13, <1>14, <1>15,
     <1>16, <1>17, <1>18 DEF Next, DeploySteps, CutoverSteps

\* The variables always have their types, and nothing is ever put into
\* worker.env that is no file (deploy-pull.sh, cutover-worker.sh).
THEOREM TypeCorrect == Spec => []TypeOK
<1>1. TypeInv => TypeOK
  BY DEF TypeInv
<1> QED
  BY <1>1, TypeInit, TypeNext, PTL DEF Spec

-----------------------------------------------------------------------------
(* The host works.                                                         *)

LEMMA IInvInit == Init => IInv
<1> SUFFICES ASSUME Init PROVE IInv
  OBVIOUS
<1>1. TypeInv
  BY TypeInit
<1>2. ProvenIsHealthy /\ FallBackIsProven /\ PreviousIsCurrent
  BY DEF Init, ProvenIsHealthy, FallBackIsProven, FallBack, PreviousIsCurrent, NoDeploy
<1>3. EnvWorks
  BY DEF Init, EnvWorks, NoCutover
<1> QED
  BY <1>1, <1>2, <1>3 DEF IInv

\* What the parts of the invariant about releases depend on.
releases == <<current, deploy, proven>>

LEMMA ReleasesStay ==
    ASSUME IInv, UNCHANGED releases
    PROVE  ProvenIsHealthy' /\ FallBackIsProven' /\ PreviousIsCurrent'
BY DEF IInv, releases, ProvenIsHealthy, FallBackIsProven, FallBack, PreviousIsCurrent

\* And the part about the file.
LEMMA FileStays ==
    ASSUME IInv, UNCHANGED <<worker_env, cutover>>
    PROVE  EnvWorks'
BY DEF IInv, EnvWorks

LEMMA IInvNext ==
    ASSUME "killed_live" \notin Faults, "ssh_lost" \notin Faults, IInv, [Next]_vars
    PROVE  IInv'
<1>1. TypeInv'
  BY TypeNext DEF IInv
<1> DEFINE Releases == ProvenIsHealthy /\ FallBackIsProven /\ PreviousIsCurrent
<1>s. ASSUME Releases', EnvWorks' PROVE IInv'
  BY <1>1, <1>s DEF IInv
<1>t. deploy \in DeployType /\ cutover \in CutoverType
  BY DEF IInv, TypeInv, TypeOK, DeployType, CutoverType
<1>d. ASSUME NEW pc, Deploys(pc)
      PROVE  deploy'.pc = pc /\ deploy'.previous = deploy.previous
  BY <1>t, <1>d DEF Deploys, DeployType
<1> USE DEF ProvenIsHealthy, FallBackIsProven, FallBack, PreviousIsCurrent, Deploying
<1>2. CASE Stage
  BY <1>2, <1>s, FileStays DEF Stage, IInv
<1>3. CASE Check
  BY <1>3, <1>s, <1>d, FileStays DEF Check, IInv, NoDeploy
<1>4. CASE Switch
  BY <1>4, <1>s, <1>d, FileStays DEF Switch, IInv
<1>5. CASE StartService
  BY <1>5, <1>s, <1>d, FileStays DEF StartService, IInv
<1>6. CASE HealthGate
  <2>1. CASE Deploys("roll_back") /\ UNCHANGED proven
    BY <1>6, <1>s, <1>d, <2>1, FileStays DEF HealthGate, IInv
  <2>2. CASE /\ ~healthFailures(current, Sourced(deploy.env, worker_env))
             /\ Deploys("record") /\ proven' = proven \cup {current}
    BY <1>6, <1>s, <1>d, <2>2, FileStays DEF HealthGate, IInv, healthFailures
  <2> QED
    BY <1>6, <2>1, <2>2 DEF HealthGate
<1>7. CASE Record
  BY <1>7, <1>s, FileStays DEF Record, IInv, NoDeploy
<1>8. CASE roll_back
  <2>1. NoCommit \notin proven
    BY NoCommitIsNone DEF IInv, TypeInv, TypeOK
  <2> QED
    BY <1>8, <1>s, <2>1, FileStays DEF roll_back, IInv, NoDeploy
<1>9. CASE TimerStarts
  BY <1>9, <1>s, ReleasesStay, FileStays DEF TimerStarts, releases
<1>10. CASE RunEnds
  <2>1. CASE Deploying("waiting")
    BY <1>10, <1>s, <1>d, <2>1, FileStays DEF RunEnds, IInv
  <2>2. CASE ~Deploying("waiting")
    BY <1>10, <1>s, <2>2, ReleasesStay, FileStays DEF RunEnds, releases
  <2> QED
    BY <2>1, <2>2
<1>c. ASSUME NEW pc, cutover' = [cutover EXCEPT !.pc = pc]
      PROVE  cutover'.pc = pc /\ cutover'.backup = cutover.backup
  BY <1>t, <1>c DEF CutoverType
<1>11. CASE Activate
  BY <1>11, <1>s, <1>c, ReleasesStay DEF Activate, releases, IInv, EnvWorks
<1>12. ASSUME Restore, cutover.pc # "idle" PROVE EnvWorks'
  BY <1>12 DEF Restore, IInv, EnvWorks, NoCutover
<1>13. CASE Validate
  BY <1>13, <1>s, <1>c, <1>12, ReleasesStay DEF Validate, releases, IInv, EnvWorks
<1>14. CASE ConfirmHealth
  BY <1>14, <1>s, <1>12, ReleasesStay DEF ConfirmHealth, releases, IInv, EnvWorks, NoCutover, healthFailures
<1>15. ASSUME NEW c \in Commits, Push(c) PROVE IInv'
  BY <1>15, <1>s, ReleasesStay, FileStays DEF Push, releases
<1>16. ASSUME NEW fresh \in Minted, Prepare(fresh) PROVE IInv'
  BY <1>16, <1>s, ReleasesStay DEF Prepare, releases, IInv, EnvWorks
<1>17. CASE DeployKilled
  BY <1>17, <1>s, FileStays DEF DeployKilled, IInv, NoDeploy
<1>18. CASE CutoverStops
  BY <1>18, <1>s, ReleasesStay DEF CutoverStops, releases, IInv, EnvWorks, NoCutover
<1>19. CASE UNCHANGED vars
  BY <1>19, <1>s, ReleasesStay, FileStays DEF vars, releases
<1> QED
  BY <1>2, <1>3, <1>4, <1>5, <1>6, <1>7, <1>8, <1>9, <1>10, <1>11, <1>13, <1>14, <1>15, <1>16,
     <1>17, <1>18, <1>19 DEF Next, DeploySteps, CutoverSteps

\* When deploy-pull.sh is not killed after the switch and cutover-worker.sh not
\* cut off after it has activated the new file: once a release has passed the
\* gate, the live release and worker.env work together whenever neither script
\* is at work, whatever deploys and cutovers overlapped
\* (deploy-pull.sh:94-111, cutover-worker.sh:137-160).
THEOREM HostAlwaysWorks ==
    ASSUME "killed_live" \notin Faults, "ssh_lost" \notin Faults
    PROVE  Spec => []HostWorks
<1>1. IInv => HostWorks
  BY DEF IInv, HostWorks, FallBackIsProven, FallBack, ProvenIsHealthy, EnvWorks, Deploying, healthFailures
<1>2. IInv /\ [Next]_vars => IInv'
  BY IInvNext
<1> QED
  BY <1>1, <1>2, IInvInit, PTL DEF Spec
=============================================================================
