------------------------------ MODULE AutoDeploy ------------------------------
(***************************************************************************)
(* The deployer of a host (scripts/auto_deploy.py): a timer checks the     *)
(* branch every minute, an operator rolls back or unblocks. It prepares a  *)
(* release, journals it as pending, switches the containers, and journals  *)
(* the outcome; whatever it finds pending it undoes. A file lock lets one  *)
(* of these at a time work, and the machine or its 45 minutes may stop it  *)
(* anywhere.                                                               *)
(***************************************************************************)
EXTENDS Integers, FiniteSets

CONSTANTS
    Commits,       \* commits of the branch, and the baseline
    Baseline,       \* what ran when the deployer was introduced
    MaxPushes,      \* bound on the moves of the branch, for model checking
    MaxTroubles     \* bound on deaths, failed recoveries and manual commands

ASSUME DeployAssumption ==
    /\ Baseline \in Commits
    /\ "none" \notin Commits /\ "mixed" \notin Commits
    /\ MaxPushes \in Nat /\ MaxTroubles \in Nat

VARIABLES
    journal,        \* state.json
    release,        \* release[v]: the directory of v
    running,        \* the version of the containers
    branch,         \* what the branch names
    job,            \* what the holder of the file lock is doing, and to what
    pushes, troubles

deployVars == <<journal, release, running, branch, job, pushes, troubles>>

DeployTypeOK ==
    /\ journal \in [current : Commits, previous : Commits \cup {"none"},
                    pending : Commits \cup {"none"}, failed : SUBSET Commits]
    /\ release \in [Commits -> {"absent", "partial", "whole"}]
    /\ running \in Commits \cup {"mixed"}
    /\ branch \in Commits
    /\ job \in [step : {"idle", "preparing", "pinned", "activating", "switched",
                        "recovering", "restored"},
                target : Commits \cup {"none"}, manual : BOOLEAN]
    /\ pushes \in 0..MaxPushes /\ troubles \in 0..MaxTroubles

NoJob == [step |-> "idle", target |-> "none", manual |-> FALSE]

(* bootstrap: the images that run are adopted as they are.                  *)
DeployInit ==
    /\ journal = [current |-> Baseline, previous |-> "none", pending |-> "none", failed |-> {}]
    /\ release = [v \in Commits |-> IF v = Baseline THEN "whole" ELSE "absent"]
    /\ running = Baseline /\ branch = Baseline
    /\ job = NoJob
    /\ pushes = 0 /\ troubles = 0

(* The branch moves, forward or back. *)
Push(v) ==
    /\ pushes < MaxPushes /\ pushes' = pushes + 1
    /\ branch' = v
    /\ UNCHANGED <<journal, release, running, job, troubles>>

Trouble == troubles < MaxTroubles /\ troubles' = troubles + 1

(* The head of recover: the failure is saved before anything is undone.     *)
Undo ==
    /\ journal' = [journal EXCEPT !.failed = @ \cup {journal.pending}]
    /\ job' = [step |-> "recovering", target |-> journal.pending, manual |-> FALSE]

(* Mutant: a failure that is saved is taken for undone. *)
MutantResume ==
    /\ job.step = "idle" /\ journal.pending \notin journal.failed \cup {"none"}
    /\ Undo
    /\ UNCHANGED <<release, running, branch, pushes, troubles>>

(* check, and rollback, while an activation is pending.                     *)
Resume ==
    /\ job.step = "idle" /\ journal.pending # "none"
    /\ Undo
    /\ UNCHANGED <<release, running, branch, pushes, troubles>>

(* Mutant: only blocked versions are not prepared again. *)
MutantPrepare ==
    /\ job.step = "idle" /\ journal.pending = "none"
    /\ branch \notin journal.failed
    /\ release' = [release EXCEPT ![branch] = "partial"]
    /\ job' = [step |-> "preparing", target |-> branch, manual |-> FALSE]
    /\ UNCHANGED <<journal, running, branch, pushes, troubles>>

(* check up to prepare, which removes the directory of the version if there *)
(* is one. Local changes, Git or an unhealthy current version prevent it.   *)
Prepare ==
    /\ job.step = "idle" /\ journal.pending = "none"
    /\ branch # journal.current /\ branch \notin journal.failed
    /\ running = journal.current
    /\ release' = [release EXCEPT ![branch] = "partial"]
    /\ job' = [step |-> "preparing", target |-> branch, manual |-> FALSE]
    /\ UNCHANGED <<journal, running, branch, pushes, troubles>>

(* The services, the database or the topology differ, or a build fails.     *)
PrepareFails ==
    /\ job.step = "preparing"
    /\ journal' = [journal EXCEPT !.failed = @ \cup {job.target}]
    /\ job' = NoJob
    /\ UNCHANGED <<release, running, branch, pushes, troubles>>

Pin ==
    /\ job.step = "preparing"
    /\ release' = [release EXCEPT ![job.target] = "whole"]
    /\ job' = [job EXCEPT !.step = "pinned"]
    /\ UNCHANGED <<journal, running, branch, pushes, troubles>>

JournalPending ==
    /\ job.step = "pinned"
    /\ journal' = [journal EXCEPT !.pending = job.target]
    /\ job' = [job EXCEPT !.step = "activating"]
    /\ UNCHANGED <<release, running, branch, pushes, troubles>>

(* rollback: the version before is a pending activation like any other.     *)
StartRollback ==
    /\ job.step = "idle" /\ journal.pending = "none" /\ journal.previous # "none"
    /\ Trouble
    /\ journal' = [journal EXCEPT !.pending = journal.previous]
    /\ job' = [step |-> "activating", target |-> journal.previous, manual |-> TRUE]
    /\ UNCHANGED <<release, running, branch, pushes>>

Retry ==
    /\ job.step = "idle"
    /\ Trouble
    /\ journal' = [journal EXCEPT !.failed = {}]
    /\ UNCHANGED <<release, running, branch, job, pushes>>

(* compose recreates the services one after the other.                      *)
Recreate ==
    /\ job.step = "activating" /\ release[job.target] = "whole"
    /\ running' = "mixed"
    /\ job' = [job EXCEPT !.step = "switched"]
    /\ UNCHANGED <<journal, release, branch, pushes, troubles>>

(* All services are the version's and stay healthy; the swap is journalled, *)
(* and a manual rollback blocks what it left.                               *)
Confirm ==
    /\ job.step = "switched" /\ running = job.target
    /\ journal' = [current |-> job.target, previous |-> journal.current, pending |-> "none",
                   failed |-> IF job.manual THEN journal.failed \cup {journal.current}
                              ELSE journal.failed]
    /\ job' = NoJob
    /\ UNCHANGED <<release, running, branch, pushes, troubles>>

Switch ==
    /\ job.step = "switched" /\ running = "mixed"
    /\ running' = job.target
    /\ UNCHANGED <<journal, release, branch, job, pushes, troubles>>

(* compose fails, or the new containers are not healthy in time; a release  *)
(* that is not whole has nothing to activate.                               *)
ActivateFails ==
    /\ job.step \in {"activating", "switched"}
    /\ Undo
    /\ UNCHANGED <<release, running, branch, pushes, troubles>>

(* recover brings the containers of current back.                           *)
Restore ==
    /\ job.step = "recovering" /\ release[journal.current] = "whole"
    /\ running' = journal.current
    /\ job' = [job EXCEPT !.step = "restored"]
    /\ UNCHANGED <<journal, release, branch, pushes, troubles>>

RestoreFails ==
    /\ job.step = "recovering"
    /\ release[journal.current] = "whole" => Trouble
    /\ release[journal.current] # "whole" => UNCHANGED troubles
    /\ running' \in {running, "mixed"}
    /\ job' = NoJob
    /\ UNCHANGED <<journal, release, branch, pushes>>

ClearPending ==
    /\ job.step = "restored"
    /\ journal' = [journal EXCEPT !.pending = "none"]
    /\ job' = NoJob
    /\ UNCHANGED <<release, running, branch, pushes, troubles>>

(* The machine stops, or systemd ends the service: the lock goes with it.   *)
Stop ==
    /\ job.step # "idle"
    /\ Trouble
    /\ job' = NoJob
    /\ UNCHANGED <<journal, release, running, branch, pushes>>

Deploying ==
    \/ PrepareFails \/ Pin \/ JournalPending
    \/ Recreate \/ Switch \/ Confirm \/ ActivateFails
    \/ Restore \/ RestoreFails \/ ClearPending

DeployNext ==
    \/ \E v \in Commits : Push(v)
    \/ Resume \/ Prepare \/ Deploying
    \/ StartRollback \/ Retry \/ Stop

(* The timer calls check every minute, and every step is bounded by a       *)
(* timeout. Nothing needs to succeed but a recovery, in the end.            *)
DeployFairness == WF_deployVars(Resume) /\ WF_deployVars(Deploying)

DeploySpec == DeployInit /\ [][DeployNext]_deployVars /\ DeployFairness

-----------------------------------------------------------------------------
(* Properties. *)

(* With nothing pending and nobody at work, the containers are those of the *)
(* version the journal calls current, wherever a deploy, a rollback or a    *)
(* recovery was stopped (recover, check, rollback).                         *)
JournalKnows ==
    job.step = "idle" /\ journal.pending = "none" => running = journal.current

(* The release of the current version is whole, whatever the branch is      *)
(* moved to: a recovery always has something to activate (prepare).         *)
CurrentRestorable == release[journal.current] = "whole"

(* Whatever stops the deployer and wherever, what the next check needs is   *)
(* there: a journal that knows what runs and a release to go back to.       *)
Recoverable == JournalKnows /\ CurrentRestorable

(* The promises of DeployContract, kept by this machine: what is accepted,  *)
(* before, attempted and blocked is what the journal says.                  *)
Deployment == INSTANCE DeployContract WITH
    accepted <- journal.current, before <- journal.previous,
    attempt <- journal.pending, blocked <- journal.failed, serving <- running

ImplementsDeployment == Deployment!Spec

(* A host left between two versions does not stay there (check, recover).   *)
MixtureEnds == running # journal.current ~> running = journal.current

=============================================================================
