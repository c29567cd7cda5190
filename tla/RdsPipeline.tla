----------------------------- MODULE RdsPipeline -----------------------------
(***************************************************************************)
(* The refresh of RDS reservations (rds_reservations_pipeline.py and the   *)
(* coverage run of rds_reservation_coverage.py): inventory, coverage, then *)
(* opportunities, each stage committed. A refresh holds an advisory lock   *)
(* from its start to its end; it is asked for by the scheduler when one is *)
(* due, and by the API or a command at any time. The coverage route makes  *)
(* runs of its own and takes no lock. A process may die in any stage and   *)
(* leave its run as it is; two hours later a refresh takes it for          *)
(* abandoned.                                                              *)
(***************************************************************************)
EXTENDS Integers, FiniteSets

CONSTANTS
    Schedulers,     \* workers: they refresh what is due
    Callers,        \* API requests and commands: they refresh what they like
    Routes,         \* requests of the coverage route
    MaxRuns,        \* bound on the coverage runs ever made, for model checking
    MaxDeaths       \* bound on the deaths of processes, for model checking

Refreshers == Schedulers \cup Callers
Processes == Refreshers \cup Routes

ASSUME PipelineAssumption ==
    /\ "none" \notin Processes
    /\ Refreshers \cap Routes = {} /\ Schedulers \cap Callers = {}
    /\ MaxRuns \in Nat /\ MaxDeaths \in Nat

VARIABLES
    coverageRun,    \* coverageRun[k]: the RdsReservationCoverageRun row of id k
    pipelineLock,   \* who holds the advisory lock
    at,             \* at[p]: the stage process p is in, and of which run
    deaths

pipelineVars == <<coverageRun, pipelineLock, at, deaths>>

Ids == 1..MaxRuns

(* old: started_at is more than two hours ago. stale: inventory_snapshot_at *)
(* is older than the threshold of freshness.                                *)
CoverageRun ==
    [status : {"none", "RUNNING", "COMPLETED", "FAILED"},
     stage : {"inventory", "coverage", "opportunities", "completed"},
     inventory : {"UNKNOWN", "RUNNING", "COMPLETED", "FAILED"},
     opportunity : {"NOT_RUN", "RUNNING", "COMPLETED", "FAILED"},
     maker : {"pipeline", "route"}, old : BOOLEAN, stale : BOOLEAN]

Steps == {"idle", "locked", "inventory", "coverage", "computed", "opportunities", "written"}

PipelineTypeOK ==
    /\ coverageRun \in [Ids -> CoverageRun]
    /\ pipelineLock \in Refreshers \cup {"none"}
    /\ at \in [Processes -> [step : Steps, run : Ids \cup {0}]]
    /\ deaths \in 0..MaxDeaths

NotMade == [status |-> "none", stage |-> "inventory", inventory |-> "UNKNOWN",
            opportunity |-> "NOT_RUN", maker |-> "pipeline", old |-> FALSE, stale |-> FALSE]

AtRest == [step |-> "idle", run |-> 0]

PipelineInit ==
    /\ coverageRun = [k \in Ids |-> NotMade]
    /\ pipelineLock = "none"
    /\ at = [p \in Processes |-> AtRest]
    /\ deaths = 0

Made == {k \in Ids : coverageRun[k].status # "none"}
With(status) == {k \in Ids : coverageRun[k].status = status}
Newest(S) == CHOOSE k \in S : \A j \in S : j <= k
NewId == Cardinality(Made) + 1

WorkedOn(k) == \E p \in Processes : at[p].run = k

(* rds_reservations_refresh_due, some AWS account being enabled.            *)
RefreshDue ==
    IF With("RUNNING") # {}
    THEN coverageRun[Newest(With("RUNNING"))].old
    ELSE With("COMPLETED") # {} => coverageRun[Newest(With("COMPLETED"))].stale

(* Mutant: only the processes of one host exclude each other. *)
MutantTakeLock(p) ==
    /\ at[p].step = "idle"
    /\ p \in Schedulers => RefreshDue
    /\ pipelineLock' = p
    /\ at' = [at EXCEPT ![p].step = "locked"]
    /\ UNCHANGED <<coverageRun, deaths>>

(* _pipeline_lock; who does not get it reports that a refresh is running.   *)
TakeLock(p) ==
    /\ at[p].step = "idle" /\ pipelineLock = "none"
    /\ p \in Schedulers => RefreshDue
    /\ pipelineLock' = p
    /\ at' = [at EXCEPT ![p].step = "locked"]
    /\ UNCHANGED <<coverageRun, deaths>>

Abandoned(k) == coverageRun[k].status = "RUNNING" /\ coverageRun[k].old

(* Mutant: a running row is not looked at for its age. *)
MutantRecovered(k) == coverageRun[k]

(* _recover_abandoned_runs, one row of it.                                  *)
Recovered(k) ==
    LET row == [coverageRun[k] EXCEPT !.status = "FAILED"]
    IN  CASE ~Abandoned(k) -> coverageRun[k]
          [] Abandoned(k) /\ row.stage = "inventory" -> [row EXCEPT !.inventory = "FAILED"]
          [] Abandoned(k) /\ row.stage = "opportunities" ->
                [row EXCEPT !.status = "COMPLETED", !.opportunity = "FAILED",
                            !.stage = "completed"]
          [] OTHER -> row

(* The head of refresh_rds_reservations: abandoned runs are recovered, then *)
(* a run that is still running makes the refresh busy, or one is made.      *)
Begin(p) ==
    LET rows == [k \in Ids |-> Recovered(k)]
    IN  /\ at[p].step = "locked"
        /\ IF \E k \in Ids : rows[k].status = "RUNNING"
           THEN /\ coverageRun' = rows
                /\ at' = [at EXCEPT ![p] = AtRest]
                /\ pipelineLock' = "none"
           ELSE /\ NewId \in Ids
                /\ coverageRun' = [rows EXCEPT ![NewId] =
                      [NotMade EXCEPT !.status = "RUNNING", !.inventory = "RUNNING"]]
                /\ at' = [at EXCEPT ![p] = [step |-> "inventory", run |-> NewId]]
                /\ UNCHANGED pipelineLock
        /\ UNCHANGED deaths

Put(p, row) == coverageRun' = [coverageRun EXCEPT ![at[p].run] = row]

LetGo(p) == pipelineLock' = IF pipelineLock = p THEN "none" ELSE pipelineLock

Leave(p) == at' = [at EXCEPT ![p] = AtRest] /\ LetGo(p)

(* collect_rds_inventory raises, or reports an error of any scope.          *)
InventoryFails(p) ==
    /\ at[p].step = "inventory"
    /\ Put(p, [coverageRun[at[p].run] EXCEPT !.status = "FAILED", !.inventory = "FAILED",
                                             !.stage = "inventory"])
    /\ Leave(p)
    /\ UNCHANGED deaths

(* The snapshot is the oldest active row, of other scopes too: it may be    *)
(* stale although this inventory is not.                                    *)
InventoryDone(p) ==
    /\ at[p].step = "inventory"
    /\ \E stale \in BOOLEAN :
          Put(p, [coverageRun[at[p].run] EXCEPT !.inventory = "COMPLETED",
                                                !.stage = "coverage", !.stale = stale])
    /\ at' = [at EXCEPT ![p].step = "coverage"]
    /\ UNCHANGED <<pipelineLock, deaths>>

(* POST /rds/reservation-coverage/run, up to the commit of _prepare_run: a  *)
(* run without an inventory of its own, whoever else is running.            *)
StartCoverage(p) ==
    /\ p \in Routes /\ at[p].step = "idle" /\ NewId \in Ids
    /\ \E stale \in BOOLEAN :
          coverageRun' = [coverageRun EXCEPT ![NewId] =
              [NotMade EXCEPT !.status = "RUNNING", !.stage = "coverage",
                              !.maker = "route", !.stale = stale]]
    /\ at' = [at EXCEPT ![p] = [step |-> "coverage", run |-> NewId]]
    /\ UNCHANGED <<pipelineLock, deaths>>

(* The route's handler also covers what comes before its next stage.        *)
CoverageFails(p) ==
    /\ \/ at[p].step = "coverage"
       \/ p \in Routes /\ at[p].step = "computed"
    /\ Put(p, [coverageRun[at[p].run] EXCEPT !.status = "FAILED", !.stage = "coverage"])
    /\ Leave(p)
    /\ UNCHANGED deaths

(* run_rds_reservation_coverage commits the rows of the run and its status, *)
(* which for the route names the next stage already.                        *)
CoverageDone(p) ==
    /\ at[p].step = "coverage"
    /\ Put(p, [coverageRun[at[p].run] EXCEPT
                 !.status = "COMPLETED",
                 !.stage = IF p \in Routes THEN "opportunities" ELSE "coverage"])
    /\ at' = [at EXCEPT ![p].step = "computed"]
    /\ UNCHANGED <<pipelineLock, deaths>>

StartOpportunities(p) ==
    /\ at[p].step = "computed"
    /\ Put(p, [coverageRun[at[p].run] EXCEPT !.stage = "opportunities",
                                             !.opportunity = "RUNNING"])
    /\ at' = [at EXCEPT ![p].step = "opportunities"]
    /\ UNCHANGED <<pipelineLock, deaths>>

(* The findings are committed; that they are comes in a commit of its own.  *)
WriteOpportunities(p) ==
    /\ at[p].step = "opportunities"
    /\ at' = [at EXCEPT ![p].step = "written"]
    /\ UNCHANGED <<coverageRun, pipelineLock, deaths>>

EndOpportunities(p) ==
    /\ \/ /\ at[p].step = "written"
          /\ Put(p, [coverageRun[at[p].run] EXCEPT !.opportunity = "COMPLETED",
                                                   !.stage = "completed"])
       \/ /\ at[p].step = "opportunities"
          /\ Put(p, [coverageRun[at[p].run] EXCEPT !.opportunity = "FAILED",
                                                   !.stage = "completed"])
    /\ Leave(p)
    /\ UNCHANGED deaths

(* The process dies, or meets an error no handler records: its lock goes,   *)
(* its run stays.                                                           *)
Die(p) ==
    /\ at[p].step # "idle"
    /\ deaths < MaxDeaths
    /\ deaths' = deaths + 1
    /\ Leave(p)
    /\ UNCHANGED coverageRun

(* Time passes: a run gets old, a snapshot gets stale.                      *)
GetOld(k) ==
    /\ k \in Made /\ ~coverageRun[k].old
    /\ \A j \in 1..k - 1 : coverageRun[j].old
    /\ coverageRun' = [coverageRun EXCEPT ![k].old = TRUE]
    /\ UNCHANGED <<pipelineLock, at, deaths>>

GetStale(k) ==
    /\ k \in With("COMPLETED") /\ ~coverageRun[k].stale
    /\ coverageRun' = [coverageRun EXCEPT ![k].stale = TRUE]
    /\ UNCHANGED <<pipelineLock, at, deaths>>

Advance(p) ==
    \/ Begin(p)
    \/ InventoryFails(p) \/ InventoryDone(p)
    \/ CoverageFails(p) \/ CoverageDone(p)
    \/ StartOpportunities(p) \/ WriteOpportunities(p) \/ EndOpportunities(p)

PipelineNext ==
    \/ \E p \in Refreshers : TakeLock(p)
    \/ \E p \in Routes : StartCoverage(p)
    \/ \E p \in Processes : Advance(p) \/ Die(p)
    \/ \E k \in Ids : GetOld(k) \/ GetStale(k)

(* A process at work gets on or dies, the schedulers come back every five   *)
(* minutes, and hours pass. Nobody has to call the API, and nothing needs   *)
(* to succeed.                                                              *)
PipelineFairness ==
    /\ \A p \in Processes : WF_pipelineVars(Advance(p))
    /\ \A p \in Schedulers : WF_pipelineVars(TakeLock(p))
    /\ \A k \in Ids : WF_pipelineVars(GetOld(k)) /\ WF_pipelineVars(GetStale(k))

PipelineSpec == PipelineInit /\ [][PipelineNext]_pipelineVars /\ PipelineFairness

-----------------------------------------------------------------------------
(* Properties. *)

(* A refresh that is collecting or computing finds its run RUNNING: nobody  *)
(* takes it for abandoned however long it takes (_pipeline_lock,            *)
(* _recover_abandoned_runs), although age alone decides that.               *)
WorkedRunRuns ==
    \A p \in Refreshers :
        at[p].step \in {"inventory", "coverage"} =>
            coverageRun[at[p].run].status = "RUNNING"

(* A refresh publishes coverage only over an inventory that was collected   *)
(* whole, and findings are only written from coverage that was published,   *)
(* also after a recovery (refresh_rds_reservations).                        *)
StagesInOrder ==
    \A k \in Made :
        /\ coverageRun[k].status = "COMPLETED" /\ coverageRun[k].maker = "pipeline" =>
               coverageRun[k].inventory = "COMPLETED"
        /\ coverageRun[k].opportunity # "NOT_RUN" => coverageRun[k].status = "COMPLETED"

(* The record of a refresh is true at every commit, of its own stage and of *)
(* what it built on: both of the above.                                     *)
RecordsAreTrue == WorkedRunRuns /\ StagesInOrder

(* A run left RUNNING by a dead process, or coverage that has gone stale,   *)
(* does not stay the last word: the next run is made                        *)
(* (rds_reservations_refresh_due, _recover_abandoned_runs).                 *)
NextRunComes ==
    \A k \in 1..MaxRuns - 1 :
        (Made = 1..k) ~> (k + 1 \in Made)

(* A refresh that begins recovers the abandoned opportunity stages of runs  *)
(* before it; said by rds_reservations_pipeline.py:94-99, and not so.       *)
AbandonedStageRecovered ==
    [][\A p \in Refreshers, k \in Ids :
          /\ at[p].step = "locked" /\ at'[p].step = "inventory"
          /\ coverageRun[k].opportunity = "RUNNING" /\ coverageRun[k].old /\ ~WorkedOn(k)
          => coverageRun'[k].opportunity = "FAILED"]_pipelineVars

(* The promises of RefreshContract, as the rows and the lock tell them.     *)
Phase(row) ==
    CASE row.status = "none" -> "none"
      [] row.status # "none" /\ row.maker = "route" -> "aside"
      [] OTHER ->
            CASE row.status = "RUNNING" /\ row.inventory # "COMPLETED" -> "collecting"
              [] row.status = "RUNNING" /\ row.inventory = "COMPLETED" -> "computing"
              [] row.status = "FAILED" -> "failed"
              [] row.status = "COMPLETED" ->
                    CASE row.opportunity = "NOT_RUN" -> "published"
                      [] row.opportunity = "RUNNING" -> "judging"
                      [] row.opportunity = "COMPLETED" -> "judged"
                      [] row.opportunity = "FAILED" -> "unjudged"

Refreshes == INSTANCE RefreshContract WITH
    phase <- [k \in Ids |-> Phase(coverageRun[k])],
    working <- IF pipelineLock = "none" THEN 0 ELSE at[pipelineLock].run

ImplementsRefreshes == Refreshes!Spec

=============================================================================
