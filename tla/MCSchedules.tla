------------------------------ MODULE MCSchedules ------------------------------
(* The loops that come back by themselves, for TLC: the days of the retention of *)
(* opportunities and its sweeps, the refresh of RDS reservations, the deployer,  *)
(* and the queue of collections with its workers. They share no state; a        *)
(* behaviour is one of one of them, the others rest.                            *)
EXTENDS RetentionScheduler, RdsPipeline, AutoDeploy, CollectionQueue, TLC

VARIABLES course, swClock, swScan, swSeen, swRow, swChosen, swBatch

sweepVars == <<swClock, swScan, swSeen, swRow, swChosen, swBatch>>
schedulesVars == <<retentionVars, pipelineVars, deployVars, vars, sweepVars, course>>

(* A sweep over two opportunities of one run, against operators who keep         *)
(* archiving and unarchiving.                                                   *)
Swept == {"f1", "f2"}
SweepPolicies == {"rejected", "treated", "resolved_external", "open"}

Retained ==
    INSTANCE OpportunityPresence
    WITH Findings <- Swept, Runs <- {"r1"}, NoRun <- "none", Rules <- {"rule"},
         Regions <- {"us"}, AllRegions <- "*", RuleOf <- [f \in Swept |-> "rule"],
         RegionOf <- [f \in Swept |-> "us"], MissingThreshold <- 1,
         Sweeps <- {"s1"}, Enabled <- {"open"},
         Days <- [p \in SweepPolicies |-> 1], BatchSize <- 1, MaxTime <- 3,
         now <- swClock, run <- swScan, obs <- swSeen, finding <- swRow, selected <- swChosen,
         sweep <- swBatch

SweepsCourse ==
    Retained!Collection \/ Retained!Archiving \/ Retained!Retention \/ Retained!Tick

SweepEnds == Retained!SweepEnds

SchedulesInit ==
    /\ RetentionInit /\ PipelineInit /\ DeployInit /\ Init /\ Retained!Init
    /\ course \in {"retention", "pipeline", "deploy", "queue", "sweeps"}
    /\ course # "queue" => \A a \in Accounts : ~account[a].scheduled /\ account[a].enabled

SchedulesNext ==
    /\ \/ course = "retention" /\ RetentionNext /\ UNCHANGED <<pipelineVars, deployVars, vars, sweepVars>>
       \/ course = "pipeline" /\ PipelineNext /\ UNCHANGED <<retentionVars, deployVars, vars, sweepVars>>
       \/ course = "deploy" /\ DeployNext /\ UNCHANGED <<retentionVars, pipelineVars, vars, sweepVars>>
       \/ course = "queue" /\ Next /\ UNCHANGED <<retentionVars, pipelineVars, deployVars, sweepVars>>
       \/ course = "sweeps" /\ SweepsCourse /\ UNCHANGED <<retentionVars, pipelineVars, deployVars, vars>>
    /\ UNCHANGED course

(* RetentionFairness, PipelineFairness, DeployFairness and that of FairSpec, each *)
(* of the behaviours of its module: what rests is not enabled.                  *)
SchedulesFairness ==
    /\ \A w \in Instances : WF_retentionVars(course = "retention" /\ DailyWork(w))
    /\ \A d \in Dates : WF_retentionVars(course = "retention" /\ BackoffOver(d))
    /\ \A p \in Processes : WF_pipelineVars(course = "pipeline" /\ Advance(p))
    /\ \A p \in Schedulers : WF_pipelineVars(course = "pipeline" /\ TakeLock(p))
    /\ \A k \in Ids : /\ WF_pipelineVars(course = "pipeline" /\ GetOld(k))
                      /\ WF_pipelineVars(course = "pipeline" /\ GetStale(k))
    /\ WF_deployVars(course = "deploy" /\ Resume)
    /\ WF_deployVars(course = "deploy" /\ Deploying)
    /\ \A w \in Workers : WF_vars(course = "queue" /\ Work(w))
    /\ WF_sweepVars(course = "sweeps" /\ (Retained!SweepBatch("s1") \/ Retained!EndPolicy("s1")))

SchedulesSpec == SchedulesInit /\ [][SchedulesNext]_schedulesVars /\ SchedulesFairness

(* The refresh alone. *)
PipelineAlone ==
    /\ SchedulesInit /\ course = "pipeline" /\ [][SchedulesNext]_schedulesVars

=============================================================================
