-------------------------- MODULE RetentionScheduler --------------------------
(***************************************************************************)
(* The daily retention of opportunities (worker_runtime.py,                *)
(* DailyOpportunityRetentionScheduler). Every worker looks at the day once *)
(* in a while: it tries the advisory lock of that day, reads the day's     *)
(* checkpoint, sweeps under the policy the sweep reads for itself, and     *)
(* writes how the day went. Errors, deaths, changes of policy and midnight *)
(* come between any two of these. The sweep itself is OpportunityPresence. *)
(***************************************************************************)
EXTENDS Integers, FiniteSets

CONSTANTS
    Instances,      \* worker processes
    Days,           \* 0..Days are the days that are looked at
    MaxPolicies,    \* bound on the versions of the policy, for model checking
    MaxFaults       \* bound on errors and deaths, for model checking

ASSUME SchedulerAssumption ==
    /\ "none" \notin Instances
    /\ Days \in Nat
    /\ MaxPolicies \in Nat \ {0}
    /\ MaxFaults \in Nat

VARIABLES
    today,
    policyVersion,
    checkpoint,     \* checkpoint[d]: the OpportunityRetentionRun row of day d
    holder,         \* holder[d]: whose connection has the advisory lock of d
    daily,          \* daily[w]: where instance w is in its tick
    applied,        \* applied[d]: the policies a whole sweep of day d was under
    faults

retentionVars == <<today, policyVersion, checkpoint, holder, daily, applied, faults>>

Dates == 0..Days
Versions == 1..MaxPolicies
NoVersion == 0

(* over: an hour has passed since finished_at, which is when the tick that  *)
(* failed had begun.                                                        *)
Checkpoint == [status : {"none", "RUNNING", "SUCCESS", "FAILED"},
               version : Versions \cup {NoVersion}, over : BOOLEAN]
(* ready: _next_lock_check_at is None or not in the future.                 *)
Daily == [step : {"idle", "prepare", "sweep", "mark", "failing", "down"},
          day : Dates, version : Versions \cup {NoVersion}, ready : BOOLEAN]

Between(ready) == [step |-> "idle", day |-> 0, version |-> NoVersion, ready |-> ready]

RetentionTypeOK ==
    /\ today \in Dates
    /\ policyVersion \in Versions
    /\ checkpoint \in [Dates -> Checkpoint]
    /\ holder \in [Dates -> Instances \cup {"none"}]
    /\ daily \in [Instances -> Daily]
    /\ applied \in [Dates -> SUBSET Versions]
    /\ faults \in 0..MaxFaults

RetentionInit ==
    /\ today = 0
    /\ policyVersion = 1
    /\ checkpoint = [d \in Dates |-> [status |-> "none", version |-> NoVersion, over |-> FALSE]]
    /\ holder = [d \in Dates |-> "none"]
    /\ daily = [w \in Instances |-> Between(TRUE)]
    /\ applied = [d \in Dates |-> {}]
    /\ faults = 0

(* Mutant: a day that succeeded is settled whatever the policy has become. *)
MutantSettled(d) == checkpoint[d].status = "SUCCESS"

(* The day is settled: nothing is left to do under the policy in force.     *)
Settled(d) ==
    checkpoint[d].status = "SUCCESS" /\ checkpoint[d].version = policyVersion

Fault == faults < MaxFaults /\ faults' = faults + 1

Release(w) == holder' = [d \in Dates |-> IF holder[d] = w THEN "none" ELSE holder[d]]

(* Mutant: the instance does not ask who has the lock. *)
MutantClaimPeriod(w) ==
    /\ daily[w].step = "idle" /\ daily[w].ready
    /\ daily' = [daily EXCEPT ![w] = [@ EXCEPT !.step = "prepare", !.day = today]]
    /\ holder' = [holder EXCEPT ![today] = w]
    /\ UNCHANGED <<today, policyVersion, checkpoint, applied, faults>>

(* The head of tick and _claim_period; who finds the lock taken comes back  *)
(* in five minutes.                                                         *)
ClaimPeriod(w) ==
    /\ daily[w].step = "idle" /\ daily[w].ready
    /\ IF holder[today] = "none"
       THEN /\ daily' = [daily EXCEPT ![w] = [@ EXCEPT !.step = "prepare", !.day = today]]
            /\ holder' = [holder EXCEPT ![today] = w]
       ELSE /\ daily' = [daily EXCEPT ![w] = Between(FALSE)]
            /\ UNCHANGED holder
    /\ UNCHANGED <<today, policyVersion, checkpoint, applied, faults>>

(* The database does not answer: no lock is held, and yet the day will be   *)
(* marked as failed.                                                        *)
ClaimError(w) ==
    /\ daily[w].step = "idle" /\ daily[w].ready
    /\ Fault
    /\ daily' = [daily EXCEPT ![w] = [@ EXCEPT !.step = "failing", !.day = today]]
    /\ UNCHANGED <<today, policyVersion, checkpoint, holder, applied>>

BackingOff(d) == checkpoint[d].status = "FAILED" /\ ~checkpoint[d].over

(* _prepare_period, one transaction under the row's lock.                   *)
PreparePeriod(w) ==
    LET d == daily[w].day
    IN  /\ daily[w].step = "prepare"
        /\ IF Settled(d) \/ BackingOff(d)
           THEN /\ daily' = [daily EXCEPT ![w] = Between(FALSE)]
                /\ Release(w)
                /\ UNCHANGED checkpoint
           ELSE /\ checkpoint' = [checkpoint EXCEPT ![d] =
                     [status |-> "RUNNING", version |-> NoVersion, over |-> FALSE]]
                /\ daily' = [daily EXCEPT ![w].step = "sweep"]
                /\ UNCHANGED holder
        /\ UNCHANGED <<today, policyVersion, applied, faults>>

(* _run_policy: the sweep reads the policy again, in a session of its own.  *)
StartSweep(w) ==
    /\ daily[w].step = "sweep"
    /\ daily' = [daily EXCEPT ![w] = [@ EXCEPT !.step = "mark", !.version = policyVersion]]
    /\ UNCHANGED <<today, policyVersion, checkpoint, holder, applied, faults>>

(* Mutant: the version recorded is the one in force when the sweep ends. *)
MutantMarkSuccess(w) ==
    /\ daily[w].step = "mark"
    /\ checkpoint' = [checkpoint EXCEPT ![daily[w].day] =
                        [status |-> "SUCCESS", version |-> policyVersion, over |-> FALSE]]
    /\ applied' = [applied EXCEPT ![daily[w].day] = @ \cup {daily[w].version}]
    /\ daily' = [daily EXCEPT ![w] = Between(FALSE)]
    /\ Release(w)
    /\ UNCHANGED <<today, policyVersion, faults>>

(* The sweep has ended, and _mark_success.                                  *)
MarkSuccess(w) ==
    /\ daily[w].step = "mark"
    /\ checkpoint' = [checkpoint EXCEPT ![daily[w].day] =
                        [status |-> "SUCCESS", version |-> daily[w].version, over |-> FALSE]]
    /\ applied' = [applied EXCEPT ![daily[w].day] = @ \cup {daily[w].version}]
    /\ daily' = [daily EXCEPT ![w] = Between(FALSE)]
    /\ Release(w)
    /\ UNCHANGED <<today, policyVersion, faults>>

(* An error of _prepare_period, of the sweep or of _mark_success.           *)
PeriodError(w) ==
    /\ daily[w].step \in {"prepare", "sweep", "mark"}
    /\ Fault
    /\ daily' = [daily EXCEPT ![w] = [@ EXCEPT !.step = "failing", !.version = NoVersion]]
    /\ UNCHANGED <<today, policyVersion, checkpoint, holder, applied>>

(* _mark_failed, whoever wrote the row and whatever it says; a sweep of     *)
(* more than an hour fails with its back-off already over. When the write   *)
(* fails too, the row stays as it is.                                       *)
MarkFailed(w) ==
    LET d == daily[w].day
    IN  /\ daily[w].step = "failing"
        /\ \/ /\ checkpoint[d].status # "none"
              /\ \E over \in BOOLEAN :
                    checkpoint' = [checkpoint EXCEPT ![d] =
                        [status |-> "FAILED", version |-> NoVersion, over |-> over]]
              /\ UNCHANGED faults
           \/ checkpoint[d].status = "none" /\ UNCHANGED <<checkpoint, faults>>
           \/ Fault /\ UNCHANGED checkpoint
        /\ daily' = [daily EXCEPT ![w] = Between(FALSE)]
        /\ Release(w)
        /\ UNCHANGED <<today, policyVersion, applied>>

(* The lock goes with the connection of the process.                        *)
RetentionCrash(w) ==
    /\ daily[w].step # "down"
    /\ Fault
    /\ daily' = [daily EXCEPT ![w] = [Between(FALSE) EXCEPT !.step = "down"]]
    /\ Release(w)
    /\ UNCHANGED <<today, policyVersion, checkpoint, applied>>

RetentionRestart(w) ==
    /\ daily[w].step = "down"
    /\ daily' = [daily EXCEPT ![w] = Between(TRUE)]
    /\ UNCHANGED <<today, policyVersion, checkpoint, holder, applied, faults>>

(* The five minutes of LOCK_RECHECK or the hour of FAILURE_RETRY are over.  *)
RecheckDue(w) ==
    /\ daily[w].step = "idle" /\ ~daily[w].ready
    /\ daily' = [daily EXCEPT ![w] = Between(TRUE)]
    /\ UNCHANGED <<today, policyVersion, checkpoint, holder, applied, faults>>

BackoffOver(d) ==
    /\ BackingOff(d)
    /\ checkpoint' = [checkpoint EXCEPT ![d].over = TRUE]
    /\ UNCHANGED <<today, policyVersion, holder, daily, applied, faults>>

Midnight ==
    /\ today < Days
    /\ today' = today + 1
    /\ UNCHANGED <<policyVersion, checkpoint, holder, daily, applied, faults>>

SavePolicy ==
    /\ policyVersion < MaxPolicies
    /\ policyVersion' = policyVersion + 1
    /\ UNCHANGED <<today, checkpoint, holder, daily, applied, faults>>

DailyWork(w) ==
    \/ ClaimPeriod(w) \/ PreparePeriod(w) \/ StartSweep(w)
    \/ MarkSuccess(w) \/ MarkFailed(w) \/ RetentionRestart(w) \/ RecheckDue(w)

RetentionNext ==
    \/ \E w \in Instances : DailyWork(w)
    \/ \E w \in Instances : ClaimError(w) \/ PeriodError(w) \/ RetentionCrash(w)
    \/ \E d \in Dates : BackoffOver(d)
    \/ Midnight
    \/ SavePolicy

(* The loop of main comes back to every instance, a container that stops is *)
(* restarted, and an hour ends. Nothing else is asked.                      *)
RetentionFairness ==
    /\ \A w \in Instances : WF_retentionVars(DailyWork(w))
    /\ \A d \in Dates : WF_retentionVars(BackoffOver(d))

RetentionSpec == RetentionInit /\ [][RetentionNext]_retentionVars /\ RetentionFairness

-----------------------------------------------------------------------------
(* Properties. *)

Sweeping(w) == daily[w].step \in {"prepare", "sweep", "mark"}

(* Two instances are never between the claim and the outcome of one day     *)
(* (the advisory lock of _claim_period), whatever died or failed before.    *)
DaySweptByOne ==
    \A v, w \in Instances :
        Sweeping(v) /\ Sweeping(w) /\ daily[v].day = daily[w].day => v = w

(* A day is only said to have succeeded under a policy that a whole sweep of *)
(* the day applied, although the policy may be saved while the sweep runs    *)
(* (_mark_success, from_management_policy).                                  *)
SuccessWasApplied ==
    \A d \in Dates : checkpoint[d].status = "SUCCESS" =>
        checkpoint[d].version \in applied[d]

(* Once midnights and changes of policy are over, today ends up swept under *)
(* the policy in force, and stays so: a checkpoint left RUNNING by a dead   *)
(* worker, or marked FAILED by one without the lock, is taken up again      *)
(* (_prepare_period).                                                       *)
TodayIsSwept ==
    <>[](today = Days /\ policyVersion = MaxPolicies) =>
        <>[](checkpoint[Days].status = "SUCCESS" /\ checkpoint[Days].version = policyVersion)

=============================================================================
