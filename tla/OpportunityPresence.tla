-------------------------- MODULE OpportunityPresence --------------------------
(***************************************************************************)
(* One Finding (an "opportunity") is written by four kinds of actors that  *)
(* know nothing of each other:                                             *)
(*   - collection runs, which observe it or prove its absence              *)
(*     (worker.py, opportunity_reconciliation.py), and which may overlap   *)
(*     and commit in an order other than the one they started in;          *)
(*   - operators, who treat, reject and reopen it                          *)
(*     (opportunity_lifecycle.py);                                         *)
(*   - operators, who archive and unarchive it (opportunity_archiving.py,  *)
(*     opportunity_bulk_archiving.py);                                     *)
(*   - retention sweeps, which archive it in batches                       *)
(*     (opportunity_retention.py).                                         *)
(* Every action is one database transaction.  Rows are locked FOR UPDATE   *)
(* before they are read, so a transaction is atomic at its commit; what a  *)
(* transaction reads BEFORE its locks (the time observed_at, the ids an    *)
(* archive-by-filter selected, a sweep's cutoff) is taken by an earlier    *)
(* action and may be stale when it is used.                                *)
(***************************************************************************)
EXTENDS Integers, FiniteSets

CONSTANTS
    Findings,           \* fingerprints an account may ever report
    Runs,               \* CollectionRuns of that account
    NoRun,              \* a NULL run reference
    Rules, Regions,     \* the coordinates of a coverage scope
    AllRegions,         \* the wildcard region "*" of a scope row
    RuleOf, RegionOf,   \* the scope a finding belongs to
    MissingThreshold,   \* settings.opportunity_resolution_missing_runs
    Sweeps,             \* processes that may run retention (worker, command)
    Enabled,            \* the retention policies that are enabled
    Days,               \* the threshold of each policy, in clock ticks
    BatchSize,          \* settings.opportunity_retention_batch_size
    MaxTime             \* bound on the clock, for model checking only

Policies == {"rejected", "treated", "resolved_external", "open"}

ASSUME ScopeAssumption ==
    /\ RuleOf \in [Findings -> Rules]
    /\ RegionOf \in [Findings -> Regions]
    /\ AllRegions \notin Regions
ASSUME RunAssumption == NoRun \notin Runs
ASSUME ThresholdAssumption == MissingThreshold \in Nat \ {0}
ASSUME RetentionAssumption ==
    /\ Enabled \subseteq Policies
    /\ Days \in [Policies -> Nat \ {0}]
    /\ BatchSize \in Nat \ {0}
ASSUME TimeAssumption == MaxTime \in Nat \ {0}

VARIABLES
    now,        \* the clock every container of the host reads
    run,        \* run[r]: the CollectionRun row and the worker's local time
    obs,        \* obs[f]: the runs that hold an OpportunityObservation of f
    finding,    \* finding[f]: the Finding row
    selected,   \* the ids an archive-by-filter in progress has read
    sweep       \* sweep[s]: the policy a retention sweep is at, and its run_at

vars == <<now, run, obs, finding, selected, sweep>>

Never == 0      \* a NULL timestamp; the clock starts at 1
Time == Nat

RunStates == {"none", "running", "persisting", "committed", "failed"}
RunRow == [state : RunStates, startedAt : Time, observedAt : Time]

Statuses == {"none", "open", "treated", "rejected"}   \* "none": no row yet
Presences == {"active", "missing", "resolved_externally"}
ArchiveReasons == {"none", "MANUAL", "RETENTION_POLICY"}

(***************************************************************************)
(* The columns of a Finding, and three facts read from its history tables: *)
(* unarchivedAt is the time of its last UNARCHIVE event; absentIn holds    *)
(* the runs of its absence rows in OpportunityPresenceHistory, and streak  *)
(* those written since its presence was last active.                       *)
(***************************************************************************)
FindingRow ==
    [status : Statuses, presence : Presences,
     missingCount : Nat, missingSince : Time, resolvedAt : Time,
     reconciledRun : Runs \cup {NoRun}, reconciledAt : Time,
     firstSeenAt : Time, lastSeenAt : Time, lastSeenRun : Runs \cup {NoRun},
     treatedAt : Time, rejectedAt : Time, needsReview : BOOLEAN,
     archive : ArchiveReasons, unarchivedAt : Time,
     absentIn : SUBSET Runs, streak : SUBSET Runs]

NoFinding ==
    [status |-> "none", presence |-> "active",
     missingCount |-> 0, missingSince |-> Never, resolvedAt |-> Never,
     reconciledRun |-> NoRun, reconciledAt |-> Never,
     firstSeenAt |-> Never, lastSeenAt |-> Never, lastSeenRun |-> NoRun,
     treatedAt |-> Never, rejectedAt |-> Never, needsReview |-> FALSE,
     archive |-> "none", unarchivedAt |-> Never,
     absentIn |-> {}, streak |-> {}]

Idle == [step |-> 0, at |-> Never]

Init ==
    /\ now = 1
    /\ run = [r \in Runs |->
                [state |-> "none", startedAt |-> Never, observedAt |-> Never]]
    /\ obs = [f \in Findings |-> {}]
    /\ finding = [f \in Findings |-> NoFinding]
    /\ selected = {}
    /\ sweep = [s \in Sweeps |-> Idle]

Exists(f) == finding[f].status # "none"
Archived(o) == o.archive # "none"

-----------------------------------------------------------------------------
(* What one committed run does to one row. *)

Created(o, r) ==
    [o EXCEPT !.status = "open",
              !.presence = "active",
              !.firstSeenAt = run[r].observedAt,
              !.lastSeenAt = run[r].observedAt,
              !.lastSeenRun = r]

(* Mutant: ingestion order taken for observation order. *)
MutantIsLatest(o, r, idWins) == TRUE

(* Equal times are ordered by the start of the runs, then by the random    *)
(* observation ids: idWins.                                                *)
IsLatest(o, r, idWins) ==
    \/ run[r].observedAt > o.lastSeenAt
    \/ /\ run[r].observedAt = o.lastSeenAt
       /\ \/ o.lastSeenRun = r
          \/ run[r].startedAt > run[o.lastSeenRun].startedAt
          \/ run[r].startedAt = run[o.lastSeenRun].startedAt /\ idWins

UnarchiveReappeared(o) ==
    IF o.status = "rejected" \/ ~Archived(o)
    THEN o
    ELSE [o EXCEPT !.archive = "none", !.unarchivedAt = now]

(* Mutant: an old run is not told from a new one. *)
MutantReactivatePresence(o, r) ==
    LET active == [o EXCEPT !.presence = "active", !.missingCount = 0,
                            !.missingSince = Never, !.resolvedAt = Never,
                            !.reconciledRun = r,
                            !.reconciledAt = run[r].startedAt, !.streak = {}]
    IN  UnarchiveReappeared(active)

ReactivatePresence(o, r) ==
    IF run[r].startedAt < o.reconciledAt
    THEN o
    ELSE LET active == [o EXCEPT !.presence = "active",
                                 !.missingCount = 0,
                                 !.missingSince = Never,
                                 !.resolvedAt = Never,
                                 !.reconciledRun = r,
                                 !.reconciledAt = run[r].startedAt,
                                 !.streak = {}]
         IN  IF o.status = "rejected"
             THEN [active EXCEPT !.needsReview = FALSE]
             ELSE UnarchiveReappeared(active)

ReviewTreatment(o, r) ==
    IF o.status = "treated" /\ run[r].observedAt > o.treatedAt
    THEN [o EXCEPT !.needsReview = TRUE]
    ELSE o

Observe(o, r, idWins) ==
    LET row == IF o.status = "none" THEN Created(o, r) ELSE o
    IN  IF IsLatest(row, r, idWins)
        THEN ReviewTreatment(
               ReactivatePresence(
                 [row EXCEPT !.lastSeenAt = run[r].observedAt,
                             !.lastSeenRun = r], r), r)
        ELSE row

(* A scope row proves absence for its own region, or for all of them. *)
Covered(f, scopes) ==
    \/ <<RuleOf[f], RegionOf[f]>> \in scopes
    \/ <<RuleOf[f], AllRegions>> \in scopes

(* Mutant: a late run counts like any other. *)
MutantCountsAsAbsence(o, r) ==
    o.status # "none" /\ o.presence \in {"active", "missing"} /\ o.reconciledRun # r

CountsAsAbsence(o, r) ==
    /\ o.status # "none"
    /\ o.presence \in {"active", "missing"}
    /\ o.reconciledRun # r
    /\ run[r].startedAt > o.reconciledAt
    /\ run[r].startedAt >= o.lastSeenAt

MarkAbsent(o, r) ==
    LET counted == [o EXCEPT !.missingCount = @ + 1,
                             !.missingSince = IF @ = Never
                                              THEN run[r].startedAt ELSE @,
                             !.reconciledRun = r,
                             !.reconciledAt = run[r].startedAt,
                             !.absentIn = @ \cup {r},
                             !.streak = @ \cup {r}]
    IN  IF counted.missingCount >= MissingThreshold
        THEN [counted EXCEPT !.presence = "resolved_externally",
                             !.resolvedAt = run[r].startedAt]
        ELSE [counted EXCEPT !.presence = "missing"]

(* Mutant: absence is reconciled before the observations are persisted. *)
MutantAfterRun(f, r, seen, scopes, idWins) ==
    LET o == IF Covered(f, scopes) /\ CountsAsAbsence(finding[f], r)
             THEN MarkAbsent(finding[f], r) ELSE finding[f]
    IN  IF f \in seen THEN Observe(o, r, idWins) ELSE o

(* persist_findings, then reconcile_opportunity_presence, on one row. *)
AfterRun(f, r, seen, scopes, idWins) ==
    IF f \in seen
    THEN Observe(finding[f], r, idWins)
    ELSE IF Covered(f, scopes) /\ CountsAsAbsence(finding[f], r)
         THEN MarkAbsent(finding[f], r)
         ELSE finding[f]

-----------------------------------------------------------------------------
(* Collection runs. *)

ClaimRun(r) ==
    /\ run[r].state = "none"
    /\ run' = [run EXCEPT ![r].state = "running", ![r].startedAt = now]
    /\ UNCHANGED <<now, obs, finding, selected, sweep>>

(* Provider I/O is over; observed_at is read before any row is locked. *)
FinishCollection(r) ==
    /\ run[r].state = "running"
    /\ run' = [run EXCEPT ![r].state = "persisting", ![r].observedAt = now]
    /\ UNCHANGED <<now, obs, finding, selected, sweep>>

(* The persistence transaction: what the providers returned is a set of    *)
(* findings seen and a set of scopes whose collectors succeeded.           *)
PersistRun(r) ==
    /\ run[r].state = "persisting"
    /\ \E seen \in SUBSET Findings,
          scopes \in SUBSET (Rules \X (Regions \cup {AllRegions})),
          idWins \in BOOLEAN :
         /\ obs' = [f \in Findings |->
                      IF f \in seen THEN obs[f] \cup {r} ELSE obs[f]]
         /\ finding' = [f \in Findings |->
                          AfterRun(f, r, seen, scopes, idWins)]
    /\ run' = [run EXCEPT ![r].state = "committed"]
    /\ UNCHANGED <<now, selected, sweep>>

(* An error anywhere rolls the transaction back. A crash of the worker     *)
(* leaves the run where it is, which is no step at all.                    *)
FailRun(r) ==
    /\ run[r].state \in {"running", "persisting"}
    /\ run' = [run EXCEPT ![r].state = "failed"]
    /\ UNCHANGED <<now, obs, finding, selected, sweep>>

-----------------------------------------------------------------------------
(* Operators' decisions, on one row or on a whole selection.               *)

Treated(o) ==
    [o EXCEPT !.status = "treated", !.treatedAt = now, !.needsReview = FALSE]

Rejected(o) ==
    [o EXCEPT !.status = "rejected", !.rejectedAt = now, !.needsReview = FALSE]

(* Mutant: reopening forgets the pending review. *)
MutantReopened(o) == [o EXCEPT !.status = "open", !.archive = "none"]

Reopened(o) ==
    LET shown == IF o.status = "rejected" /\ Archived(o)
                 THEN [o EXCEPT !.archive = "none", !.unarchivedAt = now]
                 ELSE o
    IN  [shown EXCEPT !.status = "open", !.needsReview = FALSE]

(* A bulk request whose guard fails on any row answers 409 and changes     *)
(* none of them.                                                           *)
Treat(F) ==
    /\ \A f \in F : finding[f].status = "open"
    /\ finding' = [f \in Findings |->
                     IF f \in F THEN Treated(finding[f]) ELSE finding[f]]
    /\ UNCHANGED <<now, run, obs, selected, sweep>>

Reject(F) ==
    /\ \A f \in F : finding[f].status = "open"
    /\ finding' = [f \in Findings |->
                     IF f \in F THEN Rejected(finding[f]) ELSE finding[f]]
    /\ UNCHANGED <<now, run, obs, selected, sweep>>

Reopen(F) ==
    /\ \A f \in F : finding[f].status \in {"treated", "rejected"}
    /\ finding' = [f \in Findings |->
                     IF f \in F THEN Reopened(finding[f]) ELSE finding[f]]
    /\ UNCHANGED <<now, run, obs, selected, sweep>>

(* A status that is set as such, by the older route: rows that have it already *)
(* are left out, and the others decided on as above, all or none.          *)
SetLegacyStatus(F, status) ==
    LET others == {f \in F : finding[f].status # status}
    IN  \/ status = "treated" /\ Treat(others)
        \/ status = "rejected" /\ Reject(others)
        \/ status = "open" /\ Reopen(others)

-----------------------------------------------------------------------------
(* Archiving by hand. Rows that are already archived are left as they are. *)

ArchivedManually(F) ==
    [f \in Findings |->
       IF f \in F /\ ~Archived(finding[f])
       THEN [finding[f] EXCEPT !.archive = "MANUAL"]
       ELSE finding[f]]

Archive(F) ==
    /\ \A f \in F : Exists(f)
    /\ finding' = ArchivedManually(F)
    /\ UNCHANGED <<now, run, obs, selected, sweep>>

(* Mutant: the status is not looked at. *)
MutantUnarchive(f) ==
    /\ Archived(finding[f])
    /\ finding' = [finding EXCEPT ![f].archive = "none",
                                  ![f].unarchivedAt = now]
    /\ UNCHANGED <<now, run, obs, selected, sweep>>

Unarchive(f) ==
    /\ Archived(finding[f])
    /\ finding[f].status # "rejected"
    /\ finding' = [finding EXCEPT ![f].archive = "none",
                                  ![f].unarchivedAt = now]
    /\ UNCHANGED <<now, run, obs, selected, sweep>>

(* archive_by_filter reads the matching ids without a lock ...             *)
SelectByFilter(status) ==
    /\ selected = {}
    /\ selected' = {f \in Findings : /\ finding[f].status = status
                                     /\ ~Archived(finding[f])}
    /\ UNCHANGED <<now, run, obs, finding, sweep>>

(* ... and later locks those rows; it does not evaluate the filter again.  *)
ArchiveSelected ==
    /\ selected # {}
    /\ finding' = ArchivedManually(selected)
    /\ selected' = {}
    /\ UNCHANGED <<now, run, obs, sweep>>

-----------------------------------------------------------------------------
(* Retention sweeps. *)

PolicyOrder == <<"rejected", "treated", "resolved_external", "open">>

Expired(o, policy, cutoff) ==
    CASE policy = "rejected" ->
           o.status = "rejected" /\ o.rejectedAt # Never /\ o.rejectedAt <= cutoff
      [] policy = "treated" ->
           o.status = "treated" /\ o.treatedAt # Never /\ o.treatedAt <= cutoff
      [] policy = "open" ->
           o.status = "open" /\ o.lastSeenAt # Never /\ o.lastSeenAt <= cutoff
      [] policy = "resolved_external" ->
           /\ o.presence = "resolved_externally"
           /\ o.resolvedAt # Never /\ o.resolvedAt <= cutoff

TreatedActivityGuard(o, policy) ==
    policy = "treated" => \/ o.presence # "active"
                          \/ o.lastSeenAt <= o.treatedAt

(* Mutants: a review does not protect; an unarchive does not protect. *)
MutantEligibleReview(o, policy, cutoff) ==
    /\ ~Archived(o) /\ Expired(o, policy, cutoff)
    /\ TreatedActivityGuard(o, policy) /\ ~(o.unarchivedAt > cutoff)
MutantEligibleUnarchived(o, policy, cutoff) ==
    /\ ~Archived(o) /\ ~o.needsReview /\ Expired(o, policy, cutoff)
    /\ TreatedActivityGuard(o, policy)

Eligible(o, policy, cutoff) ==
    /\ ~Archived(o)
    /\ ~o.needsReview
    /\ Expired(o, policy, cutoff)
    /\ TreatedActivityGuard(o, policy)
    /\ ~(o.unarchivedAt > cutoff)

StartSweep(s) ==
    /\ sweep[s] = Idle
    /\ sweep' = [sweep EXCEPT ![s] = [step |-> 1, at |-> now]]
    /\ UNCHANGED <<now, run, obs, finding, selected>>

Policy(s) == PolicyOrder[sweep[s].step]
Cutoff(s) == sweep[s].at - Days[Policy(s)]

(* One committed batch. SKIP LOCKED leaves out the rows some other          *)
(* transaction holds, so the batch is any non-empty part of what is         *)
(* eligible.                                                               *)
SweepBatch(s) ==
    /\ sweep[s].step # 0
    /\ Policy(s) \in Enabled
    /\ \E batch \in SUBSET {f \in Findings :
                              Eligible(finding[f], Policy(s), Cutoff(s))} :
         /\ batch # {}
         /\ Cardinality(batch) <= BatchSize
         /\ finding' = [f \in Findings |->
                          IF f \in batch
                          THEN [finding[f] EXCEPT !.archive = "RETENTION_POLICY"]
                          ELSE finding[f]]
    /\ UNCHANGED <<now, run, obs, selected, sweep>>

(* An empty batch, because nothing is eligible or because every eligible    *)
(* row is locked, ends the policy.                                          *)
EndPolicy(s) ==
    /\ sweep[s].step # 0
    /\ sweep' = [sweep EXCEPT ![s] =
                   IF sweep[s].step = 4
                   THEN Idle
                   ELSE [step |-> sweep[s].step + 1, at |-> sweep[s].at]]
    /\ UNCHANGED <<now, run, obs, finding, selected>>

(* An error, or the death of the process, between two batches. *)
AbortSweep(s) ==
    /\ sweep[s].step # 0
    /\ sweep' = [sweep EXCEPT ![s] = Idle]
    /\ UNCHANGED <<now, run, obs, finding, selected>>

-----------------------------------------------------------------------------
Tick ==
    /\ now < MaxTime
    /\ now' = now + 1
    /\ UNCHANGED <<run, obs, finding, selected, sweep>>

Collection ==
    \E r \in Runs : ClaimRun(r) \/ FinishCollection(r) \/ PersistRun(r) \/ FailRun(r)

Decision ==
    \E F \in SUBSET Findings \ {{}} :
        \/ Treat(F) \/ Reject(F) \/ Reopen(F)
        \/ \E status \in Statuses \ {"none"} : SetLegacyStatus(F, status)

Archiving ==
    \/ \E F \in SUBSET Findings \ {{}} : Archive(F)
    \/ \E f \in Findings : Unarchive(f)
    \/ \E status \in Statuses \ {"none"} : SelectByFilter(status)
    \/ ArchiveSelected

Retention ==
    \E s \in Sweeps : StartSweep(s) \/ SweepBatch(s) \/ EndPolicy(s) \/ AbortSweep(s)

Next == Collection \/ Decision \/ Archiving \/ Retention \/ Tick

Spec == Init /\ [][Next]_vars

(* A worker that runs a sweep goes on with it: only its own steps are fair, *)
(* nothing is asked of operators, of providers or of the other sweeps.      *)
FairSpec == Spec /\ \A s \in Sweeps : WF_vars(SweepBatch(s) \/ EndPolicy(s))

-----------------------------------------------------------------------------
(* Type invariant. *)
TypeOK ==
    /\ now \in Time
    /\ run \in [Runs -> RunRow]
    /\ obs \in [Findings -> SUBSET Runs]
    /\ finding \in [Findings -> FindingRow]
    /\ selected \in SUBSET Findings
    /\ sweep \in [Sweeps -> [step : 0..4, at : Time]]

(* last_seen_at and last_seen_collection_run_id name the latest observation *)
(* there is, in whatever order the runs committed                           *)
(* (_is_latest_observation, worker.py).                                     *)
LastSeenIsLatest ==
    \A f \in Findings : Exists(f) =>
        /\ finding[f].lastSeenRun \in obs[f]
        /\ run[finding[f].lastSeenRun].observedAt = finding[f].lastSeenAt
        /\ \A r \in obs[f] : run[r].observedAt <= finding[f].lastSeenAt

(* missing_count is the number of distinct runs that proved absence since   *)
(* the row was last active, each of them committed and started after the    *)
(* one before it; resolved_externally is concluded from exactly             *)
(* MissingThreshold of them (reconcile_opportunity_presence).               *)
PresenceIsProven ==
    \A f \in Findings :
        LET o == finding[f] IN
        /\ o.missingCount = Cardinality(o.streak)
        /\ o.presence = "active" <=> o.streak = {}
        /\ o.presence = "resolved_externally" <=>
             Cardinality(o.streak) >= MissingThreshold
        /\ \A q, r \in o.streak : q # r => run[q].startedAt # run[r].startedAt
        /\ \A r \in o.streak :
             /\ run[r].state = "committed"
             /\ o.missingSince <= run[r].startedAt
             /\ run[r].startedAt <= o.reconciledAt

(* No run both observed a finding and counted it as absent, so no run owns  *)
(* two contradicting rows of history.                                       *)
SeenIsNotAbsent ==
    \A f \in Findings : obs[f] \cap finding[f].absentIn = {}

(* needs_review is raised by a collection and lowered by operators, by code *)
(* that never looks at the other; together they keep it equal to "treated,  *)
(* and seen since the treatment".                                           *)
ReviewIsExact ==
    \A f \in Findings :
        finding[f].needsReview <=> /\ finding[f].status = "treated"
                                   /\ finding[f].lastSeenAt > finding[f].treatedAt

(* A run that commits late never overrides what a run that started after it *)
(* concluded about presence (roadmap, stage 23.2).                          *)
LaterRunWins ==
    [][\A f \in Findings :
         LET o == finding[f]
             p == finding'[f]
         IN  (o.presence # p.presence \/ o.missingCount # p.missingCount) =>
                \A q \in o.streak \cup {o.reconciledRun} :
                    q # NoRun =>
                    run[q].startedAt <= run[p.reconciledRun].startedAt]_vars

(* No sweep, under any policy, archives a treated opportunity that was seen *)
(* again after its treatment. The code tests it only for the treated policy *)
(* and, there, only while presence is active.                               *)
SweepSparesReappeared ==
    [][\A f \in Findings :
         /\ finding[f].archive = "none"
         /\ finding'[f].archive = "RETENTION_POLICY"
         /\ finding[f].status = "treated"
         => finding[f].lastSeenAt <= finding[f].treatedAt]_vars

(* A sweep ends, whatever operators archive and unarchive meanwhile: what   *)
(* is unarchived during a sweep is not eligible in it again.                *)
SweepEnds == \A s \in Sweeps : sweep[s].step # 0 ~> sweep[s].step = 0

(* roadmap, stage 23.2: "new real observation: presence returns to active". *)
(* A row is not held absent once a run that started after the absence was   *)
(* proven has seen it.                                                      *)
SeenLaterIsActive ==
    \A f \in Findings : \A r \in obs[f] :
        finding[f].presence # "active" =>
            run[r].startedAt < finding[f].reconciledAt

(* The promises of OpportunityContract, kept by this machine.               *)
Contract == INSTANCE OpportunityContract WITH
    status <- [f \in Findings |-> finding[f].status],
    archive <- [f \in Findings |-> finding[f].archive],
    needsReview <- [f \in Findings |-> finding[f].needsReview]

(* Every step of collections, operators and sweeps is one the contract      *)
(* allows, or moves nothing it speaks of.                                   *)
ImplementsContract == Contract!Spec

=============================================================================
