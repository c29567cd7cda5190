--------------------------- MODULE AccountSummary ---------------------------
(***************************************************************************)
(* The summary row of an account (dashboard_aggregation.py), kept beside   *)
(* the findings it counts. Decisions refresh it in their own transaction;  *)
(* the worker rebuilds it in a transaction after the run's; the dashboard  *)
(* repairs it when it is of an old run, and counts for itself if it cannot *)
(* (dashboard.py); the cleanup command deletes the observations that the   *)
(* comparison of two runs rests on (retention.py, collection_comparison.py,*)
(* opportunity_run_comparison.py). One account; a dashboard adds up its    *)
(* accounts, and counts them all for itself if one row is old. Runs are    *)
(* numbered as they started, and may be committed in any order.            *)
(***************************************************************************)
EXTENDS Integers, FiniteSetsExt

CONSTANTS
    Findings,
    MaxRuns,        \* bound on the CollectionRuns, for model checking
    Snapshots,      \* snapshots of an account's scope
    Unrecorded,     \* a scope or analyzer version that was not recorded
    Versions,       \* analyzer versions
    Writers         \* transactions that may be open at once

ASSUME SummaryAssumption ==
    /\ MaxRuns \in Nat
    /\ Unrecorded \notin Snapshots /\ Unrecorded \notin Versions

VARIABLES
    ended,          \* ended[r]: the CollectionRun row and its scope executions
    observed,       \* the OpportunityObservation rows, <<run, finding>>
    standing,       \* standing[f]: the Finding row
    summary,        \* the DashboardAccountSummary row
    open,           \* open[w]: transaction w, if it is under way
    doomed          \* the observations a cleanup batch has selected

summaryVars == <<ended, observed, standing, summary, open, doomed>>

Runs == 1..MaxRuns
None == 0

(* covered: the findings whose rule and region the run covers with success. *)
CollectionRun ==
    [status : {"RUNNING", "SUCCESS", "FAILED"}, covered : SUBSET Findings,
     scope : Snapshots \cup {Unrecorded}, version : Versions \cup {Unrecorded},
     detailed : BOOLEAN]

(* judged: the latest run that said whether the finding is there.           *)
Standing == [status : {"open", "treated", "rejected"}, archived : BOOLEAN,
             known : BOOLEAN, judged : Runs \cup {None}]

(* The comparison with an earlier run, as the summary keeps it.             *)
NoChanges == [baseline |-> None, has |-> FALSE, new |-> 0, gone |-> 0,
              changed |-> FALSE, unknown |-> FALSE]

NoSummary == [run |-> None, metrics |-> [s \in {"open", "treated", "rejected"} |-> 0],
              changes |-> NoChanges]

(* A transaction that writes findings, or only rebuilds. It holds the row   *)
(* of the summary if there was one when it asked for it.                    *)
Idle == [step |-> "idle", writes |-> <<>>, holds |-> FALSE, target |-> None,
         metrics |-> NoSummary.metrics]

SummaryInit ==
    /\ \E scope \in [Runs -> Snapshots \cup {Unrecorded}],
          version \in [Runs -> Versions \cup {Unrecorded}] :
         ended = [r \in Runs |-> [status |-> "RUNNING", covered |-> {}, detailed |-> TRUE,
                                  scope |-> scope[r], version |-> version[r]]]
    /\ observed = {}
    /\ standing = [f \in Findings |-> [status |-> "open", archived |-> FALSE,
                                       known |-> FALSE, judged |-> None]]
    /\ summary = NoSummary
    /\ open = [w \in Writers |-> Idle]
    /\ doomed = {}

-----------------------------------------------------------------------------
(* What the dashboards count and compare. *)

Successful == {r \in Runs : ended[r].status = "SUCCESS"}

Latest == Max(Successful \cup {None})

In(r) == {f \in Findings : <<r, f>> \in observed}

(* _current_metrics: by status, of what the run saw and is not archived.    *)
(* Severities and amounts are further columns of the same rows.             *)
Metrics(r, rows) ==
    [s \in {"open", "treated", "rejected"} |->
       Cardinality({f \in In(r) : ~rows[f].archived /\ rows[f].status = s})]

SameScope(r, q) ==
    \/ ended[r].scope = ended[q].scope
    \/ Unrecorded \in {ended[r].scope, ended[q].scope}

(* previous_comparable_run.                                                 *)
Baseline(r) == Max({q \in Successful : q < r /\ SameScope(r, q)} \cup {None})

NewIn(b, t) == In(t) \ In(b)
NoLongerIn(b, t) == (In(b) \ In(t)) \cap ended[t].covered

(* What a rejection or an archive hides is not news.                        *)
Operational(F, rows) == {f \in F : rows[f].status # "rejected" /\ ~rows[f].archived}

(* resolve_run_context, of a successful run; a baseline whose observations  *)
(* expired is still named.                                                  *)
Context(t) ==
    LET b == IF ended[t].detailed THEN Baseline(t) ELSE None
        known == Unrecorded \notin {ended[b].version, ended[t].version}
    IN  [baseline |-> b,
         has |-> b # None /\ ended[b].detailed,
         changed |-> b # None /\ known /\ ended[b].version # ended[t].version,
         unknown |-> b # None /\ ~known]

(* opportunity_run_changes, as _comparison_metrics takes it.                *)
Changes(t, rows) ==
    LET c == Context(t)
        Count(F) == IF c.has THEN Cardinality(F) ELSE 0
    IN  [NoChanges EXCEPT
           !.baseline = c.baseline, !.has = c.has,
           !.changed = c.changed, !.unknown = c.unknown,
           !.new = Count(Operational(NewIn(c.baseline, t), rows)),
           !.gone = Count(NoLongerIn(c.baseline, t))]

-----------------------------------------------------------------------------
(* Collections. *)

Locked == UNION {DOMAIN open[w].writes : w \in Writers}

(* persist_findings, reconcile_opportunity_presence: of the rows no          *)
(* decision holds. Whether an absence is concluded is OpportunityPresence.   *)
Persist(r, saw, covered, absent) ==
    /\ ended[r].status = "RUNNING"
    /\ (saw \cup covered) \cap Locked = {}
    /\ absent \subseteq {f \in covered \ saw : standing[f].known /\ standing[f].judged < r}
    /\ ended' = [ended EXCEPT ![r].status = "SUCCESS", ![r].covered = covered]
    /\ observed' = observed \cup ({r} \X saw)
    /\ standing' = [f \in Findings |->
         LET o == standing[f]
             again == f \in saw /\ o.judged <= r
         IN  [o EXCEPT !.known = @ \/ f \in saw,
                       !.judged = IF again \/ f \in absent THEN r ELSE @,
                       !.archived = @ /\ ~(again /\ o.status # "rejected")]]
    /\ UNCHANGED <<summary, open, doomed>>

Fail(r) ==
    /\ ended[r].status = "RUNNING"
    /\ ended' = [ended EXCEPT ![r].status = "FAILED"]
    /\ UNCHANGED <<observed, standing, summary, open, doomed>>

(* The two newest successful runs of the account are protected, and those   *)
(* the summary refers to.                                                   *)
Protected(r) ==
    \/ Cardinality({q \in Successful : q > r}) < 2
    \/ r \in {summary.run, summary.changes.baseline}

(* A batch of cleanup_observations is selected, and deleted later together  *)
(* with a mark on its runs.                                                 *)
SelectBatch(D) ==
    /\ doomed = {} /\ D # {}
    /\ D \subseteq {o \in observed : ~Protected(o[1])}
    /\ doomed' = D
    /\ UNCHANGED <<ended, observed, standing, summary, open>>

DeleteBatch ==
    /\ doomed # {}
    /\ ended' = [r \in Runs |-> [ended[r] EXCEPT !.detailed = @ /\ \A o \in doomed : o[1] # r]]
    /\ observed' = observed \ doomed
    /\ doomed' = {}
    /\ UNCHANGED <<standing, summary, open>>

-----------------------------------------------------------------------------
(* Decisions and rebuilds. *)

(* What a decision or a retention sweep makes of one row.                   *)
Moves(o) ==
    (IF o.status = "open"
     THEN {[o EXCEPT !.status = "treated"], [o EXCEPT !.status = "rejected"]}
     ELSE {[o EXCEPT !.status = "open", !.archived = @ /\ o.status # "rejected"]})
    \cup (IF o.archived
          THEN {[o EXCEPT !.archived = FALSE] : s \in {"open", "treated"} \cap {o.status}}
          ELSE {[o EXCEPT !.archived = TRUE]})

(* The rows of the findings are locked, and what becomes of them decided.   *)
Decide(w, F) ==
    /\ open[w].step = "idle"
    /\ F # {} /\ F \cap Locked = {} /\ \A f \in F : standing[f].known
    /\ \E writes \in [F -> UNION {Moves(standing[f]) : f \in F}] :
         /\ \A f \in F : writes[f] \in Moves(standing[f])
         /\ open' = [open EXCEPT ![w].step = "decided", ![w].writes = writes]
    /\ UNCHANGED <<ended, observed, standing, summary, doomed>>

(* Mutant: the row of the summary is read, and not locked. *)
MutantMutexFree == TRUE

(* The row of the summary is the mutex of its account; no row, no mutex.    *)
MutexFree == \A w \in Writers : ~open[w].holds

(* The findings as transaction w sees them. *)
RowsOf(w) == [f \in Findings |->
    IF f \in DOMAIN open[w].writes THEN open[w].writes[f] ELSE standing[f]]

(* refresh_account_summary_after_lifecycle of what was decided, or          *)
(* rebuild_account_summary by the worker, the dashboard or a command: the   *)
(* target is resolved once the row is held. Who asks for a run that is not  *)
(* the latest is refused, and nothing happens.                              *)
Lock(w) ==
    /\ open[w].step \in {"idle", "decided"}
    /\ MutexFree
    /\ Latest # None
    /\ open' = [open EXCEPT ![w].step = "counted", ![w].target = Latest,
                            ![w].holds = summary.run # None,
                            ![w].metrics = Metrics(Latest, RowsOf(w))]
    /\ UNCHANGED <<ended, observed, standing, summary, doomed>>

(* The comparison, and the commit of all; of two that found no row the      *)
(* second cannot insert its own, and is rolled back with its decisions.     *)
Refresh(w) ==
    /\ open[w].step = "counted"
    /\ IF open[w].holds \/ summary.run = None
       THEN /\ summary' = [run |-> open[w].target, metrics |-> open[w].metrics,
                           changes |-> Changes(open[w].target, RowsOf(w))]
            /\ standing' = RowsOf(w)
       ELSE UNCHANGED <<summary, standing>>
    /\ open' = [open EXCEPT ![w] = Idle]
    /\ UNCHANGED <<ended, observed, doomed>>

(* An error, or the end of the process: nothing remains of a transaction.   *)
RollBack(w) ==
    /\ open[w].step # "idle"
    /\ open' = [open EXCEPT ![w] = Idle]
    /\ UNCHANGED <<ended, observed, standing, summary, doomed>>

-----------------------------------------------------------------------------
(* _dashboard_summary_direct: what is counted at once, from the findings.   *)
Counted == [metrics |-> Metrics(Latest, standing), changes |-> Changes(Latest, standing)]

(* dashboard_summary: the row, or what is counted if the row is not of the  *)
(* latest run and could not be repaired.                                    *)
Shown ==
    IF summary.run = Latest
    THEN [metrics |-> summary.metrics, changes |-> summary.changes]
    ELSE Counted

SummaryNext ==
    \/ \E r \in Runs :
         \/ \E saw, covered, absent \in SUBSET Findings : Persist(r, saw, covered, absent)
         \/ Fail(r)
    \/ \E D \in SUBSET observed : SelectBatch(D)
    \/ DeleteBatch
    \/ \E w \in Writers :
         \/ \E F \in SUBSET Findings : Decide(w, F)
         \/ Lock(w) \/ Refresh(w) \/ RollBack(w)

SummarySpec == SummaryInit /\ [][SummaryNext]_summaryVars

-----------------------------------------------------------------------------
(* Type invariant. *)
SummaryTypeOK ==
    /\ ended \in [Runs -> CollectionRun]
    /\ observed \subseteq Runs \X Findings
    /\ standing \in [Findings -> Standing]
    /\ summary.run \in Runs \cup {None}
    /\ doomed \subseteq Runs \X Findings

(* What the dashboard shows of an account are the counts of its findings,   *)
(* whoever decides, collects, rebuilds or cleans up at once                 *)
(* (refresh_account_summary_after_lifecycle, dashboard_summary). Its        *)
(* comparison is with the latest comparable run too, unless since it was    *)
(* made an older run was committed late, or the baseline lost its           *)
(* observations to a batch selected before the summary referred to it.      *)
DashboardIsTrue ==
    Latest # None =>
       /\ Shown.metrics = Counted.metrics
       /\ \/ Shown.changes = Counted.changes
          \/ Baseline(Latest) > Shown.changes.baseline
          \/ Shown.changes.has /\ ~ended[Shown.changes.baseline].detailed

=============================================================================
