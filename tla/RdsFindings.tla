----------------------------- MODULE RdsFindings -----------------------------
(***************************************************************************)
(* What becomes an opportunity of RDS reservations                         *)
(* (rds_reservation_opportunities.py). Inventory rows are refreshed by     *)
(* collections, coverage is computed over the active ones, and a generator *)
(* turns one coverage run into findings: it reads coverage, rows and the   *)
(* findings in the backlog, and commits later. A refresh holds a lock      *)
(* while it does all three; the routes that collect, compute or generate   *)
(* hold none, so all of them interleave. Time counts in units of the       *)
(* freshness threshold's parts.                                            *)
(***************************************************************************)
EXTENDS Integers, FiniteSets

CONSTANTS
    Workloads,      \* AwsRdsInstance rows
    Reserved,       \* AwsRdsReservedInstance rows
    Generators,     \* who may generate opportunities at once
    FreshFor,       \* rds_reservation_inventory_freshness_hours
    MaxCoverages,   \* bound on the coverage runs, for model checking
    MaxHours        \* bound on the clock, for model checking

Resources == Workloads \cup Reserved

ASSUME FindingsAssumption ==
    /\ Workloads \cap Reserved = {}
    /\ FreshFor \in Nat /\ MaxCoverages \in Nat /\ MaxHours \in Nat

VARIABLES
    hour,
    row,            \* row[x]: the inventory row of resource x
    computed,       \* the coverage runs made so far are 1..computed
    coverage,       \* coverage[k]: what run k found of each active resource
    generator,      \* generator[g]: what g has read and makes of it
    opportunity     \* opportunity[o]: the Finding row

findingVars == <<hour, row, computed, coverage, generator, opportunity>>

Hours == 0..MaxHours
Coverages == 1..MaxCoverages

Rules(x) == IF x \in Workloads THEN {"UNCOVERED", "PARTIAL_COVERAGE"}
                               ELSE {"UNUSED_CAPACITY", "EXPIRING"}
Opportunities == {o \in Resources \X {"UNCOVERED", "PARTIAL_COVERAGE",
                                      "UNUSED_CAPACITY", "EXPIRING"} : o[2] \in Rules(o[1])}

(* usable: billable, of an instance; in its term and active, of a           *)
(* reservation. ending: its term ends within the warning days.              *)
Row == [known : BOOLEAN, active : BOOLEAN, usable : BOOLEAN, ending : BOOLEAN,
        collectedAt : Hours]

(* What a coverage run says of a resource: nothing if it was not active.    *)
Said(x) == IF x \in Workloads THEN {"none", "UNCOVERED", "PARTIAL", "FULL", "UNKNOWN"}
                              ELSE {"none", "USED", "UNUSED"}
Saying == {"none", "UNCOVERED", "PARTIAL", "FULL", "UNKNOWN", "USED", "UNUSED"}

Presence == {"active", "missing", "resolved_externally"}
Generator ==
    [run : {0} \cup Coverages, verdict : [Opportunities -> Presence],
     backlog : [Opportunities -> Presence \cup {"absent"}],
     stale : SUBSET Resources, alone : BOOLEAN]

NoRow == [known |-> FALSE, active |-> FALSE, usable |-> FALSE, ending |-> FALSE,
          collectedAt |-> 0]
AtEase == [run |-> 0, verdict |-> [o \in Opportunities |-> "missing"],
           backlog |-> [o \in Opportunities |-> "absent"], stale |-> {}, alone |-> TRUE]

FindingsTypeOK ==
    /\ hour \in Hours
    /\ row \in [Resources -> Row]
    /\ computed \in 0..MaxCoverages
    /\ coverage \in [Coverages -> [Resources -> Saying]]
    /\ generator \in [Generators -> Generator]
    /\ opportunity \in [Opportunities -> [presence : Presence \cup {"absent"},
                                          archived : BOOLEAN]]

FindingsInit ==
    /\ hour = 0
    /\ row = [x \in Resources |-> NoRow]
    /\ computed = 0
    /\ coverage = [k \in Coverages |-> [x \in Resources |-> "none"]]
    /\ generator = [g \in Generators |-> AtEase]
    /\ opportunity = [o \in Opportunities |-> [presence |-> "absent", archived |-> FALSE]]

HourPasses ==
    /\ hour < MaxHours
    /\ hour' = hour + 1
    /\ UNCHANGED <<row, computed, coverage, generator, opportunity>>

(* reconcile_db_instances, reconcile_reserved_db_instances: the resource is *)
(* in the answer, or it is not and was active. A row that is inactive       *)
(* already is not touched again.                                            *)
Collect(x) ==
    /\ \/ \E usable, ending \in BOOLEAN :
             /\ ending => x \in Reserved /\ usable
             /\ row' = [row EXCEPT ![x] =
                   [known |-> TRUE, active |-> TRUE, usable |-> usable,
                    ending |-> ending, collectedAt |-> hour]]
       \/ /\ row[x].active
          /\ row' = [row EXCEPT ![x].active = FALSE, ![x].collectedAt = hour]
    /\ UNCHANGED <<hour, computed, coverage, generator, opportunity>>

(* run_rds_reservation_coverage: rows for what is active and usable; the    *)
(* allotment itself is RdsCoverage.                                         *)
Compute ==
    /\ computed < MaxCoverages
    /\ computed' = computed + 1
    /\ \E said \in [Resources -> Saying] :
          /\ \A x \in Resources :
                IF row[x].active /\ row[x].usable
                THEN said[x] \in Said(x) \ {"none"}
                ELSE said[x] = "none"
          /\ coverage' = [coverage EXCEPT ![computed + 1] = said]
    /\ UNCHANGED <<hour, row, generator, opportunity>>

Fresh(x) == row[x].collectedAt >= hour - FreshFor

(* Of a resource in the coverage run: what is stale or unknown.             *)
Uncertain(k, x) == ~Fresh(x) \/ coverage[k][x] = "UNKNOWN"

Gone(x) == ~(row[x].active /\ row[x].usable)

(* What follows from run k and from the row as it is now, which may have    *)
(* changed since the run.                                                   *)
Concluded(k, x) ==
    IF coverage[k][x] = "none" \/ Uncertain(k, x) \/ Gone(x)
    THEN {}
    ELSE {rule \in Rules(x) :
            \/ rule = "UNCOVERED" /\ coverage[k][x] = "UNCOVERED"
            \/ rule = "PARTIAL_COVERAGE" /\ coverage[k][x] = "PARTIAL"
            \/ rule = "UNUSED_CAPACITY" /\ coverage[k][x] = "UNUSED"
            \/ rule = "EXPIRING" /\ row[x].ending}

(* What is not concluded is resolved if the run had the resource, or if its *)
(* row is fresh and says that it is gone or not to be covered.              *)
MayResolve(k, x) ==
    IF coverage[k][x] # "none"
    THEN ~Uncertain(k, x)
    ELSE row[x].known /\ Fresh(x) /\ Gone(x)

PresenceOf(k, o) ==
    IF o[2] \in Concluded(k, o[1]) THEN "active"
    ELSE IF MayResolve(k, o[1]) THEN "resolved_externally" ELSE "missing"

(* generate_rds_reservation_opportunities, up to its last read; the latest  *)
(* run, or the one the request names. Archived findings are not read.       *)
Read(g, k) ==
    /\ generator[g].run = 0 /\ k <= computed
    /\ generator' = [generator EXCEPT ![g] =
          [run |-> k, alone |-> TRUE,
           verdict |-> [o \in Opportunities |-> PresenceOf(k, o)],
           backlog |-> [o \in Opportunities |->
               IF opportunity[o].archived THEN "absent" ELSE opportunity[o].presence],
           stale |-> {x \in Resources : ~Fresh(x)}]]
    /\ UNCHANGED <<hour, row, computed, coverage, opportunity>>

(* Mutant: what is not concluded stays as it was. *)
MutantWritten(g, o) ==
    IF generator[g].verdict[o] = "active"
    THEN [opportunity[o] EXCEPT !.presence = "active"]
    ELSE opportunity[o]

(* The session writes a presence that differs from the one it had read.     *)
Written(g, o) ==
    LET old == opportunity[o]
        read == generator[g].backlog[o]
        new == generator[g].verdict[o]
    IN  IF new # "active" /\ read = "absent" THEN old
        ELSE IF new = read THEN old
        ELSE [old EXCEPT !.presence = new]

(* _upsert, _resolve, _mark_uncertain and the commit; or an error.          *)
Commit(g) ==
    /\ generator[g].run # 0
    /\ opportunity' = [o \in Opportunities |-> Written(g, o)]
    /\ generator' = [h \in Generators |->
          IF h = g THEN AtEase ELSE [generator[h] EXCEPT !.alone = FALSE]]
    /\ UNCHANGED <<hour, row, computed, coverage>>

GiveUp(g) ==
    /\ generator[g].run # 0
    /\ generator' = [generator EXCEPT ![g] = AtEase]
    /\ UNCHANGED <<hour, row, computed, coverage, opportunity>>

(* Operators hide a finding and show it again.                              *)
SetArchived(o, archived) ==
    /\ opportunity[o].presence # "absent"
    /\ opportunity[o].archived # archived
    /\ opportunity' = [opportunity EXCEPT ![o].archived = archived]
    /\ UNCHANGED <<hour, row, computed, coverage, generator>>

FindingsNext ==
    \/ HourPasses
    \/ \E x \in Resources : Collect(x)
    \/ Compute
    \/ \E g \in Generators : \/ \E k \in Coverages : Read(g, k)
                             \/ Commit(g) \/ GiveUp(g)
    \/ \E o \in Opportunities, archived \in BOOLEAN : SetArchived(o, archived)

FindingsSpec == FindingsInit /\ [][FindingsNext]_findingVars

-----------------------------------------------------------------------------
(* Properties. *)

Commits(g) == generator[g].run # 0 /\ generator'[g].run = 0 /\ opportunity' # opportunity

OneGapAtMost(g) ==
    generator[g].alone =>
        \A x \in Workloads : \E rule \in Rules(x) :
            \/ opportunity'[<<x, rule>>].presence # "active"
            \/ generator[g].backlog[<<x, rule>>] = "absent"
               /\ generator[g].verdict[<<x, rule>>] # "active"

StaleConcludesNothing(g) ==
    \A o \in Opportunities :
        o[1] \in generator[g].stale => opportunity'[o].presence \in {opportunity[o].presence, "missing"}

(* What a generation may conclude. After one that no other overlapped, an    *)
(* instance has one of the two gaps of coverage at most, whichever it had   *)
(* before, whatever was collected, archived or unarchived meanwhile (the    *)
(* resolution of what is not in observed). From inventory that is stale when*)
(* it is read nothing is concluded, whatever the coverage run and the       *)
(* backlog say: no finding of the resource becomes active or resolved (the  *)
(* comment that stale data is deliberately non-authoritative).              *)
GenerationsConclude ==
    [][\A g \in Generators : Commits(g) => OneGapAtMost(g) /\ StaleConcludesNothing(g)]_findingVars

=============================================================================
