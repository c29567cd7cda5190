----------------------------- MODULE CloudWatchUsage -----------------------------
(* The calls of CloudWatch that collections make: they are kept in the thread that *)
(* makes them, stored with the next commit of that thread and told to be of a run   *)
(* by their times; and what they cost, by the tariffs in effect                    *)
(* (cloudwatch_usage.py, cloudwatch_pricing.py, cloudwatch_cost_engine.py).        *)
EXTENDS Naturals, Sequences, FiniteSets, FiniteSetsExt, SequencesExt

CONSTANTS
    Threads,        \* workers, each a process with a buffer of its own
    CwAccounts,
    MaxCwRuns, MaxCalls, MaxHour    \* bounds, for model checking

ASSUME CloudWatchAssumption ==
    MaxCwRuns \in Nat /\ MaxCalls \in Nat /\ MaxHour \in Nat

VARIABLES
    cwRun,      \* the CollectionRun rows, and when they ended in truth
    thread,     \* thread[w]: the run it works on, and the calls it has not stored
    stored,     \* the CloudWatchUsageEvent rows, and who made them in truth
    cwHour,
    tariff,     \* the CloudWatchPricingRule rows that are enabled
    usage,      \* what calls there are to price
    charged     \* what CloudWatchCostEngine.calculate made of them

usageVars == <<cwRun, thread, stored, cwHour>>
costVars == <<tariff, usage, charged>>
cloudWatchVars == <<usageVars, costVars>>

Open == MaxHour + 1
CwRuns == DOMAIN cwRun
IdleThread == [run |-> 0, buffer |-> {}, calls |-> 0]

(* What the table of the rules checks; the usage of an event counts requests.     *)
RuleStands(x) ==
    /\ x.from \in Nat /\ x.until \in Nat /\ x.from < x.until
    /\ x.low \in Nat /\ x.high \in Nat /\ x.low < x.high
    /\ x.price \in Nat

CloudWatchInit ==
    /\ IsFiniteSet(tariff) /\ \A x \in tariff : RuleStands(x)
    /\ IsFiniteSet(usage) /\ \A e \in usage : e.at \in Nat /\ e.requests \in Nat
    /\ cwRun = <<>> /\ thread = [w \in Threads |-> IdleThread] /\ stored = {} /\ cwHour = 0
    /\ charged = [done |-> FALSE, refused |-> FALSE, versions |-> {}, unpriced |-> {}, cost |-> 0]

-----------------------------------------------------------------------------
(* The queue lets one scan of an account be active, but for two requests at once  *)
(* (scan_queue.py): runs of an account may overlap.                              *)
CwRunStarts(w) ==
    /\ thread[w].run = 0 /\ Len(cwRun) < MaxCwRuns
    /\ \E a \in CwAccounts :
          cwRun' = Append(cwRun, [account |-> a, started |-> cwHour, finished |-> Open,
                                  ended |-> Open])
    /\ thread' = [thread EXCEPT ![w] = [IdleThread EXCEPT !.run = Len(cwRun) + 1]]
    /\ UNCHANGED <<stored, cwHour, costVars>>

(* _record_event, of a call that succeeds or fails.                              *)
CwCall(w) ==
    LET r == thread[w].run
    IN /\ r # 0 /\ thread[w].calls < MaxCalls
       /\ thread' = [thread EXCEPT
             ![w].buffer = @ \cup {[n |-> thread[w].calls, at |-> cwHour,
                                    account |-> cwRun[r].account, made |-> r]},
             ![w].calls = @ + 1]
       /\ UNCHANGED <<cwRun, stored, cwHour, costVars>>

(* _resolve_collection_run_id: the run of the account that started last, of those *)
(* that last from the first of the times to the last; none is told as 0.          *)
RunsAround(a, times) ==
    {r \in CwRuns : /\ cwRun[r].account = a
                    /\ \A t \in times : cwRun[r].started <= t /\ t <= cwRun[r].finished}

(* Mutant: the run that started first.                                           *)
MutantResolvedRun(a, times) ==
    LET around == RunsAround(a, times)
    IN IF around = {} THEN {0}
       ELSE {r \in around : \A s \in around : cwRun[r].started <= cwRun[s].started}

ResolvedRun(a, times) ==
    LET around == RunsAround(a, times)
    IN IF around = {} THEN {0}
       ELSE {r \in around : \A s \in around : cwRun[s].started <= cwRun[r].started}

(* _flush_buffered_usage: the calls of an account are told to be of one run. The  *)
(* buffer is emptied first; the insert may fail in its savepoint, on its own.     *)
TimesOf(w, a) == {e.at : e \in {c \in thread[w].buffer : c.account = a}}

ToldRuns(w) ==
    {told \in [CwAccounts -> 0..MaxCwRuns] :
        \A a \in CwAccounts : IF TimesOf(w, a) = {} THEN told[a] = 0
                              ELSE told[a] \in ResolvedRun(a, TimesOf(w, a))}

RowOf(e, run) == [n |-> e.n, at |-> e.at, account |-> e.account, made |-> e.made, run |-> run]

Flushed(w) == {{RowOf(e, told[e.account]) : e \in thread[w].buffer} : told \in ToldRuns(w)}

FlushInto(w) == \/ \E rows \in Flushed(w) : stored' = stored \cup rows
                \/ thread[w].buffer # {} /\ stored' = stored

(* A commit in the course of the run.                                            *)
CwCommits(w) ==
    /\ thread[w].run # 0 /\ thread[w].buffer # {}
    /\ FlushInto(w)
    /\ thread' = [thread EXCEPT ![w].buffer = {}]
    /\ UNCHANGED <<cwRun, cwHour, costVars>>

(* A commit that fails after the hook: the rows are rolled back with it, and the  *)
(* buffer is empty.                                                              *)
CwCommitFails(w) ==
    /\ thread[w].run # 0 /\ thread[w].buffer # {}
    /\ thread' = [thread EXCEPT ![w].buffer = {}]
    /\ UNCHANGED <<cwRun, stored, cwHour, costVars>>

(* The commit that ends the run, as completed or failed: the hook runs before the *)
(* end of the run is written.                                                    *)
CwRunEnds(w) ==
    LET r == thread[w].run
    IN /\ r # 0
       /\ FlushInto(w)
       /\ cwRun' = [cwRun EXCEPT ![r].finished = cwHour, ![r].ended = cwHour]
       /\ thread' = [thread EXCEPT ![w] = IdleThread]
       /\ UNCHANGED <<cwHour, costVars>>

(* The worker dies: its run stays without an end.                                *)
CwDies(w) ==
    LET r == thread[w].run
    IN /\ r # 0
       /\ cwRun' = [cwRun EXCEPT ![r].ended = cwHour]
       /\ thread' = [thread EXCEPT ![w] = IdleThread]
       /\ UNCHANGED <<stored, cwHour, costVars>>

CwHourPasses ==
    /\ cwHour < MaxHour
    /\ cwHour' = cwHour + 1
    /\ UNCHANGED <<cwRun, thread, stored, costVars>>

-----------------------------------------------------------------------------
(* is_aws_commercial_region, region_scope_matches and _region_clause.            *)
Commercial(region) == region \notin {"cn", "unknown"}

ScopeMatches(scope, region) ==
    \/ scope = "GLOBAL" \/ scope = region
    \/ scope = "AWS_COMMERCIAL" /\ Commercial(region)

(* _regions_overlap.                                                             *)
RegionsOverlap(s, t) ==
    \/ "GLOBAL" \in {s, t} \/ s = t
    \/ s = "AWS_COMMERCIAL" /\ Commercial(t)
    \/ t = "AWS_COMMERCIAL" /\ Commercial(s)

(* _time_overlap and _tier_overlap.                                              *)
SpansOverlap(from1, until1, from2, until2) == from1 < until2 /\ from2 < until1

(* _validate_no_ambiguous_rules.                                                 *)
OverlapRefused(rules) ==
    \E x, y \in rules :
       /\ x # y
       /\ RegionsOverlap(x.scope, y.scope)
       /\ SpansOverlap(x.from, x.until, y.from, y.until)
       /\ SpansOverlap(x.low, x.high, y.low, y.high)

(* _version_key: the rules of a version differ in their tiers only.              *)
VersionKey(x) == <<x.scope, x.from, x.until, x.tiers>>
VersionsOf(rules) == {{y \in rules : VersionKey(y) = VersionKey(x)} : x \in rules}

(* The calls a rule applies to.                                                  *)
Covers(x, e) == ScopeMatches(x.scope, e.region) /\ x.from <= e.at /\ e.at < x.until

CoveredBy(version, events) == {e \in events : \A x \in version : Covers(x, e)}
QuantityOf(events) == MapThenSumSet(LAMBDA e : e.requests, events)

(* calculate_tiered_cost: the tiers in order, until all of the quantity is        *)
(* priced; a gap before a tier that is looked at, or a quantity beyond the last,   *)
(* is refused.                                                                   *)
LeastOf(n, m) == IF n < m THEN n ELSE m

TierStep(quantity, sum, x) ==
    LET part == IF quantity <= x.low THEN 0 ELSE LeastOf(quantity - x.low, x.high - x.low)
    IN IF sum.covered >= quantity /\ sum.begun THEN sum
       ELSE [begun |-> TRUE, upper |-> x.high, covered |-> sum.covered + part,
             cost |-> sum.cost + part * x.price,
             refused |-> sum.refused \/ x.low # sum.upper]

TiersOf(version) ==
    CHOOSE s \in SetToSeqs(version) : \A i, j \in DOMAIN s : i < j => s[i].low <= s[j].low

NothingPriced == [begun |-> FALSE, upper |-> 0, covered |-> 0, cost |-> 0, refused |-> FALSE]

TieredCost(quantity, version) ==
    LET sum == FoldLeft(LAMBDA s, x : TierStep(quantity, s, x), NothingPriced, TiersOf(version))
    IN [cost |-> sum.cost, refused |-> sum.refused \/ sum.covered < quantity]

CostOfVersion(v, events) == TieredCost(QuantityOf(CoveredBy(v, events)), v)

(* The versions that price something.                                            *)
Priced(rules, events) == {v \in VersionsOf(rules) : QuantityOf(CoveredBy(v, events)) > 0}

(* What is refused: the error of one version is the error of all.                *)
CostRefused(rules, events) ==
    \/ OverlapRefused(rules)
    \/ \E v \in VersionsOf(rules) : Cardinality(v) > 1 /\ \A x \in v : x.tiers # "NONE"
    \/ \E v \in Priced(rules, events) : CostOfVersion(v, events).refused

CostOf(rules, events) ==
    IF CostRefused(rules, events)
    THEN [done |-> TRUE, refused |-> TRUE, versions |-> {}, unpriced |-> {}, cost |-> 0]
    ELSE [done |-> TRUE, refused |-> FALSE, versions |-> Priced(rules, events),
          unpriced |-> {e \in events : ~\E x \in rules : Covers(x, e)},
          cost |-> MapThenSumSet(LAMBDA v : CostOfVersion(v, events).cost,
                                 Priced(rules, events))]

Calculate ==
    /\ ~charged.done
    /\ charged' = CostOf(tariff, usage)
    /\ UNCHANGED <<usageVars, tariff, usage>>

CloudWatchNext ==
    \/ \E w \in Threads : \/ CwRunStarts(w) \/ CwCall(w) \/ CwCommits(w) \/ CwCommitFails(w)
                          \/ CwRunEnds(w) \/ CwDies(w)
    \/ CwHourPasses \/ Calculate

CloudWatchSpec == CloudWatchInit /\ [][CloudWatchNext]_cloudWatchVars

-----------------------------------------------------------------------------
(* Two runs of an account of which neither had ended when the other began.        *)
RunsOverlap(r, s) ==
    /\ r # s /\ cwRun[r].account = cwRun[s].account
    /\ cwRun[r].started <= cwRun[s].ended /\ cwRun[s].started <= cwRun[r].ended

(* A call is told to be of the run that made it, also beside a run that a dead     *)
(* worker has left without an end, unless two runs of the account overlapped.     *)
UsageIsAttributed ==
    \A e \in stored : (\A r \in CwRuns : ~RunsOverlap(e.made, r)) => e.run = e.made

(* CloudWatchPricingResolver.resolve: the price of one request, by its position.  *)
PriceAt(version, position) ==
    (CHOOSE x \in version : x.low <= position /\ position < x.high).price

(* What the requests that a version covers cost, one after the other.             *)
OneByOne(version, events) ==
    MapThenSumSet(LAMBDA k : PriceAt(version, k), 0..(QuantityOf(CoveredBy(version, events)) - 1))

(* What is priced is priced once: a call is of one version, or unpriced, or of a   *)
(* version whose calls made no request; and a version costs what its requests      *)
(* cost one after the other.                                                     *)
UsageIsPricedOnce ==
    charged.done /\ ~charged.refused =>
       /\ \A e \in usage :
             LET pricing == {v \in charged.versions : e \in CoveredBy(v, usage)}
             IN IF e \in charged.unpriced THEN pricing = {}
                ELSE Cardinality(pricing) <= 1 /\ (e.requests > 0 => pricing # {})
       /\ charged.cost = MapThenSumSet(LAMBDA v : OneByOne(v, usage), charged.versions)

(* Threads, crashes and failed commits on one side, versions, regions and tiers    *)
(* grouped before they are priced on the other: a call counts once, for the run    *)
(* that made it, at the price of its time and region.                            *)
UsageIsCounted == UsageIsAttributed /\ UsageIsPricedOnce

=============================================================================
