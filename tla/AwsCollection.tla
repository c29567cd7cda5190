---------------------------- MODULE AwsCollection ----------------------------
(***************************************************************************)
(* One collection of an AWS account: what the executor asks the provider,  *)
(* call by call, while the account's resources, policies and regions change*)
(* (collection_executors.py, collectors.py, aws_inventory_discovery.py),   *)
(* and what it then declares about it: the findings, the inventory with its*)
(* coverage, and the scope executions from which the absence of a finding  *)
(* is concluded (opportunity_reconciliation.py). A behaviour follows one   *)
(* rule; the rules share no state, only the order in which they are run.   *)
(* Every page of a listing is taken at one moment.                         *)
(***************************************************************************)
EXTENDS Integers, Sequences, FiniteSets

CONSTANTS
    Assets,         \* resources of the account
    Regions,
    MaxCloud        \* bound on the changes of the account, for model checking

(* No region of AWS has the name of the scope of all of them.                *)
ASSUME AwsAssumption == "global" \notin Regions

VARIABLES
    fact,           \* fact[a]: what holds of the resource at the provider
    always,         \* always[a]: what has held since the collection began
    ever,           \* ever[a]: what has held at some time since then
    asset,          \* asset[a]: its region and kind
    clouded,        \* the number of changes so far
    policy,         \* the Policy rows of the rule, of all accounts and of this one
    configured,     \* the regions of the AwsAccount row
    scan,           \* the CollectionRun and its execution
    collecting,     \* the collector that runs
    result          \* what the execution returns, and the scope rows

cloudVars == <<fact, always, ever, asset, clouded>>
awsVars == <<cloudVars, policy, configured, scan, collecting, result>>

(* here: it exists. state: it is in the state, and of the age, the rule asks *)
(* for. tags: they do not exclude it, and are such as the rule asks for. use:*)
(* metrics, attached volumes or images say it is wasted. hours: the clock is *)
(* outside business hours, for all resources at once.                       *)
Facts == {"here", "state", "tags", "use", "hours"}

(* A collector is a sequence of sections, one per kind of resource. before:  *)
(* read of all before the listing. list: what the listing filters by. judged:*)
(* what it shows of those listed. each: the calls made for one listed        *)
(* resource after the other; byId: the provider refuses a resource that is   *)
(* gone; stops: no more calls for a resource once it is refused; optional:   *)
(* an error is swallowed.                                                   *)
Listing(kind, list, judged) ==
    [kind |-> kind, before |-> {}, list |-> list \cup {"here"}, judged |-> judged, each |-> <<>>]
Call(reads, byId, stops) == [reads |-> reads, byId |-> byId, stops |-> stops, optional |-> FALSE]

(* The tags of a resource, by its name. *)
ListTags == Call({"tags"}, TRUE, TRUE)

(* A metric of a resource; CloudWatch does not know whether it still exists. *)
Metric(reads) == Call(reads, FALSE, FALSE)

collect_ebs_unattached == <<Listing("volume", {"state"}, {"tags"})>>

collect_eip_unassociated == <<Listing("address", {}, {"state", "tags"})>>

(* The snapshots images hold are read before the snapshots are.             *)
collect_old_snapshots ==
    <<[Listing("snapshot", {}, {"state", "tags"}) EXCEPT !.before = {"use"}]>>

(* The volumes of all stopped instances are asked for by their ids.         *)
collect_stopped_ec2_with_ebs ==
    <<[Listing("instance", {"state"}, {"tags"}) EXCEPT !.each = <<Call({"use"}, TRUE, FALSE)>>]>>

collect_nonprod_ec2_outside_hours ==
    <<[Listing("instance", {"state"}, {"tags"}) EXCEPT !.before = {"hours"}]>>

(* The age of a balancer is looked at before anything is asked about it. No  *)
(* samples count as no traffic.                                             *)
collect_load_balancers_no_traffic ==
    <<[Listing("elbv2", {"state"}, {}) EXCEPT !.each = <<ListTags, Metric({"use"})>>],
      [Listing("classic", {"state"}, {}) EXCEPT !.each = <<ListTags, Metric({"use"})>>]>>

(* No samples are not taken for idleness; both metrics are always asked for.*)
collect_idle_nonprod_rds ==
    <<[Listing("rds", {}, {}) EXCEPT !.each = <<ListTags, Metric({"use"}), Metric({"state"})>>]>>

collect_missing_tags ==
    <<Listing("instance", {}, {"tags"}), Listing("volume", {}, {"tags"}),
      [Listing("rds", {}, {}) EXCEPT !.each = <<ListTags>>],
      [Listing("elbv2", {}, {}) EXCEPT !.each = <<ListTags>>]>>

(* The usage types behind the growth of a service in a region, if they can   *)
(* be had.                                                                  *)
CostContributors == [Metric({}) EXCEPT !.optional = TRUE]

(* One query of costs tells what has grown.                                 *)
collect_cost_growth_anomalies ==
    <<[Listing("service", {"state"}, {"use"}) EXCEPT !.each = <<CostContributors>>]>>

Collectors ==
    [ebs_unattached |-> collect_ebs_unattached,
     eip_unassociated |-> collect_eip_unassociated,
     snapshot_retention |-> collect_old_snapshots,
     ec2_stopped_with_ebs |-> collect_stopped_ec2_with_ebs,
     ec2_nonprod_outside_hours |-> collect_nonprod_ec2_outside_hours,
     load_balancer_no_traffic |-> collect_load_balancers_no_traffic,
     rds_nonprod_idle |-> collect_idle_nonprod_rds,
     missing_required_tags |-> collect_missing_tags,
     cost_growth_anomaly |-> collect_cost_growth_anomalies]
RuleKeys == DOMAIN Collectors
GlobalCollectors == {"cost_growth_anomaly"}

RuleKinds(rule) == {Collectors[rule][i].kind : i \in DOMAIN Collectors[rule]}

(* What the inventory lists in a region, by kind. Addresses are one answer.  *)
DiscoverInstances == [kind |-> "instance", paged |-> TRUE]
DiscoverVolumes == [kind |-> "volume", paged |-> TRUE]
DiscoverAddresses == [kind |-> "address", paged |-> FALSE]
DiscoverDatabases == [kind |-> "rds", paged |-> TRUE]
Adapters == {DiscoverInstances, DiscoverVolumes, DiscoverAddresses, DiscoverDatabases}

(* A row decides whether the rule is enabled, or leaves it to what is wider; *)
(* every rule is enabled if no row decides.                                 *)
PolicyScopes == {"global", "account"}
Override == {"none", "inherit", "on", "off"}
Decides(scope) == policy[scope] \in {"on", "off"}
Enabled == IF Decides("account") THEN policy["account"] = "on"
           ELSE Decides("global") => policy["global"] = "on"

(* What must hold of a resource of its kind for the rule to apply to it.     *)
Needs(rule, kind) ==
    UNION {LET s == Collectors[rule][i]
           IN  s.before \cup s.list \cup s.judged \cup UNION {s.each[k].reads : k \in DOMAIN s.each} :
           i \in {j \in DOMAIN Collectors[rule] : Collectors[rule][j].kind = kind}}

(* A collector of all regions is run once, for a region called global.       *)
Within(a, region) == region \in {"global", asset[a].region}

NoCollector == [region |-> "none", section |-> 0, step |-> "none", excluded |-> {}, listed |-> {},
                kept |-> {}, item |-> "none", call |-> 0, found |-> {}]

AwsTypeOK ==
    /\ fact \in [Assets -> SUBSET Facts]
    /\ always \in [Assets -> SUBSET Facts] /\ ever \in [Assets -> SUBSET Facts]
    /\ asset \in [Assets -> [region : Regions, kind : RuleKinds(scan.rule)]]
    /\ clouded \in 0..MaxCloud /\ policy \in [PolicyScopes -> Override]
    /\ configured \in SUBSET Regions
    /\ scan.step \in {"queued", "claimed", "credentials", "inventory", "collectors", "returned",
                      "completed", "failed"}
    /\ collecting.found \subseteq Assets /\ collecting.kept \subseteq collecting.listed
    /\ result.found \cup result.seen \subseteq Assets
    /\ result.failed \subseteq Regions \cup {"global"}

AwsInit ==
    /\ scan \in {[rule |-> r, step |-> "queued", scope |-> {}, regions |-> {}, active |-> FALSE,
                  scopes |-> {}, left |-> {}] : r \in RuleKeys}
    /\ asset \in [Assets -> [region : Regions, kind : RuleKinds(scan.rule)]]
    /\ \E a \in Assets, missing \in {{}} \cup {{f} : f \in Facts \ {"hours"}} :
          fact = [b \in Assets |-> IF b = a THEN Facts \ missing ELSE Facts]
    /\ always = fact /\ ever = fact /\ clouded = 0
    /\ policy \in [PolicyScopes -> Override] /\ configured = Regions
    /\ collecting = NoCollector
    /\ result = [found |-> {}, failed |-> {}, seen |-> {}, complete |-> {}, rows |-> {}]

-----------------------------------------------------------------------------
(* The account changes: a resource appears, goes, or is used otherwise, or   *)
(* the hour strikes. *)
CloudChanges ==
    /\ clouded < MaxCloud /\ scan.step \notin {"queued", "completed", "failed"}
    /\ \E a \in Assets, f \in Facts :
          /\ fact' = [b \in Assets |->
                        IF b = a \/ f = "hours"
                        THEN (fact[b] \ {f}) \cup ({f} \ fact[b]) ELSE fact[b]]
          /\ always' = [b \in Assets |-> always[b] \cap fact'[b]]
          /\ ever' = [b \in Assets |-> ever[b] \cup fact'[b]]
    /\ clouded' = clouded + 1
    /\ UNCHANGED <<asset, policy, configured, scan, collecting, result>>

(* An administrator sets the policy of the rule, of all accounts or of this  *)
(* one, or resets it.                                                        *)
PolicyPut ==
    /\ clouded < MaxCloud /\ clouded' = clouded + 1
    /\ \E scope \in PolicyScopes, override \in Override \ {"none"} :
          policy' = [policy EXCEPT ![scope] = override]
    /\ UNCHANGED <<fact, always, ever, asset, configured, scan, collecting, result>>

PolicyReset ==
    /\ clouded < MaxCloud /\ clouded' = clouded + 1
    /\ \E scope \in PolicyScopes :
          policy[scope] # "none" /\ policy' = [policy EXCEPT ![scope] = "none"]
    /\ UNCHANGED <<fact, always, ever, asset, configured, scan, collecting, result>>

(* The regions of the account are edited. *)
RegionsEdited ==
    /\ clouded < MaxCloud /\ clouded' = clouded + 1
    /\ configured' \in SUBSET Regions \ {{}, configured}
    /\ UNCHANGED <<fact, always, ever, asset, policy, scan, collecting, result>>

(* The worker claims the scan: the run's scope is the account's regions now. *)
Claim ==
    /\ scan.step = "queued"
    /\ scan' = [scan EXCEPT !.step = "claimed", !.scope = configured]
    /\ UNCHANGED <<cloudVars, policy, configured, collecting, result>>

(* The executor reads policies and regions once, and ends its transaction    *)
(* before it asks the provider anything.                                     *)
Configure ==
    /\ scan.step = "claimed"
    /\ scan' = [scan EXCEPT !.step = "credentials", !.regions = configured, !.active = Enabled]
    /\ always' = fact /\ ever' = fact
    /\ UNCHANGED <<fact, asset, clouded, policy, configured, collecting, result>>

(* Credentials, the identity they belong to, an error no collector expects,  *)
(* or one while the inventory is written: the scan fails and declares        *)
(* nothing.                                                                  *)
ScanFails ==
    /\ scan.step \in {"credentials", "inventory", "collectors", "returned"}
    /\ scan' = [scan EXCEPT !.step = "failed"] /\ collecting' = NoCollector
    /\ UNCHANGED <<cloudVars, policy, configured, result>>

(* Credentials are good and of the account. The kinds of the resources       *)
(* followed are the ones discovered.                                         *)
Authenticate ==
    /\ scan.step = "credentials"
    /\ scan' = [scan EXCEPT !.step = "inventory",
                            !.scopes = {<<g, asset[a].kind>> : g \in scan.regions, a \in Assets}
                                       \cap (Regions \X {d.kind : d \in Adapters})]
    /\ UNCHANGED <<cloudVars, policy, configured, collecting, result>>

-----------------------------------------------------------------------------
(* One kind in one region: all pages, or those before an error, which leave  *)
(* the coverage PARTIAL or FAILED.                                           *)
DiscoverKind(region, adapter) ==
    LET present == {a \in Assets : Within(a, region) /\ asset[a].kind = adapter.kind
                                    /\ "here" \in fact[a]}
    IN  \/ result' = [result EXCEPT !.seen = @ \cup present,
                                    !.complete = @ \cup {<<region, adapter.kind>>}]
        \/ \E pages \in IF adapter.paged THEN SUBSET present ELSE {{}} :
              result' = [result EXCEPT !.seen = @ \cup pages]

DiscoverScope ==
    /\ scan.step = "inventory"
    /\ \E region \in Regions, adapter \in Adapters :
          /\ <<region, adapter.kind>> \in scan.scopes
          /\ DiscoverKind(region, adapter)
          /\ scan' = [scan EXCEPT !.scopes = @ \ {<<region, adapter.kind>>}]
    /\ UNCHANGED <<cloudVars, policy, configured, collecting>>

(* run_collectors starts with the policies that were enabled at the start.   *)
StartCollectors ==
    /\ scan.step = "inventory" /\ scan.scopes = {}
    /\ scan' = [scan EXCEPT !.step = "collectors",
                            !.left = IF ~scan.active THEN {}
                                     ELSE IF scan.rule \in GlobalCollectors THEN {"global"}
                                     ELSE scan.regions]
    /\ UNCHANGED <<cloudVars, policy, configured, collecting, result>>

(* The collector of a region starts. *)
CollectRegion ==
    /\ scan.step = "collectors" /\ collecting = NoCollector
    /\ \E region \in scan.left :
          /\ scan' = [scan EXCEPT !.left = @ \ {region}]
          /\ collecting' = [NoCollector EXCEPT !.region = region, !.section = 1, !.step = "before"]
    /\ UNCHANGED <<cloudVars, policy, configured, result>>

Section == Collectors[scan.rule][collecting.section]
Refused(reads) == {a \in Assets : ~(reads \subseteq fact[a])}

(* What is read before the listing: outside the hours of the rule nothing is *)
(* listed at all.                                                            *)
ReadBefore ==
    /\ collecting.step = "before"
    /\ collecting' =
          IF "hours" \in Section.before /\ Refused({"hours"}) # {}
          THEN [collecting EXCEPT !.step = "return"]
          ELSE [collecting EXCEPT !.step = "list", !.excluded = Refused(Section.before)]
    /\ UNCHANGED <<cloudVars, policy, configured, scan, result>>

(* Every page of the listing of a kind. *)
List ==
    /\ collecting.step = "list"
    /\ LET listed == {a \in Assets \ Refused(Section.list) :
                        Within(a, collecting.region) /\ asset[a].kind = Section.kind}
           kept == listed \ (Refused(Section.judged) \cup collecting.excluded)
       IN  collecting' = [collecting EXCEPT !.step = "each", !.listed = listed, !.kept = kept]
    /\ UNCHANGED <<cloudVars, policy, configured, scan, result>>

(* The next call for one of the resources listed. *)
Ask ==
    /\ collecting.step = "each"
    /\ \E a \in collecting.listed :
          /\ collecting.call = 0 \/ collecting.item = a
          /\ collecting.call < Len(Section.each)
          /\ LET call == Section.each[collecting.call + 1]
                 kept == IF a \in Refused(call.reads) THEN collecting.kept \ {a} ELSE collecting.kept
                 done == \/ collecting.call + 1 = Len(Section.each)
                         \/ call.stops /\ a \notin kept
             IN  /\ call.byId => "here" \in fact[a]
                 /\ collecting' =
                       IF done
                       THEN [collecting EXCEPT !.call = 0, !.item = "none",
                                !.listed = @ \ {a}, !.kept = kept \ {a},
                                !.found = @ \cup (kept \cap {a})]
                       ELSE [collecting EXCEPT !.call = @ + 1, !.item = a, !.kept = kept]
    /\ UNCHANGED <<cloudVars, policy, configured, scan, result>>

(* No more to ask: the next kind of resource, or the collector returns.      *)
SectionEnds ==
    /\ collecting.step = "each" /\ (collecting.listed = {} \/ Section.each = <<>>)
    /\ LET all == collecting.found \cup collecting.kept
       IN  collecting' =
              IF collecting.section < Len(Collectors[scan.rule])
              THEN [NoCollector EXCEPT !.region = collecting.region, !.found = all,
                                       !.section = collecting.section + 1, !.step = "before"]
              ELSE [collecting EXCEPT !.step = "return", !.found = all, !.kept = {}]
    /\ UNCHANGED <<cloudVars, policy, configured, scan, result>>

(* A collector's findings count when it returns. *)
CollectorReturns ==
    /\ collecting.step = "return"
    /\ result' = [result EXCEPT !.found = @ \cup collecting.found]
    /\ collecting' = NoCollector
    /\ UNCHANGED <<cloudVars, policy, configured, scan>>

(* A call makes a provider call; the hour and the tags at hand do not.       *)
Calls ==
    \/ collecting.step = "before" /\ Section.before \notin {{}, {"hours"}}
    \/ collecting.step = "list"
    \/ collecting.step = "each" /\ collecting.listed # {}
       /\ collecting.call < Len(Section.each) /\ ~Section.each[collecting.call + 1].optional

(* The provider refuses a call: all the collector found in the region is     *)
(* dropped, and the rule is a failed one there.                              *)
CollectorFails ==
    /\ Calls
    /\ result' = [result EXCEPT !.failed = @ \cup {collecting.region}]
    /\ collecting' = NoCollector
    /\ UNCHANGED <<cloudVars, policy, configured, scan>>

Return ==
    /\ scan.step = "collectors" /\ scan.left = {} /\ collecting = NoCollector
    /\ scan' = [scan EXCEPT !.step = "returned"]
    /\ UNCHANGED <<cloudVars, policy, configured, collecting, result>>

-----------------------------------------------------------------------------
(* The scope executions of the rule: policies are read again, the regions are*)
(* those of the run's scope. A rule that failed in one region is taken to    *)
(* have been run in all.                                                     *)
ScopeRegions == IF scan.rule \in GlobalCollectors THEN {"global"} ELSE scan.scope

(* Mutant: a rule that was run has succeeded wherever it was run.            *)
MutantScopeStatus(region) == IF scan.active THEN "SUCCESS" ELSE "SKIPPED"

ScopeStatus(region) ==
    IF region \in result.failed THEN "FAILED"
    ELSE IF (scan.active /\ result.failed = {}) \/ result.failed # {} THEN "SUCCESS"
    ELSE "SKIPPED"

Complete ==
    /\ scan.step = "returned"
    /\ result' = [result EXCEPT !.rows =
                    IF Enabled THEN {[region |-> g, status |-> ScopeStatus(g)] : g \in ScopeRegions}
                    ELSE {}]
    /\ scan' = [scan EXCEPT !.step = "completed"]
    /\ UNCHANGED <<cloudVars, policy, configured, collecting>>

AwsNext ==
    \/ CloudChanges \/ PolicyPut \/ PolicyReset \/ RegionsEdited
    \/ Claim \/ Configure \/ ScanFails \/ Authenticate \/ DiscoverScope \/ StartCollectors
    \/ CollectRegion \/ ReadBefore \/ List \/ Ask \/ SectionEnds
    \/ CollectorReturns \/ CollectorFails \/ Return \/ Complete

AwsSpec == AwsInit /\ [][AwsNext]_awsVars

-----------------------------------------------------------------------------
(* The absence of a finding may be concluded from a scope that succeeded:    *)
(* whatever the rule applied to throughout the collection is found, in every *)
(* region the executor went to, and whatever existed throughout is in the    *)
(* inventory of a region whose coverage is complete.                         *)
NothingMissed ==
    /\ \A row \in result.rows :
          row.status = "SUCCESS" /\ row.region \in scan.regions \cup {"global"} =>
              {a \in Assets : Within(a, row.region) /\ Needs(scan.rule, asset[a].kind) \subseteq always[a]}
                  \subseteq result.found
    /\ \A a \in Assets : "here" \in always[a] /\ <<asset[a].region, asset[a].kind>> \in result.complete
                            => a \in result.seen

(* A finding is of a resource to which every part of the rule applied at some*)
(* time of the collection, if not all at once.                               *)
NothingInvented ==
    /\ \A a \in result.found : Needs(scan.rule, asset[a].kind) \subseteq ever[a]
    /\ \A a \in result.seen : "here" \in ever[a]

(* What a collection declares of an AWS account, present and absent, is so,  *)
(* while the account, its policies and its regions change under it           *)
(* (run_collectors and _aws_scope_rows).                                     *)
AwsEvidenceIsSound == NothingMissed /\ NothingInvented

=============================================================================
