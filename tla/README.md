# Formal model of finops-analytics

TLA+ specifications, TLC runs and TLAPS proofs of the FinOps backend
(`src/backend/app`) and of the scripts that run it: collections that look for
cost-saving opportunities in AWS and OCI accounts, the lifecycle of what they
find, and the pricing, billing, savings, reservations, users, certificates and
releases around it.

Sections: 1 the system, 2 the modules and their code, 3 the runs, 4 the proofs,
5 where the code and its documents differ, 6 what is left out and what comes next.

## 1. The system

Five kinds of processes share one PostgreSQL database and speak only through it:

- the **API** (`app/api/routes`), any number of requests at a time: an operator
  treats, rejects, reopens, archives and unarchives opportunities, queues scans,
  closes history cycles, edits accounts, users, prices and profiles, posts ledger
  entries and asks for costs;
- the **worker** (`worker_runtime.py`): a loop that enqueues due scans, claims
  one, collects it from the provider, persists it, and then ticks the schedulers
  of retention, of cycle automation and of RDS reservations;
- **commands** (`app/commands`), which run retention or clean-ups by hand;
- **host scripts** (`scripts/auto_deploy.py`) and the TLS manager
  (`services/tls_manager.py`), which act on files and containers;
- the **front end**, which keeps no state of its own that the others read.

The compose file runs one worker, but the code is written for several: scans are
claimed with `SKIP LOCKED`, schedulers take advisory locks, rows are locked
`FOR UPDATE`. The database runs at READ COMMITTED, so a transaction that locks
its rows before reading them is atomic at its commit, and anything it read before
that may be stale when it is used. The models are built on that reading: one
action per transaction, and one more for each stale read that is used later.
Sessions are configured not to expire their objects (`db/session.py:10`): a row
locked late is the object the session already holds, unless it asks for a refresh.

### Inventory

| Component | State | Operations | What is hard | What makes it correct |
|---|---|---|---|---|
| Opportunity presence, lifecycle, archiving, retention (`worker.py` `persist_findings`, `opportunity_reconciliation.py`, `opportunity_lifecycle.py`, `opportunity_archiving.py`, `opportunity_bulk_archiving.py`, `opportunity_retention.py`) | `findings`, `opportunity_observations`, presence, status and archive history | persist a run, reconcile absence, treat, reject, reopen, archive, unarchive, sweep | runs overlap and commit out of order, stale `observed_at`, stale filter ids, sweeps among decisions, crashes between batches | last seen is the latest observation; presence follows from distinct runs that proved it; a late run overrides nothing newer; the review flag is exact; nothing under review is retired; a sweep ends |
| Collection queue (`scan_queue.py`, `worker.py` `enqueue_due_scans`, `claim_scan`, `execute_scan`, `fail_scan`, `process_once`) | `scans`, `collection_runs`, `cloud_accounts.next_scan_at` | enqueue by hand or on schedule, claim, execute, fail | check-then-insert without a lock, crash of a worker in the middle of a scan, account disabled during I/O | a scan is executed once; scan and run agree; active scans are bounded; a due account is collected |
| Saving recognition and ledger (`opportunity_saving_recognition.py`, `finops_ledger.py`) | `finops_ledger` | recognise, replace and reverse savings, manual entries, balances | two treatments of one opportunity, reopen and treat again, concurrent reversals, clean-up of the evidence | a treatment is credited once and on new evidence; an entry is reversed at most once; balances are the sum of what stands |
| Observation retention (`retention.py`) | observations and their runs | delete what is old, sparing the two newest runs | deletes what the ledger, the cycles and the comparisons rest on | nothing is credited twice; a comparison shown was made on whole runs |
| History cycles and management policy (`opportunity_history.py`, `opportunity_policy.py`) | `opportunity_history_cycles`, snapshots, policy versions | get or create, close, snapshot, automatic closing, policy update | concurrent creation, closing during a run, policy changed between opening and closing | a closed cycle is complete and immutable; cycles of one policy do not overlap; the schedule leaves no gap |
| Worker schedulers (`worker_runtime.py`) | `opportunity_retention_runs`, advisory locks, back-off in memory | daily retention, cycle automation, RDS refresh | several instances, restart after a crash, a lost lock, midnight | one sweep of a day at a time; a success was a whole sweep; today is swept |
| RDS reservations (`rds_inventory.py`, `rds_reservation_coverage.py`, `rds_reservation_engine.py`, `rds_reservation_rules.py`, `rds_reservations_pipeline.py`, `rds_reservation_opportunities.py`) | inventory, coverage runs and their stages, findings of their own rules | refresh, allot reservations, generate findings | a stage fails after another has committed; a run abandoned by a dead process; stale inventory; two generators at once | records say what was done; reservations are not wasted; findings follow from fresh data |
| Resource inventory (`inventory_persistence.py`) | `inventory_resources`, observations | upsert per collection, conclude absence | rows read without a lock, collections that overlap or commit late | a resource is missing only on a complete later collection |
| Dashboard summaries (`dashboard_aggregation.py`, `dashboard.py`, `collection_comparison.py`) | `dashboard_account_summaries` | refresh with a decision, rebuild after a run, repair at a read | derived data written by three parties, evidence deleted under a comparison | what is shown is what the findings count |
| Sign-in, MFA, users (`authentication.py`, `mfa.py`, `users.py`) | users, sessions, links, factors, recovery codes | sign in, challenge, set up a factor, recover, disable, change role | a request authorised before it locks, one code in two windows, administrators who demote each other | an administrator remains; a session has proven the factor of its user; a link or a code works once |
| TLS manager (`tls_manager.py`) | certificate directories, Caddyfile, `state.json`, the proxy | apply, restore, restart | a stop between any two steps | the proxy can be started and serves what was reported |
| Auto deploy (`scripts/auto_deploy.py`) | journal, release directories, containers | check, prepare, activate, recover, roll back, retry | a stop between any two steps, a push meanwhile | there is always a whole release to go back to; mixed versions end |
| Pricing catalog (`pricing_admin.py`, `pricing_audit.py`, `pricing_catalog.py`, `oci_pricing.py`) | `pricing_catalog_items`, audit events, the snapshot of a process | create, reprice, describe, disable, value a volume | two administrators on one price, intervals that touch, a snapshot kept for ever | one version at an instant, no gap but a deactivation |
| Billing (`billing_profiles.py`, `aws_billing.py`) | `billing_profiles`, a cache in the process | create, edit, make default, deactivate, query | two defaults, an edit between a query and its answer, a cache shared by profiles and queries, one account of several that cannot be asked, views asked apart | one default; an answer is what was asked, of every account, and not older than a cache entry may be; views of one question agree |
| CloudWatch usage and cost (`cloudwatch_usage.py`, `cloudwatch_pricing.py`, `cloudwatch_cost_engine.py`) | a buffer per thread, `cloudwatch_usage_events`, tariffs | record a call, flush at a commit, attribute to a run, price | a commit that fails after the flush, a run that dies, overlapping runs, tiers | a stored call is of the run that made it, and is priced once |
| Cloud accounts and credentials (`services/cloud_accounts.py`, both routes of accounts, `worker.py`) | `cloud_accounts`, configuration, connection state | create, edit, test, replace credentials, delete; what a collection marks | a test of one configuration that ends after another replaced it | connected means the provider accepted it |
| AWS collectors (`collectors.py`, `collection_executors.py`, `aws_inventory_discovery.py`) and OCI discovery (`oci_scope.py`, `oci_discovery.py`, `oci_inventory.py`, `oci_correlation.py`, `oci_analyzers.py`) | policies, regions, what a collection has seen so far, scope executions | list, filter, ask metrics, declare findings, coverage and scopes | calls that fail one by one, resources that change while they are listed, policies and regions edited meanwhile | what is declared found, absent or covered was so |
| Savings estimates, cash flow; queries, evidence, audit, configuration | read or recomputed data | compute, read | none beyond arithmetic | not modelled |
| Front end, proxy, infrastructure, migrations, tests | none that the protocols read | none | not part of the protocols | not modelled |

How they interact. The queue runs the collectors, whose declarations feed
presence, inventory, the connection state of the account and the usage events;
presence feeds the summaries, the cycles (snapshots of a closed period), the
ledger (a treatment is credited from the latest observation) and retention; the
clean-up deletes observations under the ledger, the cycles and the comparisons;
the RDS pipeline writes findings through its own path; billing and pricing are
asked by requests, and the worker values volumes with the catalog.

## 2. Modules, and the code they stand for

| Module | Models | Instance for TLC | Theorems in |
|---|---|---|---|
| `OpportunityContract` | what operators are promised about one opportunity: status, backlog, review | refined in `MCOpportunityPresence` | `OpportunityPresence_proofs` |
| `OpportunityPresence` | the Finding row under collections, operators and retention sweeps | `MCOpportunityPresence`, `MCSchedules` (sweeps) | `OpportunityPresence_proofs` |
| `ScanContract`, `LedgerContract`, `CyclesContract`, `RefreshContract`, `DeployContract` | what users of scans, ledger, history, refreshes and deployments are promised, with the mechanism left out | refined in `CollectionQueue`, `SavingLedger`, `HistoryCycles`, `RdsPipeline`, `AutoDeploy` | with these |
| `CollectionQueue` | scans, their runs, the schedule of accounts, workers that die | `MCCollectionQueue`, `MCSchedules` | `Schedules_proofs` |
| `HistoryCycles` | periods of history: creation, closing, snapshots, changes of policy | `MCHistoryCycles` | `HistoryCycles_proofs` |
| `RetentionScheduler` | one sweep a day, whoever dies | `MCSchedules` | `Schedules_proofs` |
| `RdsPipeline` | the stages of a refresh of reservations, its lock and recovery | `MCSchedules` | `Schedules_proofs` |
| `AutoDeploy` | releases, their journal and the containers | `MCSchedules` | `Schedules_proofs` |
| `RdsCoverage` | the allotment of reservations to instances | `MCRecords` | `Records_proofs` |
| `RdsFindings` | findings generated from coverage and inventory | `MCRecords` | `Records_proofs` |
| `TlsApply` | certificates applied to the proxy | `MCRecords` | `Records_proofs` |
| `AuthSessions` | accounts, sessions, links, factors, codes | `MCRecords` | `Records_proofs` |
| `InventoryPresence` | the current row of a resource under overlapping collections | `MCRecords` | `Collections_proofs` |
| `AccountSummary` | the summary row of an account | `MCRecords` | `Collections_proofs` |
| `PriceCatalog` | versions of prices, and a worker that reads them | `MCRecords` | `Costs_proofs` |
| `Billing` | billing profiles, queries and their cache | `MCRecords` | `Costs_proofs` |
| `CloudWatchUsage` | calls of CloudWatch, to whom they belong, what they cost | `MCRecords` | `Costs_proofs` |
| `SavingLedger` | savings credited at treatment, the append-only ledger, clean-up | `MCEvidence` | `SavingLedger_proofs` |
| `AwsCollection` | one collection of an AWS account | `MCEvidence` | `Collections_proofs` |
| `CloudAccounts` | the row of an account and its connection | `MCEvidence` | `Collections_proofs` |
| `OciCollection` | one collection of an OCI tenancy | `MCEvidence` | `Collections_proofs` |

Definitions keep the names of the code where TLA+ allows it; `map` in
`PROJECT.json` gives the lines of each one. `MutantX` is a definition `X` (or the
operator its comment names) with a plausible error in it; each property is
violated when its mutant replaces the original, so each says something about the
code. Nothing else uses the mutants.

Three MC modules (`MCSchedules`, `MCRecords`, `MCEvidence`) put components that
share no row side by side as **courses**: a behaviour takes one course and the
variables of the others stay at an idle value. A run of theirs is thus the
disjoint union of the instances of its components, not their product. Components
that do interact are composed inside one module: collections, operators and
sweeps in `OpportunityPresence`; worker, scheduler and requests in
`CollectionQueue`; collections, requests and closing in `HistoryCycles`;
recognition and clean-up in `SavingLedger`; decisions, worker, dashboard and
clean-up in `AccountSummary`.

### 2.1 OpportunityPresence and OpportunityContract

State: the clock; `run[r]`, a `CollectionRun` with `started_at` and the
`observed_at` its worker read; `obs[f]`, the runs with an
`opportunity_observations` row for `f`; `finding[f]`, the columns of the row
that the protocol reads, and three facts of its history tables; `selected`, the
ids an archive-by-filter has read; `sweep[s]`, the policy a sweep is at and its
`run_at`.

| Action | Code |
|---|---|
| `ClaimRun`, `FinishCollection`, `FailRun` | `claim_scan`; the reading of `observed_at` at the head of `persist_findings`; `fail_scan` |
| `PersistRun` | `persist_findings`, then `reconcile_opportunity_presence`, one transaction: `Observe` for what was seen, `MarkAbsent` for what a successful scope covers and did not see |
| `Treat`, `Reject`, `Reopen` | `treat`, `reject`, `reopen`, `bulk_transition` (all rows of a request or none) |
| `SetLegacyStatus` | the legacy status routes, on the rows that are not yet what they ask for |
| `Archive`, `Unarchive` | `archive`, `bulk_archive`, `unarchive` |
| `SelectByFilter`, `ArchiveSelected` | `archive_by_filter`: the ids are read without a lock, the rows are locked later, the filter is not evaluated again |
| `StartSweep`, `SweepBatch`, `EndPolicy`, `AbortSweep` | `OpportunityRetentionService.run`: four policies in order, batches of locked rows, each committed |

`observed_at` is read before the rows are locked, so between `FinishCollection`
and `PersistRun` anything may commit. `SKIP LOCKED` makes a batch any part of what
is eligible, and may end a policy early. State `"committed"` of a run says that
its persistence committed: that a failing report may later rewrite the run to
`FAILED` is `FailScan` of `CollectionQueue`. Which scopes succeed is left open
here; `AwsCollection` and `OciCollection` say which do.

`OpportunityContract` is the abstract specification: a status only people
change, a rejected opportunity nothing but reopening brings back, and no policy
retiring an opportunity that asks for review. `ImplementsContract` is its `Spec`
under the mapping that takes those three columns of `finding`.

### 2.2 CollectionQueue

State: the `CloudAccount` rows, with `next_scan_at` as null, later or due; the
`Scan` rows, whose ids follow their creation; the `CollectionRun` of each; where
each worker is and what it has read; the accounts for which an API request
passed its check; the scans that were running when their worker died.

| Action | Code |
|---|---|
| `CheckRequest`, `InsertRequest` | `queue_manual_collection`, before and after its check |
| `LookForDue`, `Enqueue` | `enqueue_due_scans`, before and at its commit |
| `ClaimScan`, `RefuseScan`, `NothingToClaim` | `claim_scan`; the refusal of a disabled account or an unusable configuration |
| `Persist`, `Report`, `FailScan` | `execute_scan`, the reads of `process_once` after it, `fail_scan` |
| `Enable` … `ChangeInterval`, `Delete` | `services/cloud_accounts.py` |
| `Crash`, `Restart` | the death of the container and `restart: unless-stopped` |

A worker that dies leaves its scan running and its run `RUNNING`: nothing in
the code picks them up, and the model says so (`lost`). Because objects are not
expired, a claim may test the `enabled` flag as the scheduler read it:
`ClaimScan` allows both.

`ScanContract` is the life of one scan and its run (`implementation-roadmap.md:13`
and `659`): asked for, taken up once and in turn or refused, ended, deleted. The
queue implements it with `life` and `owner` read off the `Scan` rows.

### 2.3 SavingLedger

State: status, history of decisions and own estimate of each finding; the
observations; the committed runs; whether the account exists; the ledger. An
entry is known by its idempotency key: a treatment event, a manual request, or
the entry it reverses.

| Action | Code |
|---|---|
| `Persist` | `persist_findings`, as far as estimates go: observations and, when it is the latest, the finding's own columns |
| `Treat` | `treat` and `bulk_transition` with `recognize_many`: evidence, baseline, credit, all or nothing |
| `Reject`, `Reopen` | the other decisions, which only lengthen the history |
| `ManualEntry`, `Reverse` | `create_manual_entry`, `reverse_entry` |
| `Cleanup` | `cleanup_observations`: deletes part of what is old, sparing the two newest runs |
| `DeleteAccount` | `delete_cloud_account`, refused while the account has entries |

`Nothing` stands for an estimate that is absent, not positive, or without a
currency: the three end recognition in the same way. Several observations at one
latest time leave the choice open (the code orders them by random ids). One
account holds all findings. Currencies, providers and windows partition the
sums and are left out. `MaxEvents` bounds the history of a finding.

`LedgerContract` is a book (`implementation-roadmap.md:4097` and `4198`): written
once for each decision or request, never changed, each entry made good once at
most. `Book` maps it: an entry that is no reversal is a key and its worth, a
reversal only says that its key is undone.

### 2.4 HistoryCycles

State: the clock; the policy row, with its grid (calendar months or a fixed
number of days from an anchor); the cycles with their snapshots; the runs and
observations that history reads; the cycle each request is about to insert.

| Action | Code |
|---|---|
| `Claim`, `Persist`, `Fail` | the worker, as far as history sees it: `started_at` and `observed_at` are read before their commits |
| `Prepare`, `Insert` | `get_or_create_cycle_for`: checks that lock nothing, then an insert that a unique period may turn into a read |
| `UpdatePolicy` | `PUT` of the policy, which also makes the current cycle |
| `CloseByHand` | `POST /cycles/{id}/close`: close, snapshot, next cycle |
| `CloseAndArchive` | `close_period_and_archive`, its cycle half; its archive is `Archive` of OpportunityPresence |
| `AutoClose` | `auto_close_due_cycles`: all cycles due whose runs ended, in one transaction |

Closing locks the cycle's row and is atomic at its commit. The months of the
model are of one length and there is no time zone. The context of the policy a
cycle was closed under is kept by a listener of the session and is not part of
the state. `None` is a draft with version 0.

`CyclesContract` is `opportunity-history-cycles.md:58`: a period is opened once,
closed once, and its record stays. `History` maps the open cycles to their periods
and the closed ones to their periods with all that is kept of them.

### 2.5 RetentionScheduler

`worker_runtime.py`, `DailyOpportunityRetentionScheduler`, with the claim of a
day in `opportunity_retention.py`. State: the day, the version of the policy,
`checkpoint[d]` (the `OpportunityRetentionRun` row), `holder[d]` (whose
connection has the advisory lock of `d`), `daily[w]` (where instance `w` is in
its tick, its cached checkpoint and its back-off), `applied[d]`.

| Action | Code |
|---|---|
| `DailyWork` | one step of a tick: `ClaimPeriod`, `PreparePeriod`, `StartSweep`, `MarkSuccess`, `MarkFailed`, `RecheckDue`, or the end of a tick that finds nothing to do |
| `ClaimError`, `PeriodError` | an exception while claiming, or under the lock: the row is marked without the lock |
| `RetentionCrash`, `RetentionRestart` | the lock goes with its connection, the cache and the back-off with the process |
| `BackoffOver`, `Midnight`, `SavePolicy` | what may happen meanwhile |

`MaxFaults` bounds crashes and errors together.

### 2.6 RdsPipeline, RdsCoverage, RdsFindings

`RdsPipeline` is `rds_reservations_pipeline.py`. State: `coverageRun[k]`, the row
of a run with the status of each stage and its age; `pipelineLock`, the holder of
the advisory lock; `at[p]`, the stage a process is in, and of which run.
`TakeLock` (the scheduler's and the caller's way in), `StartCoverage` (a route
that runs coverage alone, without the lock), `Advance` (the next stage of a
process: `Begin` with recovery of abandoned runs, inventory, coverage and
findings, each ending or failing in its own transaction), `Die`, and `GetOld`
and `GetStale`, by which a row passes the two hours after which it counts as
abandoned or a new refresh is due.

`RefreshContract` says what readers of the runs may rely on, without processes,
lock and age: one refresh at a time, published whole, and for good. `Phase` reads
how far a run is off its row, and `Refreshes` takes the run of the holder of the
lock for the one at work; the runs of the coverage route are set aside.

`RdsCoverage` is `analyze` of `rds_reservation_engine.py` under the rules of
`rds_reservation_rules.py`: two passes (the same class first, then size
flexibility) over instances by reservations, in the order they are sorted in.
`Consider` gives what the pair allows, `NextInstance` and `NextPass` move on; every
assignment of classes, engines, licences and counts is an initial state. Units are
the normalisation factors. A licence model that neither the row nor its engine
tells agrees with any other (`SameLicence`): `Agree` is then not transitive, and
`SizeFlexible` depends on the licence of the instance.

`RdsFindings` is `rds_reservation_opportunities.py`. State: the hour, the
inventory rows, the coverage runs, what each generator has read and makes of it,
the findings. `HourPasses`, `Collect` (an inventory stage), `Compute` (a coverage
run over it), `Read` and `Commit` (a generator; `GiveUp` if it fails),
`SetArchived` (an operator). What a generator has read may be old when it commits.

### 2.7 AutoDeploy and TlsApply

`AutoDeploy` is `scripts/auto_deploy.py`: `journal` (`state.json`), `release[v]`
(the directory), `running` (the version of the containers, or `"mixed"`), the
branch, and `job`, what the holder of the file lock is doing. `Push`, `Resume`
(`check`: recovery of a pending journal, then what to deploy), `Prepare` and
`PrepareFails`, `Deploying` (one step of activation, rollback or recovery, each
write of the journal a step), `StartRollback`, `Retry`, and `Stop`, which ends
the process anywhere. `DeployContract` is what `docs/auto-deploy.md` promises, with
releases, lock and interruptions left out; the journal and the containers
implement it (`Deployment`).

`TlsApply` is `apply` of `tls_manager.py`: `apply[q]`, how far a call is; the
file lock; what the proxy runs; the Caddyfile; the apply `state.json` describes;
the certificate directories. `LockTls`, `Store`, `LoadCandidate`, `Probe`,
`ProbeFails`, `WriteConfig`, `WriteState`, `RestorePersisted`, `PersistFails`,
`Cleanup` are its steps in order with their failures; `CrashApply` cuts a call
off, `RestartProxy` makes the proxy read its file. `disturbed` remembers that the
proxy was restarted under an apply.

### 2.8 AuthSessions

`authentication.py`, `mfa.py`, `users.py` and their routes. State: `user`
and `factor` (the `User` and `MfaCredential` rows), `challenge`, `session`,
`link`, `request[r]` (what the authorisation of a request has read), the clock of
codes. A request is authorised (`Authorise`), then locks the `AuthState` row,
looks again and acts or refuses (`Refuse`): `TypePassword` and `Login`,
`VerifyLogin`, `Prove`, `ChangePassword`, `Setup` and `Confirm` of a factor,
`AdminReset`, `HostReset`, `UpdateUser`, `AddUser`, `IssueAccess`,
`RequestReset`, `CompleteAccess`, `EndSession`, `EndAllSessions`. `Tick` moves the
window of codes, `RunOut` ends a session, link or challenge. Not tracked: that
the password was typed within five minutes, the rehash of old hashes, the number
of attempts at a challenge; `mfa_required` is off.

### 2.9 InventoryPresence and AccountSummary

`InventoryPresence` is `inventory_persistence.py` from the start of a collection
to its commit: `StartCollection`, `Discover` (what is there, per scope complete
or not), `ReadRows` (the current rows, without a lock), `CommitCollection`
(`Rewritten` for what was seen, `Merged` for what was not, refused by `Clash` on a
key inserted meanwhile), `FailCollection`. `disorder` remembers the two ways in
which collections overlap.

`AccountSummary` is the row that `dashboard_aggregation.py` keeps: `Persist` and
`Fail` of runs, `Decide` (an operator: findings and row in one transaction, or
the row found locked), `Lock`, `Refresh`, `RollBack` (the rebuild of the worker,
the dashboard or the command), `SelectBatch` and `DeleteBatch` (the clean-up).
`Baseline` and `Changes` are the comparison of two runs; `Shown` is what the
dashboard answers, from the row or by counting itself. The totals and the stream
of a comparison are two statements. Counting directly, an account without a
baseline run is told apart by the run; from the row, by `has_baseline`.

### 2.10 CloudAccounts

`cloud_accounts.py`, the two routes of accounts, and what `worker.py` writes.
State: the row, the requests and collections with the copy of the row each one's
session holds, and what the provider has accepted. `Create`, `Load`, `Update`, `Delete`, `Validate` and
`RecordTest` (the call, and what is written after it), `TestWithoutKey`,
`Replace` (OCI credentials, tested before they are stored), `CollectionEnds`
(marks connected, without asking for the revision it began with:
`worker.py:530`). `Flush` writes the columns a session has changed, and no other.

### 2.11 AwsCollection and OciCollection

One collection of one account, call by call, while the account changes. State:
what holds of each resource, what has held throughout (`always`) and at some time
(`ever`) since the collection began; the policies or regions; the execution; what
it declares (findings, inventory, scope executions).

`AwsCollection`: `CloudChanges`, `PolicyPut`, `PolicyReset`, `RegionsEdited` are
the environment; `Claim`, `Configure`, `ScanFails`, `Authenticate`,
`DiscoverScope` (one kind of inventory in one region), `StartCollectors`,
`CollectRegion`, then per collector `ReadBefore`, `List`, `Ask` (tags, metrics),
`SectionEnds`, and its end `CollectorReturns` or `CollectorFails`; `Return`,
`Complete` (the scope rows). A behaviour follows one rule (each collector is an
entry of `Collectors`: what it lists, filters on and asks).

`OciCollection`: `OciChanges`; `ResolveScope`, `ExpandCompartment`,
`ScopeResolved` (roots and what is below them); `DiscoverSearch`;
`AvailabilityDomains`, `ListKind`, `VolumeAttachments`, `BootAttachments` (the
services, region by region and compartment by compartment, `oci.turn` being whose
turn it is); `CollectAdvisor`, `CollectUsage`, `CollectMonitoring`; `Analyze`,
`PersistInventory`, `OciComplete`. Every call may fail, or answer in part.
`Children[c]` is what listing `c` tells of: of the root, all that is below it.
Modelled with one configured root; the code takes several.

### 2.12 PriceCatalog, Billing, CloudWatchUsage

`PriceCatalog`: the versions with their intervals, the audit events, the requests
of administrators, the snapshot a worker keeps. `AskCreate`, `AskEdit`,
`LockIdentity` (the advisory lock of service, sku and unit), `DecideEdit`,
`RefuseEdit`, `CommitEdit` (`Creates`, `Reprices`, `Describes`, `Deactivates`),
`ValueVolume` (the worker, from its snapshot), `RestartWorker`, `DayPasses`.

`Billing`: the profiles and requests about them, what Cost Explorer tells of each
account at each minute (`bill`), the cache of the process, the queries in progress
(one of each of `Askers`), the last answer of each kind. `EnsureLooks`,
`EnsureInserts` (the system's profile), `CreateLocks`, `CreatePlain`,
`CreateCommits`, `SetDefaultLocks`, `SetDefaultCommits`, `DeactivateLooks`,
`DeactivateWrites` (they look without a lock), `UpdateProfile`, `ChangeFails`;
`QueryBegins`, `UseCached`, `Fetch` and `KeepFetched` (the cache is written when the
call has come back, so two queries may both call), `FetchFails` (one account that
cannot be asked ends the whole query), `QueryAnswers`; `MinutePasses`. Summary,
series and breakdown are queries of their own, with a grouping, a key of the cache
and calls of their own; `Result` is what each makes of its rows.
Making a default writes two rows in the order of their ids, and the unique index
is checked at each: `Marked` refuses a profile whose id sorts before that of the
default (`billing_profiles.py:290`).

`CloudWatchUsage`: `CwRunStarts`, `CwCall` (recorded in the buffer of the
thread), `CwCommits` (the flush goes with the commit, the run is told by the
times), `CwCommitFails` (what the buffer held is lost), `CwRunEnds`, `CwDies`,
`CwHourPasses`; `Calculate` is the cost engine. The rules and the usage it starts
from are any that the table's constraints allow (`RuleStands`); `CostRefused` says
which it refuses, `CostOfVersion` what the tiers of a version make of its calls.

## 3. What the runs check

States are distinct states found; every passing run explores its instance to the
end. `CHECK_DEADLOCK FALSE` is said where named bounds (`MaxTime`, `MaxEvents`,
`MaxRuns`, `MaxVersion`, …) end every behaviour, and in the runs of courses, whose
components end where their bounds or their last step end them.

| Run | Instance | States | What it shows |
|---|---|---|---|
| `presence` | one finding, three runs, threshold 2, one sweep of all policies, clock to 4 | 1 821 947 | `LastSeenIsLatest`, `PresenceIsProven`, `LaterRunWins`: runs that overlap, commit in any order, fail or die leave last seen and presence at what the observations and absences prove. `ReviewIsExact`: the review flag equals "treated, and seen since". `SweepSparesReappeared`: no policy retires a treated opportunity seen since. `ImplementsContract`: refinement of `OpportunityContract` |
| `cycles` | one finding, two runs, one request, two grids, one change of policy, clock to 2 | 1 681 211 | `ClosedComplete`, `SteadyDisjoint`, `ScheduleContinues`; and `SteadyCloses` |
| `schedules` | courses: retention, refresh of reservations, deployer, sweep, queue | 149 362 | `DaySweptByOne`, `SuccessWasApplied`, `RecordsAreTrue`, `Recoverable`, `RunFollowsScan`, `BoundedDuplicates`; and `TodayIsSwept`, `NextRunComes`, `MixtureEnds`, `ScansEnd`, `DueIsServed`, `SweepEnds` |
| `records` | courses: seventeen instances of ten components | 1 349 964 | the twelve properties below |
| `evidence` | courses: ledger, AWS, accounts, OCI | 1 933 736 | `AwsEvidenceIsSound`, `OciEvidenceIsSound`, `ConnectedWasProved`, `CreditsNewEvidence`, `BalanceIsStanding`, `TreatedIsCredited` |
| `presence_seen_later`, `queue_race`, `cycles_policy`, `abandoned_stage`, `inventory_delay`, `stale_prices`, `stale_connection` | the smallest instances that show them | violated | see 5 |

What the properties of `records` and `evidence` say:

- `WellSpent`, `CoversTheMost` (reservations): flexibility spends nothing of a
  reservation while an instance of its own kind is short, and nothing that fits is
  left beside a gap. While every licence is known, what is covered in all is the
  most that can be: no bound `Limit(S)` (what fits the instances of `S`, and what
  the others need) is exceeded, and one is reached. With a licence that is not known
  the order of the loops does decide how much is covered, and at least half of the
  most is: one reservation without a licence and one that is BYOL, an instance BYOL and
  one of another licence, and the first instance takes what only the second lacks.
- `GenerationsConclude` (RDS findings): after a generation that no other
  overlapped an instance has one of the two gaps of coverage at most, and stale
  inventory makes nothing active or resolved.
- `InventoryIsProven`: a resource is missing only on a collection that covered its
  scope whole and did not see it. Unless two collections persist side by side, the
  last sighting is the latest and no older collection hides it; if they commit in
  order too, presence is what the newest conclusive collection says.
- `DashboardIsTrue`: what the dashboard answers are the counts of the findings, and
  its comparison is the one with the latest comparable run. It excepts a comparison
  since which an older run was committed late, and one whose baseline lost its
  observations to a batch selected before; TLC finds it violated without either.
- `ServedAsReported` (TLS): the file names certificates that are there, so the
  proxy can start; and unless it was restarted under an apply, it serves what the
  last apply reported as applied or restored, and would after a restart.
- `AdminRemains`, `SessionProvesFactor`, `OneTimeMeansOnce` (sign-in): an
  administrator who can sign in remains; a session let through has proven the
  secret its user has now; an account has one live link of a kind and a code is
  accepted once.
- `PriceAlwaysResolves`: never two versions at an instant, and no instant without
  one but by a deactivation.
- `BillingFollowsProfiles`: one default once the system's profile is stored; an
  answer is of every account it was asked about, of each once, as Cost Explorer told
  it to just this question, and no older than a cache entry may be; and answers of
  different kinds to one question, which rest on different calls, tell one sum
  unless the costs changed between those calls. What a summary tells as actual has no
  estimate in the others, and the groups of a point add up to it.
- `UsageIsCounted`: a stored call is told to be of the run that made it unless two
  runs of the account overlapped (which the race of the queue makes possible),
  and each call that a tariff covers is priced once, in its tier.
- `AwsEvidenceIsSound`, `OciEvidenceIsSound`: what is declared found held at some
  time of the collection; what is then concluded absent was so throughout;
  coverage is declared of what was read whole. Of OCI the property excepts resources
  whose attachment lies in another compartment (`Straddles`), which the
  code does not see.
- `ConnectedWasProved`: an account comes to be connected on what its provider did
  not accept only by the answer of a request or a collection whose row has changed since it
  was read.
- `CreditsNewEvidence`, `BalanceIsStanding`, `TreatedIsCredited`: a credit after a
  treatment rests on an observation made since, that no other credit rests on;
  balances are the sum of what is not reversed; a treatment whose evidence is due
  is credited.

Each module has one type predicate. Those of the modules with proofs are
theorems or parts of the invariants of section 4, which TLC evaluated on these
instances while they were found.

Why the bounds are enough for the cases that matter:

- *Presence.* A hazard of one row needs at most three runs: one whose conclusion
  stands, one that is late, and one to be overtaken by it. Threshold 2 is the
  smallest in which `missing` and `resolved_externally` differ. Policies keep rows
  for one tick, so that rows expire within the clock. Rows of an account do not
  read each other, so one finding is enough but where batches matter
  (`MCSchedules`, two findings, `BatchSize` 1). The run is three courses: three
  overlapping runs with treatments and a sweep, from day 3 on (before, a sweep finds
  next to nothing old enough); two overlapping runs with all an
  operator can do and a sweep; three runs one after the other with all an operator
  can do. All actors at once on three overlapping runs are out of reach.
- *Queue.* Two workers and one request are the smallest set in which all three
  pairs that may race exist; one death is enough to lose a scan; `Room` keeps
  enough unused ids for every insert that may still come, so the bound never
  disables a worker.
- *Retention.* Two instances, two days, two versions of the policy and two faults: a
  lock lost by one while the other claims, across midnight, under a policy
  saved meanwhile.
- *Pipeline.* A scheduler, a caller and a route are the three ways in; two runs,
  because a run is recovered by the next; one death.
- *Deployer.* Three commits (what runs, what it goes to, what is pushed
  meanwhile), three pushes, three troubles.
- *Coverage.* Three instances, the last two of one class, and two reservations,
  in every assignment: of topologies under one licence in each of four pools (one
  whose engine has a licence, one whose engine tells none, one whose flexibility
  depends on the licence, one Aurora), the third instance plain; and of two licences
  and an unknown one on plain topologies, in the two pools that may have one. Two
  of each are enough for an unknown licence to cost units.
- *RDS findings.* One instance and one reservation; two generators, of which one
  may overtake the other; data older than `FreshFor` = 0 is stale.
- *Inventory.* One resource, three collections: one to see it, one to miss it, one
  late. *TLS*: three applies, two stops. *Summary*: two findings, three runs, two
  writers.
- *Sign-in.* Two users, so that two administrators may demote each other; two
  requests in flight; two versions and two secrets, so that one is replaced; codes
  of three steps, the width of the window.
- *Prices.* Two editors on one price, and one on two prices, four versions, four
  changes. *Billing*: three profiles (the system's, one below and one above
  another), two handlers; two accounts; a query while profiles change, over two
  minutes, and two queries at once with one profile, over one, where the costs of one
  account change once, to an estimate or not, and a refund may cancel another cost.
  *CloudWatch*: two workers, two runs, two calls, three hours.
- *AWS and OCI.* Two resources, two regions, two compartments, one change of the
  cloud; the OCI course takes one failed call or one change, which any later step
  may follow.
- *Accounts.* Three requests: one that reads, one that changes, one that reads what
  was changed. *Ledger*: two findings, three runs (the clean-up spares two), four
  decisions (treat, reopen, treat, and one more), one manual request; its
  evidence and its entries are two courses.
- *Cycles.* Grids of two and of three ticks with different anchors are the
  smallest two whose cells cross. `MaxAhead` 0 leaves out closing by hand a cycle
  that has not begun, which adds later cycles and no new order of steps.

### Fairness

- `SweepEnds`: weak fairness of each sweep's own next batch or end of policy. A
  sweep is a loop of one process; nothing is asked of operators or of rows
  being unlocked, for `SKIP LOCKED` never waits.
- `ScansEnd`, `DueIsServed`: weak fairness of each worker's own `Work`, and of
  nobody else. The worker loops for ever (`worker_runtime.main`), provider
  calls have time-outs or end in an error, either of which is a step, and the
  container is restarted (`compose.yaml`, `restart: unless-stopped`). `ScansEnd`
  excepts scans whose worker died, because the code does.
- `TodayIsSwept`: weak fairness of each instance's `DailyWork`, which the worker
  ticks in its loop, and of `BackoffOver`, the passing of the back-off. Crashes and
  errors are bounded by `MaxFaults`, midnights by `Days`: the property is of a
  day that lasts.
- `NextRunComes`: weak fairness of the next stage of a process, of the scheduler's
  `TakeLock`, and of time: a run comes to be old and a refresh to be due.
- `MixtureEnds`: weak fairness of `Resume` (the timer of the deployer) and of its own
  next step.
- `SteadyCloses`: weak fairness of `AutoClose`. The worker comes back to it every
  15 minutes (`CYCLE_CLOSE_CADENCE`), whatever its last attempt did.

The safety properties ask for no fairness.

## 4. What is proved

Theorems hold for every value of the constants that satisfies the named
assumptions, which type the constants, ask finiteness of a few sets, and say
that names such as `"none"` or `NoRun` are not among the things named:
what the configuration and the schema guarantee. TLC evaluates them in the runs.
Two say more. `RunAssumption` … `TimeAssumption` of presence bound the
configured retention and threshold from below by one, as the code's validation
does. `OciAssumption` says that what is below a compartment below the root is
itself below the root, which is what the provider's listing of a subtree means.

Each module of proofs states an inductive invariant by named parts, shows that
it holds at first and that each action keeps each part, and derives the
properties from it.

| Module | Theorem | States | Argument |
|---|---|---|---|
| `OpportunityPresence_proofs` | `TypeCorrect`, `ReviewExact`, `SweepSpares` | `ReviewIsExact`, `SweepSparesReappeared` | `ReviewInv` is the types, `Clocks` and `ReviewIsExact`. `Clocks` (no time of the future) is what makes a treatment lower the flag rightly: the last observation cannot be later than now. A policy needs the flag down |
| | `LastSeenCorrect`, `SeenNotAbsent`, `PresenceProven`, `LaterWins` | `LastSeenIsLatest`, `PresenceIsProven`, `LaterRunWins` | `HistoryInv` says of each row, from its observations and absences: `Provenance` (they are of committed runs, whose times are final; the reconciled run dates the reconciliation), `Latest`, `Proven` and `Strengthening` (a streak is finite and part of the absences; `missing_since` lies before the last reconciliation). Without `Provenance` a run that commits later could change the times a row was compared with |
| | `ContractImplemented` | `ImplementsContract` | `ContractInv` is both and `Bare` (a finding without a row is neither archived nor selected). Each row of each step does what the contract allows (`Promised`): discovery, decision, reopening, hiding, retirement, return, or nothing. That a rejected row is silent needs the exact flag; that a sweep retires only rows that exist needs `HistoryInv`, for the policy of resolved rows does not look at the status |
| `SavingLedger_proofs` | `TypeCorrect`, `EntriesUnique`, `EvidenceIsNew`, `NoneUncredited` | `CreditsNewEvidence`, `TreatedIsCredited` | `KeyInv` adds `Recorded` (a credit's key names a recorded treatment, so a new treatment has a new key) and `Sources`. `LedgerInv` adds `Dated` (decisions are dated in order), `Observed` (a run has one time), `Backed` (a credit was observed before its treatment, and its observation, if kept, has its time) and `AllNew`. From these, "later than the baseline" excludes the evidence of every earlier credit, whatever was cleaned up |
| | `BalanceStands` | `BalanceIsStanding` | `KeyInv`, and that the ledger is finite. It is the union of the entries that stand, of those reversed and of the reversals; `ReversalOf` maps the second onto the third one to one and turns the sign, so their sums cancel (`PairsCancel`) |
| | `BookImplemented` | `ImplementsBook` | `KeyInv`: every key of a treatment names an event of the history. A decision lengthens the history of each finding of a set and writes only under the keys of these new events, which nothing can have yet; `UndoneKeys` and `Sources` give that a reversal is of an entry in the book and the first of it |
| `HistoryCycles_proofs` | `TypeCorrect`, `NoGapAfterSchedule`, `ClosedCyclesComplete`, `SteadyCyclesDisjoint` | `ScheduleContinues`, `ClosedComplete`, `SteadyDisjoint` | Every step that changes cycles closes some, keeps the others' periods and adds open ones (`Reshape`). `HoldInv` adds `Ended` (observations are committed with the end of their run) and `Quiet` (a run that is `RUNNING` in a period closed when over was claimed after the closing: what it observes is later than the period). `SteadyInv` says that under the first policy cycles and drafts are cells of one grid and a cell has one cycle; lemmas on the grid show that two cells are equal or apart |
| | `HistoryImplemented` | `ImplementsHistory` | `OnePeriod` (a period has one cycle) is inductive because the unique index makes a second insert a read; a step only opens periods that no cycle has (`Fresh`), and what it closes becomes exactly the new records |
| `Schedules_proofs` | `RetentionTypeCorrect`, `OneSweepADay`, `SuccessApplied` | `DaySweptByOne`, `SuccessWasApplied` | `RetentionInv`: types, `HolderSweeps` (who is between claim and release of a day has its lock), and the property itself |
| | `PipelineTypeCorrect`, `PipelineRecordsTrue` | `RecordsAreTrue` | `PipelineInv`: `Numbered` (runs are made in order), `Alone` (a run is worked on by one process), `LockHeld`, `InPlace` (the stage a process is in, as its run tells it), `RowsSay`. Recovery marks only runs that are old, and the lock keeps refreshes apart; a route without the lock makes a run of its own |
| | `RefreshesImplemented` | `ImplementsRefreshes` | `PipelineInv`, whose `Relies` says what the row of a process at work holds in its stage. Who is at work has the lock (`HolderIsAtWork`), so what it puts is a step of the run at work (`PutGoes`); what a route puts does not show (`RoutesAside`); and a row that recovery touches was never published (`RecoveredShows`) |
| | `DeployTypeCorrect`, `DeployRecoverable` | `Recoverable` | `DeployInv`: `JobFits`, what the journal says at each step of the holder of the lock, and the property |
| | `DeploymentImplemented` | `ImplementsDeployment` | `DeployInv` and `Careful`: what is being prepared is not blocked, what is being undone is, and neither the attempt nor the version before is the accepted one. Each step then maps to one step of the contract or to none (`DeploymentStep`); the machine may stop between any two writes, so none may rely on the next |
| | `QueueTypeCorrect`, `ScansHeldOnce`, `RunsFollowScans`, `DuplicatesBounded` | `RunFollowsScan`, `BoundedDuplicates` | `QueueInv` adds to the types: `HeldState` (what a worker's step says of its scan and run), `HeldApart`, `LostRuns`, `RunAgrees`, `RunHeld`. For the bound each step is shown to be `Traded`: an active scan appears only in exchange for one who was between check and insert, and one enters that place only while the account has no active scan, so the bound is the number of actors |
| | `ScanLifeImplemented` | `ImplementsScanLife` | `QueueInv` and `Unasked` (a row that is not there has no account). Each scan in each step does one of the things in `Lives`; that its run is where the contract has it is `RunAgrees` |
| `Records_proofs` | `CoverageTypeCorrect`, `ReservationsWellSpent` | `WellSpent` | `CoverageInv`: `ExactSettled` and `FlexSettled` (the pairs a pass is done with have either no gap or no capacity), `FlexComesLater` |
| | `MostIsAlwaysCovered` | `CoversTheMost` | `Conserved` is invariant: what an instance was given is what it lacks no more (`GivenIsUsed`, `NoneOverdrawn`), and of every set `S` of instances, what these were given is no more than what is gone from the reservations that fit one of them (`Fits`), and just that if the other instances share no reservation with `S` (`Apart`; `UsedIsSpent`). So no `Limit(S)` is exceeded. By `WellSpent` nothing is left in the end that fits an instance short of anything. With licences known, instances that one reservation fits are fitted by the same (`FittingIsShared`), so those short and their like set a limit that is reached (`LimitIsReached`); without, those short set one of which half is |
| | `AuthTypeCorrect`, `AdminStays`, `FactorProven`, `CodeOnce`, `OneTime` | `AdminRemains`, `SessionProvesFactor`, `OneTimeMeansOnce` | `AuthInv`: types by parts, `LiveProven` (a session of its user's version has proven the secret that is set; whatever changes a secret changes the version), `CodesBehind` (the codes spent are behind the step remembered), `OneOpen` (of the links of an account), and the properties. Administrators change only under the lock, after they are counted |
| | `Conclusions` | `GenerationsConclude` | `GenerationInv`: `OneGapSeen` (of one coverage run an instance has one gap), `StaleUnjudged` (what is read as stale is judged uncertain), `BacklogStands`; a generator that none has overtaken writes over what its own reading knew |
| | `ServedAsSaid` | `ServedAsReported` | `TlsInv`: `OneWorks` (one apply is between lock and end), `NamedWhenMade` (a configuration is named after an apply only once that has begun, and what the one at work found can still be loaded), `FilesFollow` (what files and proxy say at each step) |
| `Collections_proofs` | `InventoryProven` | `InventoryIsProven` | `InventoryInv`: `StartsDiffer` (no two collections began at one time), `RowsStay` (what a collection has read of a row was there, and rows are never removed), `ReadIsCurrent` (unless somebody read beside another, what was read is what is there), and both parts of the property |
| | `DashboardTrue` | `DashboardIsTrue` | `SummaryInv`: `OneHolds` (one transaction has the row), `RowIsRight` and `CountedRight` (the row, if it is of the latest run, counts the findings, and so does what a rebuild that will have its way has counted), `JudgedSince` (no run that saw a finding is newer than its judgement), `NewestIsDetailed` and `BaselineIsRun` (whose observations a comparison rests on). A decision moves findings and row by the same amounts, and a comparison changes only if the observations of its two runs do |
| | `Connected` | `ConnectedWasProved` | `AccountInv`, with `AcceptedWasAsked`: an answer is for the copy of its request. A step that writes "connected" has an answer for what it writes, or its copy is old |
| | `AwsEvidence` | `AwsEvidenceIsSound` | `AwsInv`: `FactsKnown` (`always` within `fact` within `ever`), `InOrder` (regions and sections follow each other), `CollectorSound` (a resource that the current collector has passed over lacked a fact; one it holds had what was asked), `ResultSound` |
| | `OciEvidence` | `OciEvidenceIsSound` | `OciInv`: `ScopeRight` (the compartments are those below the root), `ErrorsKnown` (a call that failed left its mark), `TurnRight` (whose turn it is has a region and a compartment), `AllListed` (what a call that is over should have listed is listed, or there is a mark), `ShownWasSo`, `Declared` |
| `Costs_proofs` | `PricesResolve` | `PriceAlwaysResolves` | `PriceInv`: `OneHolder` (of the lock of a price), `NamesItsRow`, `StillDecided` (what a request has decided still fits, because no other holds the lock), `InTurn` (versions lie apart), `ToldDisabled` (what the audit trail calls deactivated is, for good), `AllPriced` |
| | `DefaultIsOne`, `AnsweredAsAsked` | parts of `BillingFollowsProfiles` | `ProfileInv`: `SomeDefault`, `AtMostOne`, `TargetsStored`, where the unique index is what refuses the second default. `QueryInv`: `EntryTrue` (an entry of the cache has what was told of the account, method and grouping of its key), `PartTrue` and `ToldTrue` (so have the parts of a query and what is on its way to the cache, fresh when used), and `PartsTrue` (the accounts of the parts and those still to ask are those asked about, each in one part) |
| | `BillingFollows` | `BillingFollowsProfiles` | both, and that answers agree. Whatever the grouping, the rows told of an account add up to its `Total` (`ToldInSum`: by buckets, then by services, of which those that cost nothing have no row), so an answer adds up to the totals of its accounts at the times these were asked (`AnswerInSum`), and so does what is made of it (`ResultInSum`). Complete answers to one question are of the same accounts, and where the costs told are the same so are the totals (`SameTold`, `TotalsAgree`). A plain answer has a row of every bucket, so it tells every estimate (`SummaryTellsEstimates`) |
| | `CallsAttributed` | a part of `UsageIsCounted` | `UsageInv`: `StartedBefore`, `ThreadsWork` (a buffer holds calls of its thread's run, made since it started), `Attributed` (of a stored call) |
| | `PricedOnce`, `UsageCounted` | `UsageIsPricedOnce`, `UsageIsCounted` | `CostInv`: what is charged is `CostOf` of tariff and usage. Tiers of rules that are let through lie apart (`VersionsAreApart`), so they can be put in order (`TiersAreSorted`: by how many lie below); the fold over them is shown to exist and to be what it says, step by step (`TierFoldExists`, `TiersOneByOne`). `PricesInTurn` is the invariant of that loop: unless it is refused, it has begun at 0 and what it has covered costs what its requests cost one by one. Two versions that price one call both have a tier at 0, and their rules overlap, which is refused (`PricedByOne`) |
| `Sums` | lemmas only | | what a sum over a finite set does when the set grows, is split, mapped or counted by another |

Not proved, only model-checked:

- liveness (`SteadyCloses`, `TodayIsSwept`, `NextRunComes`, `MixtureEnds`,
  `ScansEnd`, `DueIsServed`, `SweepEnds`): fairness and `ENABLED` are out of the
  prover's reach.

So every invariant and every action property that the runs check is also a
theorem. The refinements of `ScanContract`, `LedgerContract`, `CyclesContract`,
`RefreshContract` and `DeployContract` are only proved. TLC found no step against
them on small instances first (whole state spaces, except the queue's, which was
explored to 7.8 million states), but no run repeats what the theorems say.

Three of the invariants are about sums over sets of any size. The model computes
them with `MapThenSumSet` of the community modules, a fold whose order nothing is
known about, and the library's induction theorems cannot be used, because they
take the statement as a parameter. `Sums` does the induction in first-order
terms: the strict subset ordering of a finite set is well founded, so of the
subsets that would refute a statement one is smallest (`SmallestSubset`), and
taking one element from it gives the contradiction (`BySize`; for numbers
`ByCount`). That the fold exists, and that two agree where both are defined
(`FoldExists`, `FoldOnce`), is shown in this way first. In each module of proofs
a short lemma says that a sum of its model is `Sum` of a function. The fold over
the tiers in `Costs_proofs` is treated alike.

## 5. Where the code and its documents differ

- `SeenLaterIsActive`: two overlapping runs refuse each other's evidence, one for
  not being the latest observation and one for not being the latest run, and an
  opportunity stays missing although a run that began after the absence saw it
  (`worker.py:423`), against `docs/implementation-roadmap.md:3540`.
- `OneActive`: the check for an active scan and the insert are not atomic
  (`scan_queue.py:31`), against `docs/task-23-17-cloudwatch-usage-telemetry.md:87`.
  `BoundedDuplicates` is what the code does keep.
- `OverdueCloses`: after a change of policy the next cycle of an overdue one may
  overlap a cycle of the new grid; the closing is rolled back, and so is every
  later one (`opportunity_policy.py:586`), against
  `docs/opportunity-management-policy.md:62` and `:65`. `SteadyCloses` and
  `SteadyDisjoint` are what holds while the policy does not change.
- `AbandonedStageRecovered`: a refresh that dies in its last stage is not looked at
  again, for recovery asks for `RUNNING` and coverage has said `COMPLETED`
  (`rds_reservations_pipeline.py:94`), against the comment at line 95.
- `DelayKeepsPresence`: a collection that began before an absence was concluded and
  commits after it makes the resource active again
  (`inventory_persistence.py:203`), against the comment at line 200.
- `NewRunReadsCatalog`: a worker keeps the prices of its first valuation until it is
  started anew (`oci_pricing.py:298`), against `docs/implementation-roadmap.md:4034`.
- `OldTestMarksNothing`: a connection test whose configuration was replaced
  meanwhile marks the new one connected, because the row locked for the result is
  the object the session has held (`routes/cloud_accounts.py:499`,
  `cloud_accounts.py:74`, `session.py:10`), against
  `docs/implementation-roadmap.md:2576`. `ConnectedWasProved` is what holds.

Met while modelling, without a run of their own:

- `first_seen_at` is set by the run that commits first, not by the one that
  observed first (`worker.py:229`), against `docs/opportunity-discovery.md:7`.
- The clean-up keeps observations for as few days as a cycle may last
  (`schemas/opportunity_policy.py:42`), so observations of a cycle that is overdue
  and not closed may be gone when it closes (`worker_runtime.py:324`).
- A day settled as a success may still be marked failed by an error after it.
- `prepare` may wipe the directory of the previous release; a second manual
  rollback goes back to a version that was blocked (`docs/auto-deploy.md`).
- Creating a price at the `effective_from` of a disabled version fails on a unique
  key inside `flush`, where it is not turned into a 409.
- A profile deactivated while it is made the default ends as an inactive default;
  the key of the cache of costs leaves out whether the account manages the others
  (`aws_billing.py:299`).
- A licence model that is not known agrees with any (`rds_reservation_rules.py:345`),
  so the order in which instances and reservations are sorted may leave a reservation
  unused beside an instance that another one was spent on; `CoversTheMost` bounds it.
- Regions edited between the claim of a scan and its start give scope rows of
  success for a region nobody asked (`opportunity_reconciliation.py:117`).
- OCI: with two regions the search index is asked in the first only, and absence is
  then never concluded; a harmless warning has the same effect; a compartment that
  was removed, or whose access was lost, makes everything in it absent.

## 6. What is left out, and the plan

Not modelled, with the reason, in `components` of `PROJECT.json`: the estimates of
savings and cash flow (arithmetic over rows that are read), queries, evidence,
audit and configuration (read paths, rendering, and a log written in the
transaction of what it records), the front end, infrastructure, the schema and its
migrations. Left out of modelled parts:

- the wording of histories and audit rows, snapshot columns copied for display,
  currencies and windows of sums, time zones and months of different lengths;
- prices and savings of findings, the comparison with Cost Explorer, and how a
  threshold is compared with a metric;
- the parsing of provider answers and of certificates, hashing, encryption, mail;
- the creation of the policy row at bootstrap, the preview and the mark on runs of
  a clean-up;
- the mirror columns of AWS accounts (`models/account.py`), and that a global
  policy row is not bound by uniqueness (`models/policy.py:10`);
- several configured roots of an OCI account;
- of billing: several processes with a cache each, grouping by account (like that by
  service), several currencies, periods whose entries live for different times. That
  the total Cost Explorer tells without a grouping is the sum of its groups is what
  Cost Explorer says, not something the code checks.

Hazards known and without a property of their own, beside those in
`PROJECT.json`: rows of a run locked in two orders (`worker.py:353`,
`opportunity_reconciliation.py:75`); a report that fails after its run committed
(`worker.py:667`); a deletion between the two selections of the clean-up
(`retention.py:237`); a finding of the RDS rules archived while a generator
commits (`rds_reservation_opportunities.py:817`); a state file that cannot be
written (`auto_deploy.py:109`).

Next, in order:

1. The composition of clean-up and closing of cycles, for the hazard at
   `worker_runtime.py:324`, and the second configured root of OCI.
2. Contracts, as there are for scans and refreshes, for sign-in (`AuthSessions`)
   and for the certificate the proxy serves (`TlsApply`).
