------------------------------- MODULE MCRecords -------------------------------
(* Components that keep rows or files and share none of them, for TLC: the      *)
(* allotment of RDS reservations, the findings of RDS reservations, the         *)
(* resource inventory, the HTTPS configuration, accounts with their sessions,    *)
(* the summary of an account, prices, billing, and the calls of CloudWatch. A    *)
(* behaviour is one of one of them, the others rest.                            *)
EXTENDS RdsCoverage, RdsFindings, InventoryPresence, TlsApply, AuthSessions,
        AccountSummary, PriceCatalog, Billing, CloudWatchUsage

CONSTANTS Li, i1, r1, g2, f2, w2, eu, u1, u2, q2, x1, s1, c1, c2, c3, t1, t2, t3,
          e2, sku1, h2, b1, m1, k1, k2, n1, y2
VARIABLE course

MCUnits == [class \in Classes |-> IF class = "small" THEN 1 ELSE 2]
MCScopeOf == [x \in Items |-> s1]

(* findings_i and findings_r: of one resource. generators: two at once over one  *)
(* coverage run. accounts: two requests in flight, no codes. codes: one account, *)
(* one request, no links. decisions: two transactions, two runs, nothing covered.*)
(* comparisons: one finding, one transaction, three runs. prices: two editors of  *)
(* one price. valuations: one editor, the worker. profiles: two requests, no      *)
(* queries. queries: one request, summaries one by one. answers: two queries at   *)
(* once, of any kinds and costs, with one profile.                              *)
(* telemetry: two threads, two runs. tariffs: two rules, two kinds of calls.       *)
PriceCourses == {"prices", "valuations"}
BillingCourses == {"profiles", "queries", "answers"}
CloudWatchCourses == {"telemetry", "tariffs"}
Courses == {"coverage", "findings_i", "findings_r", "generators", "inventory", "tls",
            "accounts", "codes", "decisions", "comparisons"}
           \cup PriceCourses \cup BillingCourses \cup CloudWatchCourses

sincePrices == <<priceVars, billingVars, cloudWatchVars>>
beforePrices == <<coverageVars, findingVars, inventoryVars, tlsVars, authVars, summaryVars>>
recordsVars == <<beforePrices, sincePrices, course>>

OneCoverage ==
    /\ instance = [i \in Is |-> CHOOSE n \in Instance : TRUE]
    /\ reservation = [r \in Rs |-> CHOOSE n \in Reservation : TRUE]

(* All resources of one pool, the last two instances of one class: all with one *)
(* licence, and the third plain; or all plain and of any licence, one unknown.  *)
Plain == {"single_az", "standard"}
OneLicence(n) == n.licence = IF n.pool \in Oracle THEN Li ELSE Byol
OnePool ==
    /\ \E pool \in Pools :
        \/ /\ instance \in [Is -> {n \in Instance : n.pool = pool /\ OneLicence(n)}]
           /\ \A i \in Is : i > 2 => instance[i].topology \in Plain
           /\ reservation \in [Rs -> {n \in Reservation : n.pool = pool /\ OneLicence(n)}]
        \/ /\ pool \notin Licensed
           /\ instance \in [Is -> {n \in Instance : n.pool = pool /\ n.topology \in Plain}]
           /\ reservation \in [Rs -> {n \in Reservation : n.pool = pool /\ ~n.multi}]
    /\ \A i, j \in Is \ {1} : instance[i].class = instance[j].class

(* The scopes that matter are those of comparisons, of its second run.          *)
OneScope ==
    /\ \A r \in Runs : ended[r].version # Unrecorded
    /\ \A r \in Runs : ended[r].scope # eu => course = "comparisons" /\ r = 2

(* What the first account costs may change, once; the second does not.          *)
CostsOf(x, y, z, estimated) ==
    [b \in Buckets |-> [estimated |-> b = 2 /\ estimated,
                       cost |-> [s \in Services |-> IF b = 2 THEN z ELSE IF s = "s1" THEN x ELSE y]]]
OneCost == CostsOf(1, 0, 0, FALSE)
OtherCosts == {CostsOf(2, -1, 0, TRUE), CostsOf(2, -2, 1, TRUE)}

Bills ==
    /\ \E costs \in [Minutes -> IF course = "answers" THEN OtherCosts ELSE {OneCost}] :
          /\ costs[0] \in {OneCost, CostsOf(2, -1, 0, TRUE)}
          /\ \A t \in Minutes : t > 1 => costs[t] = costs[1]
          /\ bill = [t \in Minutes |-> [a \in AwsAccounts |-> IF a = b1 THEN costs[t] ELSE OneCost]]
    /\ BillingInit
    /\ course \notin {"profiles"} => profile[System].stored /\ profile[System].method = m1

(* Two rules at most, of any regions, times and tiers.                           *)
TariffRules == {[scope |-> s, from |-> t[1], until |-> t[2], low |-> q[1], high |-> q[2], tiers |-> k,
           price |-> IF s = "us" THEN 3 ELSE 1 + q[1]]
             : s \in {"GLOBAL", "AWS_COMMERCIAL", "us"}, t \in {<<0, 1>>, <<0, Open>>, <<1, Open>>},
               q \in {<<0, 1>>, <<0, 9>>, <<1, 9>>}, k \in {"NONE", "ACCOUNT"}}
Tariffs == {{x, y} : x, y \in TariffRules}
Usages == {{[region |-> "us", at |-> t, requests |-> n], [region |-> r, at |-> u, requests |-> m]} :
              t, u \in {0, 1}, r \in {"us", "cn"}, n \in {1, 2}, m \in {0, 1}}

Calls ==
    /\ IF course = "tariffs" THEN tariff \in Tariffs /\ usage \in Usages
       ELSE tariff = {} /\ usage = {}
    /\ CloudWatchInit

RecordsInit ==
    /\ course \in Courses
    /\ SummaryInit /\ OneScope
    /\ TlsInit /\ (course # "tls" => \A q \in Applies : apply[q].custom)
    /\ IF course = "coverage" THEN OnePool ELSE OneCoverage
    /\ CoverageInit /\ FindingsInit /\ InventoryInit /\ AuthInit
    /\ PriceInit /\ (course \notin PriceCourses => price[1].sku = sku1) /\ Bills /\ Calls

Rest(vs) == UNCHANGED vs

FindingsCourse ==
    /\ FindingsNext
    /\ course # "findings_r" => row'[r1] = row[r1]
    /\ course = "findings_r" => row'[i1] = row[i1]
    /\ course = "generators" => computed' <= 1
    /\ course = "findings_r" => computed' <= 1
    /\ course # "generators" => generator'[g2].run = 0
    /\ Rest(<<coverageVars, inventoryVars, tlsVars, authVars, summaryVars, sincePrices>>)

(* Collections start, and applies come, in the order of their names.            *)
InventoryCourse ==
    /\ InventoryNext
    /\ collection'[c3].step # "waiting" => collection'[c2].step # "waiting"
    /\ collection'[c2].step # "waiting" => collection'[c1].step # "waiting"
    /\ Rest(<<coverageVars, findingVars, tlsVars, authVars, summaryVars, sincePrices>>)

TlsCourse ==
    /\ TlsNext
    /\ apply'[t3].step # "new" => apply'[t2].step # "new"
    /\ apply'[t2].step # "new" => apply'[t1].step # "new"
    /\ Rest(<<coverageVars, findingVars, inventoryVars, authVars, summaryVars, sincePrices>>)

AuthCourse ==
    /\ AuthNext
    /\ course = "accounts" =>
          /\ factor' = factor /\ clock' = clock /\ session'[3].of = "none"
          /\ \A u \in Users : user'[u].version <= 1
    /\ course = "codes" => ~user'[u2].exists /\ request'[q2] = NoRequest /\ link' = link
    /\ Rest(<<coverageVars, findingVars, inventoryVars, tlsVars, summaryVars, sincePrices>>)

SummaryCourse ==
    /\ SummaryNext
    /\ course = "decisions" =>
          /\ ended'[MaxRuns].status = "RUNNING"
          /\ \A r \in Runs : ended'[r].covered = {} /\ ended'[r].status # "FAILED"
          /\ \A w \in Writers : \A f, g \in DOMAIN open'[w].writes : f = g
    /\ course = "comparisons" =>
          /\ open'[w2] = open[w2] /\ ~standing'[f2].known
          /\ \A r \in Runs : f2 \notin ended'[r].covered
    /\ Rest(<<coverageVars, findingVars, inventoryVars, tlsVars, authVars, sincePrices>>)

PriceCourse ==
    /\ PriceNext
    /\ course = "prices" =>
          /\ readPrices' = NothingReadYet /\ day' = 0 /\ Len(audit') <= 3
          /\ \A a \in Editors : edit'[a].sku = sku1
    /\ course = "valuations" => edit'[e2] = edit[e2] /\ Len(audit') <= 1
    /\ Rest(<<beforePrices, billingVars, cloudWatchVars>>)

BillingCourse ==
    /\ BillingNext
    /\ course = "profiles" => billed' = 0 /\ minute' = 0 /\ (profile' # profile =>
          \A p \in Profiles : profile'[p].stored => profile'[p].method = m1)
    /\ course = "queries" =>
          /\ change'[h2] = change[h2] /\ ~profile'[3].stored /\ query'[k2] = query[k2]
          /\ profile'[2].stored => profile'[2].method # m1
          /\ \A h \in Handlers : change'[h].kind \in {"none", "default"}
          /\ query'[k1].kind = "summary"
          /\ query'[k1].wanted # {} => b1 \in query'[k1].wanted
    /\ course = "answers" =>
          /\ profile' = profile /\ change' = change /\ minute' <= 1
          /\ \A x \in Askers : b1 \in query'[x].wanted \/ query'[x] = NoQuery
          /\ query'[k2].step = "asking" /\ query[k2].step = "idle" => query[k1].step = "asking"
    /\ Rest(<<beforePrices, priceVars, cloudWatchVars>>)

(* The first run is of one account, and of the first thread.                     *)
CloudWatchCourse ==
    /\ CloudWatchNext
    /\ course = "telemetry" =>
          /\ charged' = charged
          /\ Len(cwRun') = 1 => cwRun'[1].account = n1 /\ thread'[y2].run = 0
    /\ course = "tariffs" => cwHour' = 0 /\ cwRun' = <<>>
    /\ Rest(<<beforePrices, priceVars, billingVars>>)

RecordsNext ==
    /\ \/ course = "coverage" /\ CoverageNext
          /\ Rest(<<findingVars, inventoryVars, tlsVars, authVars, summaryVars, sincePrices>>)
       \/ course \in {"findings_i", "findings_r", "generators"} /\ FindingsCourse
       \/ course = "inventory" /\ InventoryCourse
       \/ course = "tls" /\ TlsCourse
       \/ course \in {"accounts", "codes"} /\ AuthCourse
       \/ course \in {"decisions", "comparisons"} /\ SummaryCourse
       \/ course \in PriceCourses /\ PriceCourse
       \/ course \in BillingCourses /\ BillingCourse
       \/ course \in CloudWatchCourses /\ CloudWatchCourse
    /\ UNCHANGED course

RecordsSpec == RecordsInit /\ [][RecordsNext]_recordsVars

(* Collections of resources alone. *)
InventoryAlone == RecordsInit /\ course = "inventory" /\ [][RecordsNext]_recordsVars

(* The valuations of a worker alone. *)
ValuationsAlone == RecordsInit /\ course = "valuations" /\ [][RecordsNext]_recordsVars

=============================================================================
