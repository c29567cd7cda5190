--------------------------------- MODULE Billing ---------------------------------
(* The profiles of billing queries, one of them the default, and the queries of    *)
(* AWS costs: what a query asks is taken from a profile, the costs of each account  *)
(* from a cache of the process or from Cost Explorer, and added up to a summary, a  *)
(* series or a breakdown, each by a query of its own (billing_profiles.py,          *)
(* aws_billing.py). Profiles are numbered as their ids sort; the profile of the     *)
(* system has the least id.                                                        *)
EXTENDS Integers, FiniteSets, FiniteSetsExt

CONSTANTS
    Profiles,           \* 1..n, in the order of their ids
    Handlers,           \* requests about profiles in flight at a time
    Methods,            \* metric, granularity and record types left out
    AwsAccounts,        \* AWS accounts that can be asked about
    Buckets, Services,  \* the days of the period asked about, and what costs
    Askers,             \* queries in flight at a time
    Ttl,                \* how long the costs of an account are kept
    MaxMinute, MaxBilled    \* bounds on the clock and the queries

System == 1

ASSUME BillingAssumption ==
    /\ Profiles \subseteq Nat /\ System \in Profiles /\ Methods # {}
    /\ IsFiniteSet(AwsAccounts) /\ IsFiniteSet(Buckets) /\ IsFiniteSet(Services)
    /\ Ttl \in Nat \ {0} /\ MaxMinute \in Nat /\ MaxBilled \in Nat

VARIABLES
    profile,    \* profile[p]: the BillingProfile row
    change,     \* change[h]: a request that changes profiles, and what it has seen
    bill,       \* bill[t][a]: the costs Cost Explorer tells of account a at minute t
    cached,     \* the entries of billing_query_cache
    query,      \* query[x]: a query in progress
    answer,     \* answer[k]: the last answer of kind k, with all that was asked
    minute, billed

billingVars == <<profile, change, bill, cached, query, answer, minute, billed>>
profileVars == <<profile, change>>
queryVars == <<bill, cached, query, answer, minute, billed>>

Minutes == 0..MaxMinute
Kinds == {"summary", "series", "breakdown"}

(* What an account costs in a bucket: refunds and credits are negative.          *)
Costs == [Buckets -> [estimated : BOOLEAN, cost : [Services -> Int]]]

NoProfile(m) == [stored |-> FALSE, default |-> FALSE, enabled |-> TRUE, method |-> m]
NoChange == [step |-> "idle", kind |-> "none", target |-> System, seen |-> {}, default |-> FALSE]
AnyMethod == CHOOSE m \in Methods : TRUE
NoQuery == [step |-> "idle", kind |-> "summary", grouping |-> "NONE", method |-> AnyMethod,
            wanted |-> {}, left |-> {}, told |-> {}, parts |-> {}]

(* The migration stores the system's profile, as the default; or it is gone. What *)
(* Cost Explorer tells is any costs, which may be others every minute.           *)
BillingInit ==
    /\ \E m \in Methods : \E seeded \in BOOLEAN :
          profile = [p \in Profiles |->
                        [NoProfile(m) EXCEPT !.stored = seeded /\ p = System,
                                             !.default = seeded /\ p = System]]
    /\ change = [h \in Handlers |-> NoChange]
    /\ bill \in [Minutes -> [AwsAccounts -> Costs]]
    /\ cached = {} /\ query = [x \in Askers |-> NoQuery] /\ answer = [k \in Kinds |-> NoQuery]
    /\ minute = 0 /\ billed = 0

Stored == {p \in Profiles : profile[p].stored}
Defaults == {p \in Stored : profile[p].default}

-----------------------------------------------------------------------------
(* ensure_finops_profile, when a process starts: it looks, then inserts.         *)
EnsureLooks(h) ==
    /\ change[h].step = "idle" /\ System \notin Stored
    /\ change' = [change EXCEPT ![h] = [NoChange EXCEPT !.step = "looked", !.kind = "ensure",
                                                        !.default = (Defaults = {})]]
    /\ UNCHANGED <<profile, queryVars>>

(* The insert fails on the id or on the second default, and the profile another   *)
(* process has stored serves; without it the start fails.                        *)
EnsureInserts(h) ==
    /\ change[h].step = "looked" /\ change[h].kind = "ensure"
    /\ IF System \in Stored \/ (change[h].default /\ Defaults # {})
       THEN profile' = profile
       ELSE profile' = [profile EXCEPT ![System] =
                           [stored |-> TRUE, default |-> change[h].default, enabled |-> TRUE,
                            method |-> AnyMethod]]
    /\ change' = [change EXCEPT ![h] = NoChange]
    /\ UNCHANGED queryVars

(* _lock_profiles: all rows there are, in the order of their ids; one request     *)
(* holds them at a time. Rows inserted later are not seen.                       *)
ProfilesLocked == \E h \in Handlers : change[h].step = "locked"

LockProfiles(h, kind, target) ==
    /\ change[h].step = "idle" /\ ~ProfilesLocked
    /\ change' = [change EXCEPT ![h] = [step |-> "locked", kind |-> kind, target |-> target,
                                        seen |-> Stored, default |-> TRUE]]
    /\ UNCHANGED <<profile, queryVars>>

(* create: the id of a new profile is any; as the default it locks the others.    *)
Unused == Profiles \ (Stored \cup {System})

CreateLocks(h) == LockProfiles(h, "create", System)

CreatePlain(h) ==
    /\ change[h].step = "idle"
    /\ \E p \in Unused : \E m \in Methods :
          profile' = [profile EXCEPT ![p] = [NoProfile(m) EXCEPT !.stored = TRUE]]
    /\ UNCHANGED <<change, queryVars>>

(* The defaults it saw are cleared before the insert; another is a conflict.      *)
CreateCommits(h) ==
    LET c == change[h]
    IN /\ c.step = "locked" /\ c.kind = "create"
       /\ \E new \in Unused : \E m \in Methods :
             profile' = IF Defaults \subseteq c.seen
                        THEN [p \in Profiles |->
                                 IF p = new
                                 THEN [NoProfile(m) EXCEPT !.stored = TRUE, !.default = TRUE]
                                 ELSE [profile[p] EXCEPT !.default = FALSE]]
                        ELSE profile
       /\ change' = [change EXCEPT ![h] = NoChange]
       /\ UNCHANGED queryVars

(* set_default: refused at once for a profile that is not there or not enabled.   *)
SetDefaultLocks(h) ==
    \E p \in Stored : profile[p].enabled /\ LockProfiles(h, "default", p)

(* Rows are written in the order of their ids: a profile whose id sorts before    *)
(* the present default's is marked while the other still is, which the index      *)
(* refuses; so is a default that was inserted since.                             *)
MayMark(c) == \A d \in Defaults : d \in c.seen /\ d <= c.target

(* Mutant: the others are cleared, and the target is marked by another commit.    *)
MutantMarked(c) == [p \in Profiles |-> [profile[p] EXCEPT !.default = FALSE]]

Marked(c) == [p \in Profiles |-> [profile[p] EXCEPT !.default = (p = c.target)]]

SetDefaultCommits(h) ==
    LET c == change[h]
    IN /\ c.step = "locked" /\ c.kind = "default"
       /\ profile' = IF MayMark(c) THEN Marked(c) ELSE profile
       /\ change' = [change EXCEPT ![h] = NoChange]
       /\ UNCHANGED queryVars

(* deactivate: looks without a lock, and writes only the flag.                    *)
DeactivateLooks(h) ==
    /\ change[h].step = "idle"
    /\ \E p \in Stored \ {System} :
          /\ ~profile[p].default /\ profile[p].enabled
          /\ change' = [change EXCEPT ![h] =
                           [NoChange EXCEPT !.step = "looked", !.kind = "deactivate", !.target = p]]
    /\ UNCHANGED <<profile, queryVars>>

DeactivateWrites(h) ==
    /\ change[h].step = "looked" /\ change[h].kind = "deactivate" /\ ~ProfilesLocked
    /\ profile' = [profile EXCEPT ![change[h].target].enabled = FALSE]
    /\ change' = [change EXCEPT ![h] = NoChange]
    /\ UNCHANGED queryVars

(* A name that is taken, or an error: what the request did is rolled back.        *)
ChangeFails(h) ==
    /\ change[h].step # "idle"
    /\ change' = [change EXCEPT ![h] = NoChange]
    /\ UNCHANGED <<profile, queryVars>>

(* update.                                                                       *)
UpdateProfile ==
    /\ ~ProfilesLocked
    /\ \E p \in Stored : \E m \in Methods :
          profile' = [profile EXCEPT ![p].method = m]
    /\ UNCHANGED <<change, queryVars>>

-----------------------------------------------------------------------------
(* _default_profile: the default if it is enabled, else the system's; _profile_-  *)
(* options of none are those the code has.                                       *)
DefaultProfile ==
    LET standing == {p \in Defaults : profile[p].enabled}
    IN IF standing # {} THEN CHOOSE p \in standing : TRUE
       ELSE IF System \in Stored /\ profile[System].enabled THEN System ELSE 0

MethodOf(p) == IF p = 0 THEN AnyMethod ELSE profile[p].method

(* resolve and _resolve_accounts: a profile that is named must be enabled. A      *)
(* summary is never grouped, a breakdown always.                                 *)
QueryBegins(x) ==
    /\ query[x].step = "idle" /\ billed < MaxBilled
    /\ billed' = billed + 1
    /\ \E p \in {DefaultProfile} \cup {q \in Stored : profile[q].enabled} :
       \E wanted \in SUBSET AwsAccounts \ {{}}, kind \in Kinds, grouping \in {"NONE", "SERVICE"} :
          /\ kind = "summary" => grouping = "NONE"
          /\ kind = "breakdown" => grouping # "NONE"
          /\ query' = [query EXCEPT ![x] =
                          [step |-> "asking", kind |-> kind, grouping |-> grouping,
                           method |-> MethodOf(p), wanted |-> wanted, left |-> wanted,
                           told |-> {}, parts |-> {}]]
    /\ UNCHANGED <<profileVars, bill, cached, answer, minute>>

(* What Cost Explorer tells of an account, and the rows made of it: of every      *)
(* bucket its total, or what each service cost that cost anything.               *)
InAll(c, b) == MapThenSumSet(LAMBDA s : c[b].cost[s], Services)
CostLine(c, b, key, amount) ==
    [bucket |-> b, key |-> key, amount |-> amount, estimated |-> c[b].estimated]

Told(c, grouping) ==
    IF grouping = "NONE"
    THEN {CostLine(c, b, "none", InAll(c, b)) : b \in Buckets}
    ELSE UNION {{CostLine(c, b, s, c[b].cost[s]) : s \in {r \in Services : c[b].cost[r] # 0}}
                  : b \in Buckets}

CacheKey(a, m, g) == <<a, m, g>>

KeptParts(x, a) ==
    {e \in cached : /\ e.key = CacheKey(a, query[x].method, query[x].grouping)
                    /\ minute < e.until}

(* _fetch_account_rows, of one account after the other: from the cache,           *)
UseCached(x, a) ==
    /\ query[x].step = "asking" /\ query[x].told = {} /\ a \in query[x].left
    /\ \E e \in KeptParts(x, a) :
          query' = [query EXCEPT ![x].left = @ \ {a},
                                 ![x].parts = @ \cup {[e.part EXCEPT !.used = minute]}]
    /\ UNCHANGED <<profileVars, bill, cached, answer, minute, billed>>

(* or from the provider,                                                         *)
Fetch(x, a) ==
    /\ query[x].step = "asking" /\ query[x].told = {} /\ a \in query[x].left
    /\ KeptParts(x, a) = {}
    /\ query' = [query EXCEPT ![x].told =
                    {[account |-> a, method |-> query[x].method, grouping |-> query[x].grouping,
                      at |-> minute, kept |-> minute, used |-> minute,
                      rows |-> Told(bill[minute][a], query[x].grouping)]}]
    /\ UNCHANGED <<profileVars, bill, cached, answer, minute, billed>>

(* whose answer is kept when it has come, in place of any that has been since.    *)
KeepFetched(x) ==
    /\ query[x].step = "asking"
    /\ \E fetched \in query[x].told :
          LET key == CacheKey(fetched.account, fetched.method, fetched.grouping)
              part == [fetched EXCEPT !.kept = minute, !.used = minute]
          IN /\ cached' = {e \in cached : e.key # key}
                          \cup {[key |-> key, part |-> part, until |-> minute + Ttl]}
             /\ query' = [query EXCEPT ![x].left = @ \ {fetched.account}, ![x].told = {},
                                       ![x].parts = @ \cup {part}]
    /\ UNCHANGED <<profileVars, bill, answer, minute, billed>>

(* Mutant: an account that cannot be asked is left out. *)
MutantFailed(x, a) == [query EXCEPT ![x].left = @ \ {a}]

(* One account cannot be asked: the query has no answer.                         *)
Failed(x, a) == [query EXCEPT ![x] = NoQuery]

FetchFails(x, a) ==
    /\ query[x].step = "asking" /\ query[x].told = {} /\ a \in query[x].left
    /\ KeptParts(x, a) = {}
    /\ query' = Failed(x, a)
    /\ UNCHANGED <<profileVars, bill, cached, answer, minute, billed>>

QueryAnswers(x) ==
    /\ query[x].step = "asking" /\ query[x].left = {} /\ query[x].told = {}
    /\ answer' = [answer EXCEPT ![query[x].kind] = [query[x] EXCEPT !.step = "answered"]]
    /\ query' = [query EXCEPT ![x] = NoQuery]
    /\ UNCHANGED <<profileVars, bill, cached, minute, billed>>

MinutePasses ==
    /\ minute < MaxMinute
    /\ minute' = minute + 1
    /\ UNCHANGED <<profileVars, bill, cached, query, answer, billed>>

BillingNext ==
    \/ \E h \in Handlers :
          \/ EnsureLooks(h) \/ EnsureInserts(h) \/ CreateLocks(h) \/ CreatePlain(h)
          \/ CreateCommits(h) \/ SetDefaultLocks(h) \/ SetDefaultCommits(h)
          \/ DeactivateLooks(h) \/ DeactivateWrites(h) \/ ChangeFails(h)
    \/ UpdateProfile
    \/ MinutePasses
    \/ \E x \in Askers :
          \/ QueryBegins(x) \/ KeepFetched(x) \/ QueryAnswers(x)
          \/ \E a \in AwsAccounts : UseCached(x, a) \/ Fetch(x, a) \/ FetchFails(x, a)

BillingSpec == BillingInit /\ [][BillingNext]_billingVars

-----------------------------------------------------------------------------
(* What is made of the rows of an answer, each told by its account too.          *)
AnswerRows(q) == UNION {{<<part.account, r>> : r \in part.rows} : part \in q.parts}

Amount(R) == MapThenSumSet(LAMBDA ar : ar[2].amount, R)

(* _status_from_estimation_flags.                                                *)
Status(R) ==
    LET flags == {ar[2].estimated : ar \in R}
    IN IF flags = {TRUE} THEN "ESTIMATED"
       ELSE IF flags = BOOLEAN THEN "PARTIALLY_ESTIMATED" ELSE "ACTUAL"

Groups(R) == {[key |-> k, amount |-> Amount({ar \in R : ar[2].key = k}),
               status |-> Status({ar \in R : ar[2].key = k})]
                : k \in {ar[2].key : ar \in R}}

Of(R, b) == {ar \in R : ar[2].bucket = b}

(* timeseries: one point for every bucket, if anything costs anything; in a point  *)
(* one group for every service of it, if it was asked for.                       *)
Points(R, grouping) ==
    IF R = {} THEN {}
    ELSE {[bucket |-> b, amount |-> Amount(Of(R, b)), status |-> Status(Of(R, b)),
           groups |-> IF grouping = "NONE" THEN {} ELSE Groups(Of(R, b))] : b \in Buckets}

(* breakdown, and summary.                                                       *)
BreakdownItems(R) == Groups(R)
Summary(R) == {[amount |-> Amount(R), status |-> Status(R)]}

(* What an answer tells: totals, points or items, of one currency.               *)
Result(q) ==
    LET R == AnswerRows(q)
    IN CASE q.kind = "summary" -> Summary(R)
         [] q.kind = "series" -> Points(R, q.grouping)
         [] q.kind = "breakdown" -> BreakdownItems(R)

InSum(results) == MapThenSumSet(LAMBDA r : r.amount, results)
NoEstimate(results) == \A r \in results : r.status = "ACTUAL"

-----------------------------------------------------------------------------
(* Once the system's profile is stored, one profile is the default.              *)
OneDefault == System \in Stored => Cardinality(Defaults) = 1

(* An answer is of all accounts it was asked about, of each once: what Cost        *)
(* Explorer told of that account, to just this question, and since then kept for   *)
(* less than an entry may be when the answer used it.                             *)
AnswersAsAsked ==
    \A k \in Kinds :
       LET q == answer[k]
       IN /\ {part.account : part \in q.parts} = q.wanted
          /\ \A part, other \in q.parts : other.account = part.account => other = part
          /\ \A part \in q.parts :
                /\ part.method = q.method
                /\ part.rows = Told(bill[part.at][part.account], q.grouping)
                /\ part.at <= part.kept /\ part.kept <= part.used
                /\ part.used < part.kept + Ttl

SameQuestion(q, o) ==
    /\ q.step = "answered" /\ o.step = "answered"
    /\ q.wanted = o.wanted /\ q.method = o.method

(* The costs that two answers were told of are the same, though told by calls      *)
(* apart, at times apart and in groupings apart.                                 *)
SameCosts(q, o) ==
    \A part \in q.parts, other \in o.parts :
       part.account = other.account =>
          bill[part.at][part.account] = bill[other.at][other.account]

(* A summary, a series and a breakdown are queries of their own, that share no     *)
(* call and no entry of the cache when they are grouped apart: they tell one sum    *)
(* of one question unless costs changed between the calls they rest on, and         *)
(* nothing is an estimate in one of them that the summary tells as actual. The      *)
(* groups of a point add up to it.                                               *)
AnswersAgree ==
    /\ \A k, l \in Kinds :
          LET q == answer[k]
              o == answer[l]
          IN SameQuestion(q, o) /\ SameCosts(q, o) =>
                /\ InSum(Result(q)) = InSum(Result(o))
                /\ k = "summary" /\ NoEstimate(Result(q)) => NoEstimate(Result(o))
    /\ LET q == answer["series"]
       IN q.grouping # "NONE" => \A p \in Result(q) : InSum(p.groups) = p.amount

(* Requests about profiles at once, processes that start, profiles edited between  *)
(* queries, queries at once, calls that fail, and a cache that lives on: there is    *)
(* one default, an answer is what was asked, of every account or of none, and       *)
(* answers to one question agree.                                                *)
BillingFollowsProfiles == OneDefault /\ AnswersAsAsked /\ AnswersAgree

=============================================================================
