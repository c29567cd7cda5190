---------------------------- MODULE CollectionQueue ----------------------------
(***************************************************************************)
(* How a scan comes to exist, is executed and ends, and the CollectionRun  *)
(* that goes with it (scan_queue.py, worker.py, cloud_accounts.py).        *)
(* API requests and the scheduler of every worker insert scans after       *)
(* checking that the account has no active one; the check and the insert   *)
(* are two steps, for neither locks anything the other would see. Workers  *)
(* claim the oldest pending scan, collect it, persist it and report it. A  *)
(* worker may die anywhere and is started again; nothing picks up the scan *)
(* it was executing.                                                       *)
(***************************************************************************)
EXTENDS Integers, FiniteSets

CONSTANTS
    Accounts,
    Workers,        \* worker processes
    Requests,       \* API requests that may be in progress at once
    MaxScans,       \* bound on the scans ever inserted, for model checking
    MaxCrashes      \* bound on the deaths of workers, for model checking

ASSUME ActorAssumption ==
    /\ IsFiniteSet(Workers)
    /\ IsFiniteSet(Requests)
    /\ Workers \cap Requests = {}
    /\ "none" \notin Accounts
ASSUME BoundAssumption == MaxScans \in Nat /\ MaxCrashes \in Nat

VARIABLES
    account,    \* account[a]: the CloudAccount row
    scan,       \* scan[s]: the Scan row; ids follow the order of creation
    run,        \* run[s]: the status of the CollectionRun made for scan s
    worker,     \* worker[w]: where a worker is and what it has read
    request,    \* request[q]: the accounts for which q passed its check
    lost,       \* scans that were running when their worker died
    crashes

vars == <<account, scan, run, worker, request, lost, crashes>>

Scans == 1..MaxScans
NoScan == 0
NoAccount == "none"

(* next_scan_at: NULL, in the future, or not later than now.                *)
AccountRow == [present : BOOLEAN, enabled : BOOLEAN, scheduled : BOOLEAN,
               next : {"null", "later", "due"}]
ScanStates == {"none", "pending", "running", "completed", "failed", "deleted"}
ScanRow == [state : ScanStates, account : Accounts \cup {NoAccount}]
RunStates == {"none", "RUNNING", "SUCCESS", "FAILED"}
(* A worker holds a scan from its claim to the end of its execution.       *)
WorkerRow ==
    [step : {"idle", "enqueue", "claim", "down"},
     due : SUBSET Accounts, free : SUBSET Accounts, scan : {NoScan}]
    \cup [step : {"collect", "report"}, due : {{}}, free : {{}}, scan : Scans]

Idle == [step |-> "idle", due |-> {}, free |-> {}, scan |-> NoScan]
Down == [step |-> "down", due |-> {}, free |-> {}, scan |-> NoScan]

Init ==
    /\ account \in [Accounts -> {r \in AccountRow :
                                   /\ r.present
                                   /\ r.next = IF r.scheduled THEN "due" ELSE "null"}]
    /\ scan = [s \in Scans |-> [state |-> "none", account |-> NoAccount]]
    /\ run = [s \in Scans |-> "none"]
    /\ worker = [w \in Workers |-> Idle]
    /\ request = [q \in Requests |-> NoAccount]
    /\ lost = {}
    /\ crashes = 0

Unused == {s \in Scans : scan[s].state = "none"}
Pending == {s \in Scans : scan[s].state = "pending"}

Active(a) ==
    {s \in Scans : scan[s].account = a /\ scan[s].state \in {"pending", "running"}}

(* Mutant: the query forgets the scans that are running. *)
MutantHasActive(a) == \E s \in Pending : scan[s].account = a

HasActive(a) == Active(a) # {}

(* Who has found account a without an active scan and has yet to insert.   *)
Enqueuers(a) ==
    {w \in Workers : a \in worker[w].free} \cup {q \in Requests : request[q] = a}

(* The model's bound: every worker that may still insert scans finds unused *)
(* ids, n of them being taken.                                              *)
Room(n) ==
    Cardinality(Unused) >=
        n + Cardinality({p \in Workers \X Accounts :
                           \/ p[2] \in worker[p[1]].free
                           \/ account[p[2]].next = "due"})

-----------------------------------------------------------------------------
(* Operators. *)

SetAccount(a, row) ==
    /\ account[a].present
    /\ account' = [account EXCEPT ![a] = row]
    /\ UNCHANGED <<scan, run, worker, request, lost, crashes>>

Enable(a) == SetAccount(a, [account[a] EXCEPT !.enabled = TRUE])
Disable(a) == SetAccount(a, [account[a] EXCEPT !.enabled = FALSE])

ScheduleOn(a) ==
    /\ Room(Cardinality(Workers))
    /\ SetAccount(a, [account[a] EXCEPT !.scheduled = TRUE,
                                        !.next = IF @ = "null" THEN "due" ELSE @])

ScheduleOff(a) ==
    SetAccount(a, [account[a] EXCEPT !.scheduled = FALSE, !.next = "null"])

ChangeInterval(a) ==
    /\ account[a].scheduled
    /\ SetAccount(a, [account[a] EXCEPT !.next = "later"])

(* The clock reaches next_scan_at.                                          *)
TimePasses(a) ==
    /\ account[a].next = "later"
    /\ Room(Cardinality(Workers))
    /\ SetAccount(a, [account[a] EXCEPT !.next = "due"])

(* Scans go with their account (ON DELETE CASCADE); their runs stay, with   *)
(* scan_id set to NULL.                                                     *)
Delete(a) ==
    /\ account[a].present
    /\ account' = [account EXCEPT ![a] = [present |-> FALSE, enabled |-> FALSE,
                                          scheduled |-> FALSE, next |-> "null"]]
    /\ scan' = [s \in Scans |-> IF scan[s].account = a
                                THEN [scan[s] EXCEPT !.state = "deleted"]
                                ELSE scan[s]]
    /\ UNCHANGED <<run, worker, request, lost, crashes>>

(* queue_manual_collection, up to its check ...                             *)
CheckRequest(q, a) ==
    /\ request[q] = NoAccount
    /\ account[a].present /\ account[a].enabled
    /\ ~HasActive(a)
    /\ request' = [request EXCEPT ![q] = a]
    /\ UNCHANGED <<account, scan, run, worker, lost, crashes>>

(* Inserts the next scans, one for each account of A, in some order.        *)
Insert(A) ==
    \E place \in [A -> Unused] :
        /\ LET used == MaxScans - Cardinality(Unused)
           IN  {place[a] : a \in A} = used + 1 .. used + Cardinality(A)
        /\ scan' = [s \in Scans |->
                      IF \E a \in A : place[a] = s
                      THEN [state |-> "pending",
                            account |-> CHOOSE a \in A : place[a] = s]
                      ELSE scan[s]]

(* ... and its insert, which the foreign key refuses when the account is    *)
(* gone.                                                                    *)
InsertRequest(q) ==
    /\ request[q] # NoAccount
    /\ IF account[request[q]].present
       THEN Room(1) /\ Insert({request[q]})
       ELSE UNCHANGED scan
    /\ request' = [request EXCEPT ![q] = NoAccount]
    /\ UNCHANGED <<account, run, worker, lost, crashes>>

-----------------------------------------------------------------------------
(* Workers. *)

Due == {a \in Accounts : /\ account[a].enabled
                         /\ account[a].scheduled
                         /\ account[a].next = "due"}

(* enqueue_due_scans, up to its commit: the due accounts, and those of them *)
(* that have no active scan.                                                *)
LookForDue(w) ==
    /\ worker[w].step = "idle"
    /\ worker' = [worker EXCEPT ![w] =
                    [step |-> "enqueue", due |-> Due,
                     free |-> {a \in Due : ~HasActive(a)}, scan |-> NoScan]]
    /\ UNCHANGED <<account, scan, run, request, lost, crashes>>

(* Mutant: the schedule advances only when a scan is inserted. *)
MutantEnqueue(w) ==
    /\ worker[w].step = "enqueue"
    /\ IF \A a \in worker[w].due : account[a].present
       THEN /\ Insert(worker[w].free)
            /\ account' = [a \in Accounts |->
                             IF a \in worker[w].free
                             THEN [account[a] EXCEPT !.next = "later"]
                             ELSE account[a]]
            /\ worker' = [worker EXCEPT ![w] =
                           [step |-> "claim", due |-> @.due, free |-> {}, scan |-> NoScan]]
       ELSE /\ worker' = [worker EXCEPT ![w] = Down]
            /\ UNCHANGED <<account, scan>>
    /\ UNCHANGED <<run, request, lost, crashes>>

(* Its commit. An account deleted meanwhile is an error, which ends the     *)
(* process. next_scan_at alone is written, whatever else has changed.       *)
Enqueue(w) ==
    /\ worker[w].step = "enqueue"
    /\ IF \A a \in worker[w].due : account[a].present
       THEN /\ Insert(worker[w].free)
            /\ account' = [a \in Accounts |->
                             IF a \in worker[w].due
                             THEN [account[a] EXCEPT !.next = "later"]
                             ELSE account[a]]
            /\ worker' = [worker EXCEPT ![w] =
                           [step |-> "claim", due |-> @.due, free |-> {}, scan |-> NoScan]]
       ELSE /\ worker' = [worker EXCEPT ![w] = Down]
            /\ UNCHANGED <<account, scan>>
    /\ UNCHANGED <<run, request, lost, crashes>>

(* Mutant: scans are executed one at a time. *)
MutantOldestAlone(s) ==
    /\ \A t \in Scans : scan[t].state # "running"
    /\ s \in Pending /\ \A t \in Pending : s <= t

Oldest(s) == s \in Pending /\ \A t \in Pending : s <= t

(* claim_scan. The session may still hold the account as the scheduler read *)
(* it, enabled, when an operator has disabled it since.                     *)
ClaimScan(w, s) ==
    /\ worker[w].step = "claim"
    /\ Oldest(s)
    /\ account[scan[s].account].enabled \/ scan[s].account \in worker[w].due
    /\ scan' = [scan EXCEPT ![s].state = "running"]
    /\ run' = [run EXCEPT ![s] = "RUNNING"]
    /\ worker' = [worker EXCEPT ![w] = 
                    [step |-> "collect", due |-> {}, free |-> {}, scan |-> s]]
    /\ UNCHANGED <<account, request, lost, crashes>>

(* A disabled account, or a configuration the executor refuses: the scan    *)
(* fails before it has a run.                                               *)
RefuseScan(w, s) ==
    /\ worker[w].step = "claim"
    /\ Oldest(s)
    /\ scan' = [scan EXCEPT ![s].state = "failed"]
    /\ worker' = [worker EXCEPT ![w] = Idle]
    /\ UNCHANGED <<account, run, request, lost, crashes>>

NothingToClaim(w) ==
    /\ worker[w].step = "claim"
    /\ Pending = {}
    /\ worker' = [worker EXCEPT ![w] = Idle]
    /\ UNCHANGED <<account, scan, run, request, lost, crashes>>

(* Mutant: only the run is written. *)
MutantPersist(w) ==
    /\ worker[w].step = "collect"
    /\ scan[worker[w].scan].state # "deleted"
    /\ run' = [run EXCEPT ![worker[w].scan] = "SUCCESS"]
    /\ worker' = [worker EXCEPT ![w].step = "report"]
    /\ UNCHANGED <<account, scan, request, lost, crashes>>

(* execute_scan commits: the scan, its run and its findings together.       *)
Persist(w) ==
    /\ worker[w].step = "collect"
    /\ scan[worker[w].scan].state # "deleted"
    /\ scan' = [scan EXCEPT ![worker[w].scan].state = "completed"]
    /\ run' = [run EXCEPT ![worker[w].scan] = "SUCCESS"]
    /\ worker' = [worker EXCEPT ![w].step = "report"]
    /\ UNCHANGED <<account, request, lost, crashes>>

(* process_once reads the scan and the run again, to log them.              *)
Report(w) ==
    /\ worker[w].step = "report"
    /\ worker' = [worker EXCEPT ![w] = Idle]
    /\ UNCHANGED <<account, scan, run, request, lost, crashes>>

(* Mutant: the run is left as it is. *)
MutantFailScan(w) ==
    /\ worker[w].step \in {"collect", "report"}
    /\ IF scan[worker[w].scan].state = "deleted"
       THEN UNCHANGED <<scan, run>>
       ELSE /\ scan' = [scan EXCEPT ![worker[w].scan].state = "failed"]
            /\ UNCHANGED run
    /\ worker' = [worker EXCEPT ![w] = Idle]
    /\ UNCHANGED <<account, request, lost, crashes>>

(* fail_scan, for an error of the collection, of its persistence or of its  *)
(* report. A deleted scan is not found, and its run is left as it is.       *)
FailScan(w) ==
    /\ worker[w].step \in {"collect", "report"}
    /\ IF scan[worker[w].scan].state = "deleted"
       THEN UNCHANGED <<scan, run>>
       ELSE /\ scan' = [scan EXCEPT ![worker[w].scan].state = "failed"]
            /\ run' = [run EXCEPT ![worker[w].scan] = "FAILED"]
    /\ worker' = [worker EXCEPT ![w] = Idle]
    /\ UNCHANGED <<account, request, lost, crashes>>

Crash(w) ==
    /\ worker[w].step # "down"
    /\ crashes < MaxCrashes
    /\ crashes' = crashes + 1
    /\ lost' = IF worker[w].step = "collect" THEN lost \cup {worker[w].scan} ELSE lost
    /\ worker' = [worker EXCEPT ![w] = Down]
    /\ UNCHANGED <<account, scan, run, request>>

Restart(w) ==
    /\ worker[w].step = "down"
    /\ worker' = [worker EXCEPT ![w] = Idle]
    /\ UNCHANGED <<account, scan, run, request, lost, crashes>>

-----------------------------------------------------------------------------
Operate ==
    \E a \in Accounts :
        \/ Enable(a) \/ Disable(a) \/ Delete(a)
        \/ ScheduleOn(a) \/ ScheduleOff(a) \/ ChangeInterval(a)

Request ==
    \E q \in Requests : InsertRequest(q) \/ \E a \in Accounts : CheckRequest(q, a)

Claim(w) ==
    NothingToClaim(w) \/ \E s \in Scans : ClaimScan(w, s) \/ RefuseScan(w, s)

(* What a worker does next, whatever its errors.                            *)
Work(w) ==
    \/ LookForDue(w) \/ Enqueue(w) \/ Claim(w)
    \/ Persist(w) \/ Report(w) \/ FailScan(w) \/ Restart(w)

Next ==
    \/ Operate
    \/ Request
    \/ \E w \in Workers : Work(w) \/ Crash(w)
    \/ \E a \in Accounts : TimePasses(a)

Spec == Init /\ [][Next]_vars

(* A worker loops for ever, its provider calls time out, and the container  *)
(* is restarted: each worker's own steps are fair, nothing else is.         *)
FairSpec == Spec /\ \A w \in Workers : WF_vars(Work(w))

-----------------------------------------------------------------------------
(* Type invariant. *)
TypeOK ==
    /\ account \in [Accounts -> AccountRow]
    /\ scan \in [Scans -> ScanRow]
    /\ run \in [Scans -> RunStates]
    /\ worker \in [Workers -> WorkerRow]
    /\ request \in [Requests -> Accounts \cup {NoAccount}]
    /\ lost \in SUBSET Scans
    /\ crashes \in 0..MaxCrashes

(* A scan is executed by one worker, once: whoever is collecting holds a    *)
(* running scan, unless it was deleted, and nobody else holds or lost it.   *)
HeldOnce ==
    \A w \in Workers : worker[w].step = "collect" =>
        /\ scan[worker[w].scan].state \in {"running", "deleted"}
        /\ worker[w].scan \notin lost
        /\ \A v \in Workers \ {w} : worker[v].scan # worker[w].scan

(* A scan and its run tell the same story at every commit, and a run that   *)
(* is RUNNING is in the hands of a worker, or was left by a worker that     *)
(* died or by the deletion of its account.                                  *)
RunFollowsScan ==
    \A s \in Scans :
        /\ scan[s].state \in {"none", "pending"} => run[s] = "none"
        /\ scan[s].state = "running" <=> run[s] = "RUNNING" /\ scan[s].state # "deleted"
        /\ scan[s].state = "completed" => run[s] = "SUCCESS"
        /\ scan[s].state = "failed" => run[s] \in {"none", "FAILED"}
        /\ run[s] = "RUNNING" => \/ s \in lost
                                 \/ scan[s].state = "deleted"
                                 \/ \E w \in Workers : /\ worker[w].step = "collect"
                                                       /\ worker[w].scan = s

(* The check-then-insert race is bounded by those who can be between the    *)
(* two at once: over all interleavings and crashes an account has at most   *)
(* as many active scans as there are workers and requests.                  *)
BoundedDuplicates ==
    \A a \in Accounts :
        Cardinality(Active(a)) + Cardinality(Enqueuers(a)) <=
            Cardinality(Workers) + Cardinality(Requests)

(* The life of scans and runs as ScanContract has it.                       *)
ScanLife == INSTANCE ScanContract WITH
    life <- [s \in Scans |-> scan[s].state], owner <- [s \in Scans |-> scan[s].account]

ImplementsScanLife == ScanLife!Spec

(* task 23.17: the queue prevents two pending or running scans of one       *)
(* account at a time.                                                       *)
OneActive == \A a \in Accounts : Cardinality(Active(a)) <= 1

(* Every pending scan is claimed, refused or deleted, whichever workers die *)
(* and whatever scans they leave running; and one that runs ends, unless its *)
(* worker dies.                                                             *)
ScansEnd ==
    \A s \in Scans :
       /\ scan[s].state = "pending" ~> scan[s].state # "pending"
       /\ scan[s].state = "running" ~> scan[s].state # "running" \/ s \in lost

(* A due account is not forgotten: its schedule advances, which happens     *)
(* only with a scan inserted or found active, or it is no longer due.       *)
DueIsServed ==
    \A a \in Accounts : a \in Due ~> a \notin Due

=============================================================================
