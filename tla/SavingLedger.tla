------------------------------ MODULE SavingLedger ------------------------------
(***************************************************************************)
(* What a treatment earns. Collections observe opportunities and estimate  *)
(* their savings (worker.py); an operator who treats one has the saving    *)
(* recognised in an append-only ledger (opportunity_lifecycle.py,          *)
(* opportunity_saving_recognition.py, finops_ledger.py), where entries are *)
(* also made and reversed by hand; old observations are cleaned up         *)
(* (retention.py). An operator's request locks the opportunity's row, as   *)
(* the persistence of a run does, and is atomic at its commit; but a run   *)
(* reads the time of its observations before it waits for the rows.        *)
(***************************************************************************)
EXTENDS Integers, FiniteSets, Sequences, FiniteSetsExt

CONSTANTS
    Findings,
    MaxRuns,        \* bound on collection runs, for model checking
    MaxEvents,      \* bound on the decisions on one finding, for model checking
    MaxTime,        \* bound on the clock, for model checking
    Requests,       \* manual_entry_request_ids
    Amounts         \* amounts that can be credited

ASSUME LedgerAssumption ==
    /\ MaxRuns \in Nat /\ MaxEvents \in Nat /\ MaxTime \in Nat
    /\ Amounts \subseteq Nat \ {0}
    /\ IsFiniteSet(Findings) /\ Findings \cap Requests = {}

VARIABLES
    now,
    status,     \* status[f]: the human status of the Finding
    estimate,   \* estimate[f]: the savings in the Finding's own row, and the
                \* observation it was last seen in
    history,    \* history[f]: its OpportunityStatusHistory, oldest first
    obs,        \* the OpportunityObservation rows
    done,       \* the runs that are committed, numbered by started_at
    hasAccount, \* the CloudAccount of the findings exists
    ledger      \* the FinOpsLedgerEntry rows

vars == <<now, status, estimate, history, obs, done, hasAccount, ledger>>

Runs == 1..MaxRuns
Time == 0..MaxTime
Nothing == 0                         \* no amount, one not above zero, or no currency
Estimates == Amounts \cup {Nothing}
NoRun == 0
Before == -1                         \* earlier than every observation
ByHand == 0

Statuses == {"open", "treated", "rejected"}
Decision == [action : {"treat", "reject", "reopen"}, from : Statuses, at : Time]
OwnEstimate == [saving : Estimates, at : Time \cup {Before}, run : Runs \cup {NoRun}]
Observation == [finding : Findings, run : Runs, at : Time, saving : Estimates]

(* An entry is known by its idempotency key: the treatment event <<f, n>>   *)
(* or the manual request <<q, 0>> it is made for, or the entry it reverses. *)
Keys == (Findings \X (1..MaxEvents)) \cup (Requests \X {ByHand})
Entry == [key : Keys, reversal : BOOLEAN,
          source : {"OPPORTUNITY", "MANUAL", "SYSTEM"},
          type : {"SAVING", "REALLOCATION", "ADJUSTMENT"},
          direction : {"CREDIT", "DEBIT"},
          amount : Amounts, basis : Runs \cup {NoRun},
          seen : Time \cup {Before}]     \* when the basis was observed

(* A finding treated before decisions were recorded has no history.         *)
Init ==
    /\ now = 0
    /\ status \in [Findings -> {"open", "treated"}]
    /\ estimate \in [Findings -> [saving : Estimates, at : {Before}, run : {NoRun}]]
    /\ history = [f \in Findings |-> <<>>]
    /\ obs = {}
    /\ done = {}
    /\ hasAccount = TRUE
    /\ ledger = {}

Tick ==
    /\ now < MaxTime
    /\ now' = now + 1
    /\ UNCHANGED <<status, estimate, history, obs, done, hasAccount, ledger>>

-----------------------------------------------------------------------------
(* Collections. *)

ObsOf(f) == {o \in obs : o.finding = f}

(* Run r commits what it saw, as of a time read before the rows were        *)
(* locked. A finding's own row takes the estimate only when it was not last *)
(* seen later, or by a later run at the same time.                          *)
Persist(r, at, saw) ==
    /\ r \notin done
    /\ at <= now
    /\ done' = done \cup {r}
    /\ obs' = obs \cup {[finding |-> f, run |-> r, at |-> at, saving |-> saw[f]] :
                           f \in DOMAIN saw}
    /\ estimate' = [f \in Findings |->
                      IF /\ f \in DOMAIN saw
                         /\ \/ estimate[f].at < at
                            \/ estimate[f].at = at /\ estimate[f].run <= r
                      THEN [saving |-> saw[f], at |-> at, run |-> r]
                      ELSE estimate[f]]
    /\ UNCHANGED <<now, status, history, hasAccount, ledger>>

(* The two most recent runs of the account are protected.                   *)
Deletable(o, cutoff) ==
    /\ o.at < cutoff
    /\ Cardinality({r \in done : r > o.run}) >= 2

(* cleanup_observations deletes in batches, oldest first, up to a number of *)
(* rows, or until a batch fails; runs the dashboards refer to are spared.   *)
Cleanup(D, cutoff) ==
    /\ cutoff <= now
    /\ D # {} /\ D \subseteq {o \in obs : Deletable(o, cutoff)}
    /\ obs' = obs \ D
    /\ UNCHANGED <<now, status, estimate, history, done, hasAccount, ledger>>

-----------------------------------------------------------------------------
(* Decisions. *)

Add(f, decision) == [history EXCEPT ![f] = Append(@, decision)]

Decisions(f) == {history[f][n] : n \in DOMAIN history[f]}

(* The latest observation, of several at one time any; without one, the     *)
(* finding's own row.                                                       *)
Evidence(f) ==
    LET mine == ObsOf(f)
    IN  IF mine = {}
        THEN {[at |-> Before, saving |-> estimate[f].saving, run |-> NoRun]}
        ELSE {[at |-> o.at, saving |-> o.saving, run |-> o.run] :
                o \in {p \in mine : \A q \in mine : q.at <= p.at}}

(* When the finding was treated before; if it was so before decisions were  *)
(* recorded, when it was reopened.                                          *)
Baseline(f) ==
    LET treated == {d \in Decisions(f) : d.action = "treat"}
        reopened == {d \in Decisions(f) : d.action = "reopen" /\ d.from = "treated"}
    IN  {d.at : d \in IF treated # {} THEN treated ELSE reopened}

(* Mutant: an observation made when the finding was treated is new. *)
MutantIsNew(f, e) ==
    \/ Baseline(f) = {}
    \/ e.run # NoRun /\ \A t \in Baseline(f) : e.at >= t

(* recognize_many: there is a new financial event.                          *)
IsNew(f, e) ==
    \/ Baseline(f) = {}
    \/ e.run # NoRun /\ \A t \in Baseline(f) : e.at > t

Due(f, e) == IsNew(f, e) /\ e.saving # Nothing

Credit(f, e) ==
    [key |-> <<f, Len(history[f]) + 1>>, reversal |-> FALSE, source |-> "OPPORTUNITY",
     type |-> "SAVING", direction |-> "CREDIT", amount |-> e.saving,
     basis |-> e.run, seen |-> e.at]

(* Mutant: a credit that cannot be made is left out. *)
MutantTreat(F, ev) ==
    /\ \A f \in F : ev[f] \in Evidence(f)
    /\ \A f \in F : status[f] = "open" /\ Len(history[f]) < MaxEvents
    /\ LET due == IF hasAccount THEN {f \in F : Due(f, ev[f])} ELSE {}
       IN  ledger' = ledger \cup {Credit(f, ev[f]) : f \in due}
    /\ status' = [f \in Findings |-> IF f \in F THEN "treated" ELSE status[f]]
    /\ history' = [f \in Findings |->
                     IF f \in F
                     THEN Append(history[f], [action |-> "treat", from |-> "open", at |-> now])
                     ELSE history[f]]
    /\ UNCHANGED <<now, estimate, obs, done, hasAccount>>

(* treat and bulk_transition: all of F, or none when one of them is not     *)
(* open or its saving cannot be credited.                                   *)
Treat(F, ev) ==
    /\ \A f \in F : ev[f] \in Evidence(f)
    /\ \A f \in F : status[f] = "open" /\ Len(history[f]) < MaxEvents
    /\ LET due == {f \in F : Due(f, ev[f])}
       IN  /\ due # {} => hasAccount
           /\ ledger' = ledger \cup {Credit(f, ev[f]) : f \in due}
    /\ status' = [f \in Findings |-> IF f \in F THEN "treated" ELSE status[f]]
    /\ history' = [f \in Findings |->
                     IF f \in F
                     THEN Append(history[f], [action |-> "treat", from |-> "open", at |-> now])
                     ELSE history[f]]
    /\ UNCHANGED <<now, estimate, obs, done, hasAccount>>

Reject(f) ==
    /\ status[f] = "open" /\ Len(history[f]) < MaxEvents
    /\ status' = [status EXCEPT ![f] = "rejected"]
    /\ history' = Add(f, [action |-> "reject", from |-> "open", at |-> now])
    /\ UNCHANGED <<now, estimate, obs, done, hasAccount, ledger>>

Reopen(f) ==
    /\ status[f] # "open" /\ Len(history[f]) < MaxEvents
    /\ status' = [status EXCEPT ![f] = "open"]
    /\ history' = Add(f, [action |-> "reopen", from |-> status[f], at |-> now])
    /\ UNCHANGED <<now, estimate, obs, done, hasAccount, ledger>>

-----------------------------------------------------------------------------
(* Entries made by hand, and reversals. *)

(* create_manual_entry: a request that is repeated finds its entry.         *)
ManualEntry(q, type, direction, amount) ==
    /\ hasAccount
    /\ type = "SAVING" => direction = "CREDIT"
    /\ type = "REALLOCATION" => direction = "DEBIT"
    /\ \A e \in ledger : e.key # <<q, ByHand>>
    /\ ledger' = ledger \cup
         {[key |-> <<q, ByHand>>, reversal |-> FALSE, source |-> "MANUAL", type |-> type,
           direction |-> direction, amount |-> amount, basis |-> NoRun, seen |-> Before]}
    /\ UNCHANGED <<now, status, estimate, history, obs, done, hasAccount>>

Opposite(direction) == IF direction = "CREDIT" THEN "DEBIT" ELSE "CREDIT"

Reversed(e) == \E x \in ledger : x.reversal /\ x.key = e.key

(* Mutant: the reversal repeats the direction of a debit. *)
MutantReversalOf(e) ==
    [key |-> e.key, reversal |-> TRUE, source |-> "SYSTEM", type |-> "ADJUSTMENT",
     direction |-> "DEBIT", amount |-> e.amount,
     basis |-> NoRun, seen |-> Before]

ReversalOf(e) ==
    [key |-> e.key, reversal |-> TRUE, source |-> "SYSTEM", type |-> "ADJUSTMENT",
     direction |-> Opposite(e.direction), amount |-> e.amount,
     basis |-> NoRun, seen |-> Before]

(* reverse_entry holds the row of the entry, and refuses reversals.         *)
Reverse(e) ==
    /\ e \in ledger
    /\ ~e.reversal /\ ~Reversed(e)
    /\ ledger' = ledger \cup {ReversalOf(e)}
    /\ UNCHANGED <<now, status, estimate, history, obs, done, hasAccount>>

(* delete_cloud_account, which the entries of the account forbid.           *)
DeleteAccount ==
    /\ hasAccount
    /\ ledger = {}
    /\ hasAccount' = FALSE
    /\ UNCHANGED <<now, status, estimate, history, obs, done, ledger>>

-----------------------------------------------------------------------------
(* What the ledger adds up to. *)

Signed(e) == IF e.direction = "CREDIT" THEN e.amount ELSE -e.amount

Total(S) == MapThenSumSet(Signed, S)

(* calculate_balances, over all periods.                                    *)
Balance == Total(ledger)

(* FinOpsFlowAnalyticsService: a reversal counts as the type of the entry   *)
(* it reverses.                                                             *)
LogicalType(e) ==
    IF e.reversal THEN (CHOOSE x \in ledger : ~x.reversal /\ x.key = e.key).type ELSE e.type

NetOf(type) == Total({e \in ledger : LogicalType(e) = type})

-----------------------------------------------------------------------------
Collect ==
    \/ \E r \in Runs, at \in Time :
         \E F \in SUBSET Findings : \E saw \in [F -> Estimates] : Persist(r, at, saw)
    \/ \E cutoff \in Time : \E D \in SUBSET obs : Cleanup(D, cutoff)

Decide ==
    \/ \E F \in SUBSET Findings \ {{}} :
         \E ev \in [F -> UNION {Evidence(f) : f \in F}] : Treat(F, ev)
    \/ \E f \in Findings : Reject(f) \/ Reopen(f)

Keep ==
    \/ \E q \in Requests, type \in {"SAVING", "REALLOCATION", "ADJUSTMENT"},
          direction \in {"CREDIT", "DEBIT"}, amount \in Amounts :
            ManualEntry(q, type, direction, amount)
    \/ \E e \in ledger : Reverse(e)
    \/ DeleteAccount

Next == Tick \/ Collect \/ Decide \/ Keep

Spec == Init /\ [][Next]_vars

-----------------------------------------------------------------------------
(* Type invariant. *)
TypeOK ==
    /\ now \in Time
    /\ status \in [Findings -> Statuses]
    /\ estimate \in [Findings -> OwnEstimate]
    /\ history \in [Findings -> Seq(Decision)]
    /\ obs \subseteq Observation
    /\ done \subseteq Runs
    /\ hasAccount \in BOOLEAN
    /\ ledger \subseteq Entry

(* A saving credited to a finding that had been treated before rests on an  *)
(* observation made after that treatment (for one treated before decisions  *)
(* were recorded, after its reopening), however late the observation was    *)
(* committed and whatever was cleaned up in between; no two credits of a    *)
(* finding share their evidence (recognize_many).                           *)
CreditsNewEvidence ==
    \A e \in ledger : e.source = "OPPORTUNITY" =>
        LET f == e.key[1]
            past == SubSeq(history[f], 1, e.key[2] - 1)
        IN  \A n \in DOMAIN past :
              /\ past[n].action = "treat" => e.seen > past[n].at
              /\ past[n].action = "reopen" /\ past[n].from = "treated" =>
                   e.seen > past[n].at \/ \E m \in 1..n-1 : past[m].action = "treat"
              /\ \A d \in ledger : d.key = <<f, n>> /\ ~d.reversal => d.basis # e.basis

(* Each key has one entry and at most one reversal, its exact opposite: an  *)
(* entry reversed is worth nothing, and cannot come back by a repeated      *)
(* request (create_entry, reverse_entry).                                   *)
OneEntryPerKey ==
    \A e \in ledger :
        /\ \A d \in ledger : d.key = e.key /\ d.reversal = e.reversal => d = e
        /\ e.reversal => \E d \in ledger : ~d.reversal /\ e = ReversalOf(d)

(* The balance is that of the entries that stand, and so is what the        *)
(* dashboards call recognised, reused and adjusted.                         *)
BalanceIsStanding ==
    LET standing == {e \in ledger : ~e.reversal /\ ~Reversed(e)}
    IN  /\ Balance = Total(standing)
        /\ \A type \in {"SAVING", "REALLOCATION", "ADJUSTMENT"} :
             NetOf(type) = Total({e \in standing : e.type = type})

(* Treatment and credit are one: a finding whose evidence is due is not     *)
(* treated without its entry, in bulk or when its account is gone.          *)
TreatedIsCredited ==
    [][\A f \in Findings :
         /\ status[f] = "open" /\ status'[f] = "treated"
         /\ \A e \in Evidence(f) : Due(f, e)
         => \E e \in ledger' : e.key = <<f, Len(history[f]) + 1>> /\ ~e.reversal]_vars

(* The book of LedgerContract: an entry is in it with what it is worth, and *)
(* its reversal only undoes it.                                             *)
Book == INSTANCE LedgerContract WITH
    decided <- [f \in Findings |-> Len(history[f])],
    book <- {[key |-> e.key, worth |-> Signed(e)] : e \in {x \in ledger : ~x.reversal}},
    undone <- {e.key : e \in {x \in ledger : x.reversal}}

ImplementsBook == Book!Spec

=============================================================================
