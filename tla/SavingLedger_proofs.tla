--------------------------- MODULE SavingLedger_proofs ---------------------------
(***************************************************************************)
(* Proofs about SavingLedger: a key has one entry and one reversal, a      *)
(* saving credited after a treatment rests on evidence gathered since, and *)
(* the balance is that of the entries that stand, for any number of        *)
(* findings, runs, decisions and requests.                                 *)
(***************************************************************************)
EXTENDS SavingLedger, Sums

CreditKeys == Findings \X (1..MaxEvents)
ManualKeys == Requests \X {ByHand}

(* The key of a credit is not that of a request: the model tells apart the  *)
(* two unique columns, recognition's key and manual_entry_request_id.       *)
LEMMA KeysApart == CreditKeys \cap ManualKeys = {}
BY LedgerAssumption DEF CreditKeys, ManualKeys, ByHand

(* A decision lengthens a history by one, and leaves what it holds.         *)
LEMMA AppendDecision ==
    ASSUME NEW h \in Seq(Decision), NEW d \in Decision
    PROVE  /\ Append(h, d) \in Seq(Decision)
           /\ Len(Append(h, d)) = Len(h) + 1
           /\ DOMAIN Append(h, d) = 1..(Len(h) + 1)
           /\ DOMAIN h = 1..Len(h)
           /\ \A n \in 1..Len(h) : Append(h, d)[n] = h[n]
           /\ Append(h, d)[Len(h) + 1] = d
OBVIOUS

(* The decisions before the k-th, which SubSeq keeps with their numbers.     *)
LEMMA EarlierDecisions ==
    ASSUME NEW h \in Seq(Decision), NEW n \in Nat, n <= Len(h)
    PROVE  /\ DOMAIN SubSeq(h, 1, n) = 1..n
           /\ \A m \in 1..n : SubSeq(h, 1, n)[m] = h[m]
OBVIOUS

(* What recognition reads is the finding's own row or one of its            *)
(* observations (_latest_observations).                                     *)
LEMMA EvidenceType ==
    ASSUME TypeOK, NEW f \in Findings, NEW e \in Evidence(f)
    PROVE  /\ e.saving \in Estimates /\ e.at \in Time \cup {Before}
           /\ e.run \in Runs \cup {NoRun}
           /\ \/ e.run = NoRun /\ e.at = Before
              \/ \E o \in obs : o.finding = f /\ o.run = e.run /\ o.at = e.at
<1>1. CASE ObsOf(f) = {}
  <2>1. e = [at |-> Before, saving |-> estimate[f].saving, run |-> NoRun]
    BY <1>1 DEF Evidence
  <2>2. estimate[f] \in OwnEstimate
    BY DEF TypeOK
  <2>3. QED
    BY <2>1, <2>2 DEF OwnEstimate
<1>2. CASE ObsOf(f) # {}
  <2>1. PICK o \in ObsOf(f) : e = [at |-> o.at, saving |-> o.saving, run |-> o.run]
    BY <1>2 DEF Evidence
  <2>2. o \in obs /\ o.finding = f /\ o \in Observation
    BY <2>1 DEF ObsOf, TypeOK
  <2>3. QED
    BY <2>1, <2>2 DEF Observation
<1>3. QED
  BY <1>1, <1>2

(* Some findings are treated, each on evidence of its own.                  *)
TreatsSome ==
    \E F \in SUBSET Findings :
        \E ev \in [F -> UNION {Evidence(f) : f \in F}] :
            (\A f \in F : ev[f] \in Evidence(f)) /\ Treat(F, ev)

(* What treating F adds to the ledger (recognize_many).                     *)
LEMMA CreditType ==
    ASSUME TypeOK, NEW f \in Findings, NEW e \in Evidence(f),
           Due(f, e), Len(history[f]) < MaxEvents
    PROVE  /\ Credit(f, e) \in Entry
           /\ Credit(f, e).key = <<f, Len(history[f]) + 1>>
           /\ Credit(f, e).key \in CreditKeys
           /\ ~Credit(f, e).reversal /\ Credit(f, e).source = "OPPORTUNITY"
           /\ Credit(f, e).basis = e.run /\ Credit(f, e).seen = e.at
<1>1. e.saving \in Amounts
  BY EvidenceType DEF Due, Estimates
<1>2. Len(history[f]) + 1 \in 1..MaxEvents
  BY LedgerAssumption DEF TypeOK
<1>3. QED
  BY <1>1, <1>2, EvidenceType DEF Credit, Entry, Keys, CreditKeys

-----------------------------------------------------------------------------
(* Every state is of its type, whatever the interleaving of collections,    *)
(* decisions and entries (worker.py, opportunity_lifecycle.py,              *)
(* finops_ledger.py).                                                       *)
LEMMA InitType == Init => TypeOK
<1> SUFFICES ASSUME Init PROVE TypeOK
  OBVIOUS
<1>1. now \in Time
  BY LedgerAssumption DEF Init, Time
<1>2. history \in [Findings -> Seq(Decision)]
  BY DEF Init
<1>3. estimate \in [Findings -> OwnEstimate]
  BY DEF Init, OwnEstimate
<1>4. QED
  BY <1>1, <1>2, <1>3 DEF Init, TypeOK, Statuses

(* Every step keeps the types.                                              *)
LEMMA NextType == TypeOK /\ [Next]_vars => TypeOK'
<1> SUFFICES ASSUME TypeOK, [Next]_vars PROVE TypeOK'
  OBVIOUS
<1>1. CASE Tick
  BY <1>1, LedgerAssumption DEF Tick, TypeOK, Time
<1>2. ASSUME NEW r \in Runs, NEW at \in Time, NEW F \in SUBSET Findings,
             NEW saw \in [F -> Estimates], Persist(r, at, saw)
      PROVE  TypeOK'
  <2>1. obs' \subseteq Observation
    BY <1>2 DEF Persist, Observation, TypeOK
  <2>2. estimate' \in [Findings -> OwnEstimate]
    BY <1>2 DEF Persist, OwnEstimate, TypeOK
  <2>3. done' \subseteq Runs
    BY <1>2 DEF Persist, TypeOK
  <2>4. QED
    BY <1>2, <2>1, <2>2, <2>3 DEF Persist, TypeOK
<1>3. ASSUME NEW cutoff \in Time, NEW D \in SUBSET obs, Cleanup(D, cutoff)
      PROVE  TypeOK'
  BY <1>3 DEF Cleanup, TypeOK
<1>4. CASE TreatsSome
  <2>1. PICK F \in SUBSET Findings :
          \E ev \in [F -> UNION {Evidence(f) : f \in F}] :
            (\A f \in F : ev[f] \in Evidence(f)) /\ Treat(F, ev)
    BY <1>4 DEF TreatsSome
  <2>2. PICK ev \in [F -> UNION {Evidence(f) : f \in F}] :
            (\A f \in F : ev[f] \in Evidence(f)) /\ Treat(F, ev)
    BY <2>1
  <2>3. \A f \in F : Due(f, ev[f]) => Credit(f, ev[f]) \in Entry
    BY <2>2, CreditType DEF Treat
  <2>4. ledger' \subseteq Entry
    BY <2>2, <2>3 DEF Treat, TypeOK
  <2>5. [action |-> "treat", from |-> "open", at |-> now] \in Decision
    BY DEF Decision, Statuses, TypeOK
  <2>6. history' \in [Findings -> Seq(Decision)]
    BY <2>2, <2>5, AppendDecision DEF Treat, TypeOK
  <2>7. status' \in [Findings -> Statuses]
    BY <2>2 DEF Treat, TypeOK, Statuses
  <2>8. QED
    BY <2>2, <2>4, <2>6, <2>7 DEF Treat, TypeOK
<1>5. ASSUME NEW f \in Findings, Reject(f) \/ Reopen(f)
      PROVE  TypeOK'
  <2>1. PICK d \in Decision : history' = [history EXCEPT ![f] = Append(@, d)]
    <3>1. /\ [action |-> "reject", from |-> "open", at |-> now] \in Decision
          /\ [action |-> "reopen", from |-> status[f], at |-> now] \in Decision
      BY DEF Decision, Statuses, TypeOK
    <3>2. QED
      BY <1>5, <3>1 DEF Reject, Reopen, Add
  <2>2. history' \in [Findings -> Seq(Decision)]
    BY <2>1, AppendDecision DEF TypeOK
  <2>3. status' \in [Findings -> Statuses]
    BY <1>5 DEF Reject, Reopen, TypeOK, Statuses
  <2>4. QED
    BY <1>5, <2>2, <2>3 DEF Reject, Reopen, TypeOK
<1>6. ASSUME NEW q \in Requests, NEW type \in {"SAVING", "REALLOCATION", "ADJUSTMENT"},
             NEW direction \in {"CREDIT", "DEBIT"}, NEW amount \in Amounts,
             ManualEntry(q, type, direction, amount)
      PROVE  TypeOK'
  <2>1. <<q, ByHand>> \in Keys
    BY DEF Keys
  <2>2. [key |-> <<q, ByHand>>, reversal |-> FALSE, source |-> "MANUAL", type |-> type,
         direction |-> direction, amount |-> amount, basis |-> NoRun,
         seen |-> Before] \in Entry
    BY <2>1 DEF Entry
  <2>3. ledger' \subseteq Entry
    BY <1>6, <2>2 DEF ManualEntry, TypeOK
  <2>4. QED
    BY <1>6, <2>3 DEF ManualEntry, TypeOK
<1>7. ASSUME NEW e \in ledger, Reverse(e)
      PROVE  TypeOK'
  <2>1. ReversalOf(e) \in Entry
    BY DEF ReversalOf, Opposite, Entry, TypeOK
  <2>2. QED
    BY <1>7, <2>1 DEF Reverse, TypeOK
<1>8. CASE DeleteAccount
  BY <1>8 DEF DeleteAccount, TypeOK
<1>9. CASE UNCHANGED vars
  BY <1>9 DEF vars, TypeOK
<1>10. QED
  BY <1>1, <1>2, <1>3, <1>4, <1>5, <1>6, <1>7, <1>8, <1>9
     DEF Next, Collect, Decide, Keep, TreatsSome, Treat

(* The ledger, the histories and the observations are of their types in     *)
(* every reachable state, for any bounds (worker.py,                        *)
(* opportunity_lifecycle.py, finops_ledger.py).                             *)
THEOREM TypeCorrect == Spec => []TypeOK
BY InitType, NextType, PTL DEF Spec

-----------------------------------------------------------------------------
(* What an entry of the ledger says of the rest of the state.               *)

(* The event a credit's key names.                                          *)
Event(k) == history[k[1]][k[2]]

(* A credit is for a treatment that is recorded, and so is its reversal.    *)
Recorded ==
    \A e \in ledger : e.key \in CreditKeys =>
        /\ e.key[2] \in DOMAIN history[e.key[1]]
        /\ Event(e.key).action = "treat"

Credits == {e \in ledger : e.source = "OPPORTUNITY"}

Sources ==
    /\ \A e \in Credits : e.key \in CreditKeys /\ ~e.reversal
    /\ \A e \in ledger : e.key \in CreditKeys /\ ~e.reversal => e \in Credits

KeyInv == TypeOK /\ Recorded /\ Sources /\ OneEntryPerKey

(* How a step changes the history of findings and the ledger.               *)

Lengthens ==
    \A f \in Findings :
        /\ DOMAIN history[f] \subseteq DOMAIN history'[f]
        /\ \A n \in DOMAIN history[f] : history'[f][n] = history[f][n]

Dates ==
    \A f \in Findings :
        \/ history'[f] = history[f]
        \/ \E d \in Decision : d.at = now /\ history'[f] = Append(history[f], d)

(* A step that decides adds to the histories, and leaves what they hold.    *)
LEMMA DatesLengthen == TypeOK /\ Dates => Lengthens
<1> SUFFICES ASSUME TypeOK, Dates, NEW f \in Findings
             PROVE  /\ DOMAIN history[f] \subseteq DOMAIN history'[f]
                    /\ \A n \in DOMAIN history[f] : history'[f][n] = history[f][n]
  BY DEF Lengthens
<1>1. history[f] \in Seq(Decision)
  BY DEF TypeOK
<1>2. QED
  BY <1>1, AppendDecision DEF Dates

(* Every step only adds to the histories and to the ledger: a decision its  *)
(* event, a treatment its credits, a request its entry, a reversal the      *)
(* opposite of an entry.                                                    *)
LEMMA StepAdds ==
    ASSUME TypeOK, [Next]_vars
    PROVE  /\ Dates
           /\ \/ ledger' = ledger
              \/ TreatsSome
              \/ \E q \in Requests, type \in {"SAVING", "REALLOCATION", "ADJUSTMENT"},
                    direction \in {"CREDIT", "DEBIT"}, amount \in Amounts :
                    ManualEntry(q, type, direction, amount)
              \/ \E e \in ledger : Reverse(e)
<1>1. history' = history => Dates
  BY DEF Dates
<1>2. CASE TreatsSome
  <2>1. PICK F \in SUBSET Findings :
          \E ev \in [F -> UNION {Evidence(f) : f \in F}] :
            (\A f \in F : ev[f] \in Evidence(f)) /\ Treat(F, ev)
    BY <1>2 DEF TreatsSome
  <2>2. [action |-> "treat", from |-> "open", at |-> now] \in Decision
    BY DEF Decision, Statuses, TypeOK
  <2>3. ASSUME NEW f \in Findings
        PROVE  \/ history'[f] = history[f]
               \/ history'[f] = Append(history[f],
                                       [action |-> "treat", from |-> "open", at |-> now])
    BY <2>1 DEF Treat
  <2>4. QED
    BY <1>2, <2>2, <2>3 DEF Dates
<1>3. ASSUME NEW f \in Findings, Reject(f) \/ Reopen(f)
      PROVE  Dates /\ ledger' = ledger
  <2>1. PICK d \in Decision : d.at = now /\ history' = [history EXCEPT ![f] = Append(@, d)]
    <3>1. /\ [action |-> "reject", from |-> "open", at |-> now] \in Decision
          /\ [action |-> "reopen", from |-> status[f], at |-> now] \in Decision
      BY DEF Decision, Statuses, TypeOK
    <3>2. QED
      BY <1>3, <3>1 DEF Reject, Reopen, Add
  <2>2. \A g \in Findings : history'[g] = history[g] \/ history'[g] = Append(history[g], d)
    BY <2>1 DEF TypeOK
  <2>3. QED
    BY <1>3, <2>1, <2>2 DEF Dates, Reject, Reopen
<1>4. CASE \/ \E r \in Runs, at \in Time :
                \E F \in SUBSET Findings : \E saw \in [F -> Estimates] : Persist(r, at, saw)
           \/ \E cutoff \in Time : \E D \in SUBSET obs : Cleanup(D, cutoff)
           \/ Tick \/ DeleteAccount \/ UNCHANGED vars
  <2>1. history' = history /\ ledger' = ledger
    BY <1>4 DEF Persist, Cleanup, Tick, DeleteAccount, vars
  <2>2. QED
    BY <1>1, <2>1
<1>5. CASE Keep
  <2>1. history' = history
    BY <1>5 DEF Keep, ManualEntry, Reverse, DeleteAccount
  <2>2. QED
    BY <1>1, <1>4, <1>5, <2>1 DEF Keep
<1>6. QED
  BY <1>2, <1>3, <1>4, <1>5 DEF Next, Collect, Decide, TreatsSome, Treat

(* A reversal is the opposite of its entry, and of one only.                *)
LEMMA ReversalFields ==
    ASSUME NEW e
    PROVE  /\ ReversalOf(e).key = e.key
           /\ ReversalOf(e).reversal = TRUE
           /\ ReversalOf(e).source = "SYSTEM"
BY DEF ReversalOf

(* The credit e that treating f on the evidence b adds, for the new event   *)
(* of its history.                                                          *)
Adds(f, b, e) ==
    /\ Due(f, b) /\ e = Credit(f, b)
    /\ e.key = <<f, Len(history[f]) + 1>> /\ e.key \in CreditKeys
    /\ ~e.reversal /\ e.source = "OPPORTUNITY"
    /\ e.basis = b.run /\ e.seen = b.at
    /\ \A d \in ledger : d.key # e.key
    /\ Len(history[f]) \in Nat /\ DOMAIN history[f] = 1..Len(history[f])
    /\ DOMAIN history'[f] = 1..(Len(history[f]) + 1)
    /\ history'[f][Len(history[f]) + 1]
         = [action |-> "treat", from |-> "open", at |-> now]

(* The credits a treatment adds have keys that no entry has (recognize_many *)
(* numbers them by the event that recognition is for).                      *)
LEMMA TreatAdds ==
    ASSUME TypeOK, Recorded, NEW F \in SUBSET Findings,
           NEW ev \in [F -> UNION {Evidence(f) : f \in F}],
           \A f \in F : ev[f] \in Evidence(f), Treat(F, ev)
    PROVE  \A e \in ledger' \ ledger :
             \E f \in F : Adds(f, ev[f], e)
<1> SUFFICES ASSUME NEW e \in ledger' \ ledger
             PROVE  \E f \in F : Adds(f, ev[f], e)
  OBVIOUS
<1>1. PICK f \in F : Due(f, ev[f]) /\ e = Credit(f, ev[f])
  BY DEF Treat
<1>2. /\ e.key = <<f, Len(history[f]) + 1>> /\ e.key \in CreditKeys
      /\ ~e.reversal /\ e.source = "OPPORTUNITY"
      /\ e.basis = ev[f].run /\ e.seen = ev[f].at
  BY <1>1, CreditType DEF Treat
<1>3. history[f] \in Seq(Decision)
  BY DEF TypeOK
<1>4. DOMAIN history[f] = 1..Len(history[f]) /\ Len(history[f]) \in Nat
  BY <1>3
<1>5. ASSUME NEW d \in ledger PROVE d.key # e.key
  BY <1>2, <1>4 DEF Recorded
<1>6. history'[f] = Append(history[f], [action |-> "treat", from |-> "open", at |-> now])
  BY DEF Treat
<1>7. [action |-> "treat", from |-> "open", at |-> now] \in Decision
  BY DEF Decision, Statuses, TypeOK
<1>8. QED
  BY <1>1, <1>2, <1>3, <1>4, <1>5, <1>6, <1>7, AppendDecision DEF Adds

-----------------------------------------------------------------------------
(* Keys.                                                                    *)

(* An empty ledger has no keys to repeat.                                   *)
LEMMA InitKeys == Init => KeyInv
BY InitType DEF Init, KeyInv, Recorded, Sources, Credits, OneEntryPerKey

(* A step that adds an entry adds one whose key and kind are new.           *)
LEMMA NextKeys == KeyInv /\ [Next]_vars => KeyInv'
<1> SUFFICES ASSUME KeyInv, [Next]_vars PROVE KeyInv'
  OBVIOUS
<1> USE DEF KeyInv
<1>1. TypeOK' /\ Lengthens
  BY NextType, StepAdds, DatesLengthen
<1>2. \A e \in ledger : e.key \in CreditKeys =>
        /\ e.key[2] \in DOMAIN history'[e.key[1]]
        /\ Event(e.key)'.action = "treat"
  BY <1>1 DEF Recorded, Lengthens, CreditKeys, Event
<1>3. CASE ledger' = ledger
  BY <1>1, <1>2, <1>3 DEF Recorded, Sources, Credits, OneEntryPerKey
<1>4. CASE TreatsSome
  <2>1. PICK F \in SUBSET Findings :
          \E ev \in [F -> UNION {Evidence(f) : f \in F}] :
            (\A f \in F : ev[f] \in Evidence(f)) /\ Treat(F, ev)
    BY <1>4 DEF TreatsSome
  <2>2. PICK ev \in [F -> UNION {Evidence(f) : f \in F}] :
            (\A f \in F : ev[f] \in Evidence(f)) /\ Treat(F, ev)
    BY <2>1
  <2>3. ASSUME NEW e \in ledger' \ ledger
        PROVE  /\ e.key \in CreditKeys /\ ~e.reversal /\ e.source = "OPPORTUNITY"
               /\ e.key[2] \in DOMAIN history'[e.key[1]]
               /\ Event(e.key)'.action = "treat"
               /\ \A d \in ledger : d.key # e.key
    <3>1. PICK f \in F : Adds(f, ev[f], e)
      BY <2>2, TreatAdds
    <3>2. e.key[1] = f /\ e.key[2] = Len(history[f]) + 1
      BY <3>1 DEF Adds
    <3>3. QED
      BY <3>1, <3>2 DEF Adds, Event
  <2>4. ASSUME NEW e \in ledger' \ ledger, NEW d \in ledger' \ ledger, d.key = e.key
        PROVE  d = e
    <3>1. PICK f \in F : Adds(f, ev[f], e)
      BY <2>2, TreatAdds
    <3>2. PICK g \in F : Adds(g, ev[g], d)
      BY <2>2, TreatAdds
    <3>3. f = g
      BY <2>4, <3>1, <3>2 DEF Adds
    <3>4. QED
      BY <3>1, <3>2, <3>3 DEF Adds
  <2>5. ledger \subseteq ledger'
    BY <2>2 DEF Treat
  <2>6. Recorded'
    BY <1>2, <2>3 DEF Recorded
  <2>7. Sources'
    BY <2>3 DEF Sources, Credits
  <2>8. OneEntryPerKey'
    BY <2>3, <2>4, <2>5 DEF OneEntryPerKey
  <2>9. QED
    BY <1>1, <2>6, <2>7, <2>8
<1>5. ASSUME NEW q \in Requests, NEW type \in {"SAVING", "REALLOCATION", "ADJUSTMENT"},
             NEW direction \in {"CREDIT", "DEBIT"}, NEW amount \in Amounts,
             ManualEntry(q, type, direction, amount)
      PROVE  KeyInv'
  <2> DEFINE new == [key |-> <<q, ByHand>>, reversal |-> FALSE, source |-> "MANUAL",
                     type |-> type, direction |-> direction, amount |-> amount,
                     basis |-> NoRun, seen |-> Before]
  <2>1. ledger' = ledger \cup {new} /\ \A e \in ledger : e.key # new.key
    BY <1>5 DEF ManualEntry
  <2>2. new.key \notin CreditKeys /\ ~new.reversal /\ new.source = "MANUAL"
    BY KeysApart DEF ManualKeys
  <2> HIDE DEF new
  <2>3. Recorded'
    BY <1>2, <2>1, <2>2 DEF Recorded
  <2>4. Sources'
    BY <2>1, <2>2 DEF Sources, Credits
  <2>5. OneEntryPerKey'
    BY <2>1, <2>2 DEF OneEntryPerKey
  <2>6. QED
    BY <1>1, <2>3, <2>4, <2>5
<1>6. ASSUME NEW x \in ledger, Reverse(x)
      PROVE  KeyInv'
  <2> DEFINE new == ReversalOf(x)
  <2>1. /\ ledger' = ledger \cup {new}
        /\ \A e \in ledger : e.key = new.key => ~e.reversal
    BY <1>6, ReversalFields DEF Reverse, Reversed, TypeOK, Entry
  <2>2. new.key = x.key /\ new.reversal = TRUE /\ new.source = "SYSTEM" /\ ~x.reversal
    BY <1>6, ReversalFields DEF Reverse
  <2>3. new = ReversalOf(x)
    OBVIOUS
  <2> HIDE DEF new
  <2>4. Recorded'
    BY <1>2, <2>1, <2>2 DEF Recorded, Event
  <2>5. Sources'
    BY <2>1, <2>2 DEF Sources, Credits
  <2>6. OneEntryPerKey'
    BY <2>1, <2>2, <2>3 DEF OneEntryPerKey
  <2>7. QED
    BY <1>1, <2>4, <2>5, <2>6
<1>7. QED
  BY <1>3, <1>4, <1>5, <1>6, StepAdds

(* A key has one entry and at most one reversal, its exact opposite, for    *)
(* any number of requests repeated and reversals tried (create_entry,       *)
(* reverse_entry).                                                          *)
THEOREM EntriesUnique == Spec => []OneEntryPerKey
<1>1. KeyInv => OneEntryPerKey
  BY DEF KeyInv
<1>2. QED
  BY <1>1, InitKeys, NextKeys, PTL DEF Spec

-----------------------------------------------------------------------------
(* The book (LedgerContract).                                               *)

(* What the refinement shows of the state. *)
DecidedOn == [f \in Findings |-> Len(history[f])]
InBook == {[key |-> e.key, worth |-> Signed(e)] : e \in {x \in ledger : ~x.reversal}}
UndoneKeys == {e.key : e \in {x \in ledger : x.reversal}}

(* Only decisions, entries and reversals show.                              *)
LEMMA NothingShows ==
    ASSUME history' = history, ledger' = ledger
    PROVE  UNCHANGED Book!vars
BY DEF Book!vars

(* Each decision is counted on the findings it is of.                       *)
LEMMA DecisionsCounted ==
    ASSUME TypeOK, NEW F \in SUBSET Findings, NEW d \in Decision,
           \A f \in Findings :
              history'[f] = IF f \in F THEN Append(history[f], d) ELSE history[f]
    PROVE  DecidedOn' = [f \in Findings |-> IF f \in F THEN DecidedOn[f] + 1 ELSE DecidedOn[f]]
<1>1. \A f \in Findings : history[f] \in Seq(Decision)
  BY DEF TypeOK
<1>2. ASSUME NEW f \in Findings
      PROVE  Len(history'[f]) = IF f \in F THEN Len(history[f]) + 1 ELSE Len(history[f])
  <2>1. Len(Append(history[f], d)) = Len(history[f]) + 1
    BY <1>1, AppendDecision
  <2>2. QED
    BY <2>1
<1>3. QED
  BY <1>2 DEF DecidedOn

(* A treatment writes the savings of its own decisions, which no earlier    *)
(* one has written (treat, recognize_many).                                 *)
LEMMA TreatIsDecide ==
    ASSUME KeyInv, NEW F \in SUBSET Findings,
           NEW ev \in [F -> UNION {Evidence(f) : f \in F}],
           \A f \in F : ev[f] \in Evidence(f), Treat(F, ev)
    PROVE  Book!Decide(F)
<1> USE DEF KeyInv
<1> DEFINE d == [action |-> "treat", from |-> "open", at |-> now]
<1>1. d \in Decision
  BY DEF Decision, Statuses, TypeOK
<1>2. DecidedOn' = [f \in Findings |-> IF f \in F THEN DecidedOn[f] + 1 ELSE DecidedOn[f]]
  <2>1. \A f \in Findings :
          history'[f] = IF f \in F THEN Append(history[f], d) ELSE history[f]
    BY DEF Treat
  <2> HIDE DEF d
  <2>2. QED
    BY <1>1, <2>1, DecisionsCounted
<1>3. ledger \subseteq ledger'
  BY DEF Treat
<1>4. \A e \in ledger' \ ledger : \E f \in F : Adds(f, ev[f], e)
  BY TreatAdds
<1>5. InBook \subseteq InBook' /\ UndoneKeys' = UndoneKeys
  <2>1. \A e \in ledger' \ ledger : ~e.reversal
    BY <1>4 DEF Adds
  <2>2. QED
    BY <1>3, <2>1 DEF InBook, UndoneKeys, Signed
<1>6. ASSUME NEW b \in InBook' \ InBook
      PROVE  \E e \in ledger' \ ledger : b = [key |-> e.key, worth |-> Signed(e)]
  BY <1>6 DEF InBook, Signed
<1>7. ASSUME NEW b \in InBook' \ InBook
      PROVE  /\ b.worth > 0
             /\ \E f \in F : b.key = <<f, DecidedOn'[f]>>
             /\ \A c \in InBook : c.key # b.key
             /\ \A c \in InBook' \ InBook : c.key = b.key => c = b
  <2>1. PICK e \in ledger' \ ledger : b = [key |-> e.key, worth |-> Signed(e)]
    BY <1>6
  <2>2. PICK f \in F : Adds(f, ev[f], e)
    BY <1>4, <2>1
  <2>3. b.worth > 0
    <3>1. ev[f].saving \in Amounts
      BY <2>2, EvidenceType DEF Adds, Due, Estimates
    <3>2. e.direction = "CREDIT" /\ e.amount = ev[f].saving
      BY <2>2 DEF Adds, Credit
    <3>3. Signed(e) > 0
      BY <3>1, <3>2, LedgerAssumption DEF Signed
    <3>4. QED
      BY <2>1, <3>3
  <2>4. b.key = <<f, DecidedOn'[f]>>
    BY <1>2, <2>1, <2>2 DEF Adds, DecidedOn
  <2>5. \A c \in InBook : c.key # b.key
    <3>1. \A x \in ledger : x.key # e.key
      BY <2>2 DEF Adds
    <3>2. b.key = e.key
      BY <2>1
    <3>3. \A c \in InBook : \E x \in ledger : c.key = x.key
      BY DEF InBook
    <3>4. QED
      BY <3>1, <3>2, <3>3
  <2>6. ASSUME NEW c \in InBook' \ InBook, c.key = b.key
        PROVE  c = b
    <3>1. PICK x \in ledger' \ ledger : c = [key |-> x.key, worth |-> Signed(x)]
      BY <1>6
    <3>2. PICK g \in F : Adds(g, ev[g], x)
      BY <1>4, <3>1
    <3>3. x.key = e.key
      BY <2>1, <2>6, <3>1
    <3>4. g = f
      BY <2>2, <3>2, <3>3 DEF Adds
    <3>5. x = e
      BY <2>2, <3>2, <3>4 DEF Adds
    <3>6. QED
      BY <2>1, <3>1, <3>5
  <2>7. QED
    BY <2>3, <2>4, <2>5, <2>6
<1>8. QED
  BY <1>2, <1>5, <1>7 DEF Book!Decide, Book!Written, DecidedOn, InBook, UndoneKeys

(* Every step decides, enters or reverses as the book has it, or does not   *)
(* show in it.                                                              *)
LEMMA BookStep ==
    ASSUME KeyInv, [Next]_vars
    PROVE  [Book!Next]_Book!vars
<1> USE DEF KeyInv
<1>1. CASE TreatsSome
  <2>1. PICK F \in SUBSET Findings :
          \E ev \in [F -> UNION {Evidence(f) : f \in F}] :
            (\A f \in F : ev[f] \in Evidence(f)) /\ Treat(F, ev)
    BY <1>1 DEF TreatsSome
  <2>2. QED
    BY <2>1, TreatIsDecide DEF Book!Next
<1>2. ASSUME NEW f \in Findings, Reject(f) \/ Reopen(f)
      PROVE  Book!Next
  <2>1. PICK d \in Decision : history' = [history EXCEPT ![f] = Append(@, d)]
    <3>1. /\ [action |-> "reject", from |-> "open", at |-> now] \in Decision
          /\ [action |-> "reopen", from |-> status[f], at |-> now] \in Decision
      BY DEF Decision, Statuses, TypeOK
    <3>2. QED
      BY <1>2, <3>1 DEF Reject, Reopen, Add
  <2>2. \A g \in Findings : history'[g] = IF g \in {f} THEN Append(history[g], d) ELSE history[g]
    BY <2>1 DEF TypeOK
  <2>3. DecidedOn' = [g \in Findings |-> IF g \in {f} THEN DecidedOn[g] + 1 ELSE DecidedOn[g]]
    BY <2>2, DecisionsCounted
  <2>4. ledger' = ledger
    BY <1>2 DEF Reject, Reopen
  <2>5. InBook' = InBook /\ UndoneKeys' = UndoneKeys
    BY <2>4 DEF InBook, UndoneKeys
  <2>6. Book!Decide({f})
    BY <2>3, <2>5 DEF Book!Decide, DecidedOn, InBook, UndoneKeys
  <2>7. QED
    BY <2>6 DEF Book!Next
<1>3. ASSUME NEW q \in Requests, NEW type \in {"SAVING", "REALLOCATION", "ADJUSTMENT"},
             NEW direction \in {"CREDIT", "DEBIT"}, NEW amount \in Amounts,
             ManualEntry(q, type, direction, amount)
      PROVE  Book!Next
  <2> DEFINE new == [key |-> <<q, ByHand>>, reversal |-> FALSE, source |-> "MANUAL",
                     type |-> type, direction |-> direction, amount |-> amount,
                     basis |-> NoRun, seen |-> Before]
             b == [key |-> new.key, worth |-> Signed(new)]
  <2>1. /\ ledger' = ledger \cup {new} /\ history' = history
        /\ \A e \in ledger : e.key # new.key
    BY <1>3 DEF ManualEntry
  <2>2. ~new.reversal /\ new.key = <<q, 0>>
    BY DEF ByHand
  <2>3. b.worth # 0
    BY LedgerAssumption DEF Signed
  <2> HIDE DEF new
  <2>4. InBook' = InBook \cup {b} /\ UndoneKeys' = UndoneKeys
    BY <2>1, <2>2 DEF InBook, UndoneKeys, Signed
  <2>5. \A c \in InBook : c.key # <<q, 0>>
    BY <2>1, <2>2 DEF InBook
  <2>6. b.key = <<q, 0>>
    BY <2>2
  <2>7. DecidedOn' = DecidedOn
    BY <2>1 DEF DecidedOn
  <2> HIDE DEF b
  <2>8. Book!Enter(q)
    BY <2>3, <2>4, <2>5, <2>6, <2>7
       DEF Book!Enter, Book!Written, DecidedOn, InBook, UndoneKeys
  <2>9. QED
    BY <2>8 DEF Book!Next
<1>4. ASSUME NEW x \in ledger, Reverse(x)
      PROVE  Book!Next
  <2> DEFINE b == [key |-> x.key, worth |-> Signed(x)]
  <2>1. /\ ledger' = ledger \cup {ReversalOf(x)} /\ history' = history
        /\ ~x.reversal /\ ~Reversed(x)
    BY <1>4 DEF Reverse
  <2>2. InBook' = InBook /\ UndoneKeys' = UndoneKeys \cup {x.key} /\ DecidedOn' = DecidedOn
    BY <2>1, ReversalFields DEF InBook, UndoneKeys, DecidedOn, Signed
  <2>3. b \in InBook /\ b.key = x.key /\ x.key \notin UndoneKeys
    BY <2>1 DEF InBook, UndoneKeys, Reversed
  <2> HIDE DEF b
  <2>4. Book!Reverse(b.key)
    BY <2>2, <2>3 DEF Book!Reverse, Book!Written, DecidedOn, InBook, UndoneKeys
  <2>5. QED
    BY <2>3, <2>4 DEF Book!Next, InBook
<1>5. CASE \/ \E r \in Runs, at \in Time :
                \E F \in SUBSET Findings : \E saw \in [F -> Estimates] : Persist(r, at, saw)
           \/ \E cutoff \in Time : \E D \in SUBSET obs : Cleanup(D, cutoff)
           \/ Tick \/ DeleteAccount \/ UNCHANGED vars
  <2>1. history' = history /\ ledger' = ledger
    BY <1>5 DEF Persist, Cleanup, Tick, DeleteAccount, vars
  <2>2. QED
    BY <2>1, NothingShows
<1>6. QED
  BY <1>1, <1>2, <1>3, <1>4, <1>5 DEF Next, Collect, Decide, Keep, TreatsSome, Treat

(* The ledger is append-only: an entry stays as it was written, is written  *)
(* once for each decision or request, a saving together with its decision,  *)
(* and is reversed once and whole, whatever is collected, cleaned up or     *)
(* tried again in between (recognize_many, create_manual_entry,             *)
(* reverse_entry).                                                          *)
THEOREM BookImplemented == Spec => ImplementsBook
<1>1. Init => Book!Init
  <2>1. ASSUME Init PROVE Book!Init
    <3>1. \A f \in Findings : Len(history[f]) = 0
      BY <2>1 DEF Init
    <3>2. QED
      BY <2>1, <3>1 DEF Init, Book!Init
  <2>2. QED
    BY <2>1
<1>2. KeyInv /\ [Next]_vars => [Book!Next]_Book!vars
  BY BookStep
<1>3. QED
  BY <1>1, <1>2, InitKeys, NextKeys, PTL DEF Spec, ImplementsBook, Book!Spec

-----------------------------------------------------------------------------
(* Evidence. Recognition compares the time of the latest observation with   *)
(* that of earlier treatments; what makes this enough is that decisions are *)
(* dated in order, and that a run has one time and commits once.            *)

Dated ==
    \A f \in Findings : \A n \in DOMAIN history[f] :
        /\ history[f][n].at <= now
        /\ \A m \in 1..n : history[f][m].at <= history[f][n].at

Observed ==
    /\ \A o \in obs : o.run \in done /\ o.at <= now
    /\ \A o, p \in obs : o.run = p.run => o.at = p.at

(* A credit was observed before its treatment, by a run that is committed,  *)
(* and that run's observation of the finding, if kept, has its time.        *)
Backed ==
    \A e \in Credits :
        /\ e.seen <= Event(e.key).at
        /\ e.basis # NoRun => e.basis \in done
        /\ \A o \in obs : o.finding = e.key[1] /\ o.run = e.basis => o.at = e.seen

(* Credit e is newer than decision n of its finding.                        *)
NewSince(e, n) ==
    LET h == history[e.key[1]]
    IN  /\ h[n].action = "treat" => e.seen > h[n].at
        /\ h[n].action = "reopen" /\ h[n].from = "treated" =>
             e.seen > h[n].at \/ \E m \in 1..n-1 : h[m].action = "treat"
        /\ \A d \in ledger : d.key = <<e.key[1], n>> /\ ~d.reversal => d.basis # e.basis

AllNew == \A e \in Credits : \A n \in 1..(e.key[2] - 1) : NewSince(e, n)

LedgerInv == KeyInv /\ Dated /\ Observed /\ Backed /\ AllNew

(* AllNew is CreditsNewEvidence, without its subsequences.                  *)
LEMMA AllNewIsProperty == KeyInv /\ AllNew => CreditsNewEvidence
<1> SUFFICES ASSUME KeyInv, AllNew, NEW e \in ledger, e.source = "OPPORTUNITY"
             PROVE  LET f == e.key[1]
                        past == SubSeq(history[f], 1, e.key[2] - 1)
                    IN  \A n \in DOMAIN past :
                          /\ past[n].action = "treat" => e.seen > past[n].at
                          /\ past[n].action = "reopen" /\ past[n].from = "treated" =>
                               \/ e.seen > past[n].at
                               \/ \E m \in 1..n-1 : past[m].action = "treat"
                          /\ \A d \in ledger :
                               d.key = <<f, n>> /\ ~d.reversal => d.basis # e.basis
  BY DEF CreditsNewEvidence
<1> DEFINE f == e.key[1]
           k == e.key[2]
           past == SubSeq(history[f], 1, k - 1)
<1>1. e \in Credits /\ e.key \in CreditKeys
  BY DEF Credits, KeyInv, Sources
<1>2. f \in Findings /\ k \in 1..MaxEvents /\ k \in DOMAIN history[f]
  BY <1>1 DEF KeyInv, Recorded, CreditKeys
<1>3. history[f] \in Seq(Decision)
  BY <1>2 DEF KeyInv, TypeOK
<1>4. k \in Nat /\ k - 1 \in Nat /\ k - 1 <= Len(history[f]) /\ Len(history[f]) \in Nat
  <2>1. DOMAIN history[f] = 1..Len(history[f]) /\ Len(history[f]) \in Nat
    BY <1>3
  <2>2. k \in 1..Len(history[f])
    BY <1>2, <2>1
  <2> HIDE DEF k
  <2>3. QED
    BY <2>1, <2>2
<1>5. DOMAIN past = 1..(k - 1) /\ \A n \in 1..(k - 1) : past[n] = history[f][n]
  BY <1>3, <1>4, EarlierDecisions
<1>6. \A n \in 1..(k - 1) : NewSince(e, n)
  BY <1>1 DEF AllNew
<1> HIDE DEF past
<1>7. ASSUME NEW n \in DOMAIN past
      PROVE  /\ past[n].action = "treat" => e.seen > past[n].at
             /\ past[n].action = "reopen" /\ past[n].from = "treated" =>
                  e.seen > past[n].at \/ \E m \in 1..n-1 : past[m].action = "treat"
             /\ \A d \in ledger : d.key = <<f, n>> /\ ~d.reversal => d.basis # e.basis
  <2>1. n \in 1..(k - 1) /\ 1..n-1 \subseteq 1..(k - 1)
    BY <1>4, <1>5
  <2>2. NewSince(e, n)
    BY <1>6, <2>1
  <2>3. past[n] = history[f][n] /\ \A m \in 1..n-1 : past[m] = history[f][m]
    BY <1>5, <2>1
  <2>4. QED
    BY <2>2, <2>3 DEF NewSince
<1>8. QED
  BY <1>7 DEF past

(* Without decisions, observations and entries there is nothing to compare. *)
LEMMA InitEvidence == Init => LedgerInv
BY InitKeys DEF Init, LedgerInv, Dated, Observed, Backed, AllNew, Credits

(* Decisions stay dated in order: each is dated when it is committed.       *)
LEMMA NextDated == TypeOK /\ Dated /\ [Next]_vars => Dated'
<1> SUFFICES ASSUME TypeOK, Dated, [Next]_vars, NEW f \in Findings,
                    NEW n \in DOMAIN history'[f]
             PROVE  /\ history'[f][n].at <= now'
                    /\ \A m \in 1..n : history'[f][m].at <= history'[f][n].at
  BY DEF Dated
<1>1. now \in Int /\ now <= now'
  <2>1. now \in Int
    BY DEF TypeOK, Time
  <2>2. now' = now \/ now' = now + 1
    <3>1. CASE Collect \/ Keep
      BY <3>1 DEF Collect, Persist, Cleanup, Keep, ManualEntry, Reverse, DeleteAccount
    <3>2. CASE Decide
      BY <3>2 DEF Decide, Treat, Reject, Reopen
    <3>3. QED
      BY <3>1, <3>2 DEF Next, Tick, vars
  <2>3. QED
    BY <2>1, <2>2
<1>2. history[f] \in Seq(Decision) /\ Dates
  BY StepAdds DEF TypeOK
<1>3. \A m \in DOMAIN history[f] : history[f][m].at \in Int
  <2>1. \A m \in DOMAIN history[f] : history[f][m] \in Decision
    BY <1>2
  <2>2. \A d \in Decision : d.at \in Int
    BY DEF Decision, Time
  <2>3. QED
    BY <2>1, <2>2
<1>4. now' \in Int
  BY NextType DEF TypeOK, Time
<1>5. CASE history'[f] = history[f]
  BY <1>1, <1>2, <1>3, <1>4, <1>5 DEF Dated
<1>6. ASSUME NEW d \in Decision, d.at = now, history'[f] = Append(history[f], d)
      PROVE  /\ history'[f][n].at <= now'
             /\ \A m \in 1..n : history'[f][m].at <= history'[f][n].at
  <2>1. /\ DOMAIN history[f] = 1..Len(history[f]) /\ Len(history[f]) \in Nat
        /\ DOMAIN history'[f] = 1..(Len(history[f]) + 1)
        /\ \A m \in 1..Len(history[f]) : history'[f][m] = history[f][m]
        /\ history'[f][Len(history[f]) + 1].at = now
    BY <1>2, <1>6, AppendDecision
  <2>2. CASE n \in 1..Len(history[f])
    <3>1. n \in DOMAIN history[f] /\ history'[f][n] = history[f][n]
      BY <2>1, <2>2
    <3>2. \A m \in 1..n : m \in 1..Len(history[f]) /\ history'[f][m] = history[f][m]
      BY <2>1, <2>2
    <3>3. /\ history[f][n].at <= now
          /\ \A m \in 1..n : history[f][m].at <= history[f][n].at
      BY <3>1 DEF Dated
    <3>4. QED
      BY <1>1, <1>3, <1>4, <3>1, <3>2, <3>3
  <2>3. CASE n = Len(history[f]) + 1
    <3>1. history'[f][n].at = now /\ now <= now'
      BY <1>1, <2>1, <2>3
    <3>2. ASSUME NEW m \in 1..n
          PROVE  history'[f][m].at <= now
      <4>1. CASE m = n
        BY <1>1, <3>1, <4>1
      <4>2. CASE m # n
        <5>1. m \in 1..Len(history[f]) /\ history'[f][m] = history[f][m]
          BY <2>1, <2>3, <4>2
        <5>2. m \in DOMAIN history[f]
          BY <2>1, <5>1
        <5>3. QED
          BY <5>1, <5>2 DEF Dated
      <4>3. QED
        BY <4>1, <4>2
    <3>3. QED
      BY <3>1, <3>2
  <2>4. QED
    BY <2>1, <2>2, <2>3
<1>7. QED
  BY <1>2, <1>5, <1>6 DEF Dates

(* A run commits once, at one time that is past (persist_findings).         *)
LEMMA NextObserved == TypeOK /\ Observed /\ [Next]_vars => Observed'
<1> SUFFICES ASSUME TypeOK, Observed, [Next]_vars PROVE Observed'
  OBVIOUS
<1>1. now \in Int /\ \A o \in obs : o.at \in Int
  BY DEF TypeOK, Time, Observation
<1>2. CASE Tick
  BY <1>1, <1>2 DEF Tick, Observed
<1>3. ASSUME NEW r \in Runs, NEW at \in Time, NEW F \in SUBSET Findings,
             NEW saw \in [F -> Estimates], Persist(r, at, saw)
      PROVE  Observed'
  BY <1>3 DEF Persist, Observed
<1>4. ASSUME NEW cutoff \in Time, NEW D \in SUBSET obs, Cleanup(D, cutoff)
      PROVE  Observed'
  BY <1>4 DEF Cleanup, Observed
<1>5. CASE obs' = obs /\ done' = done /\ now' = now
  BY <1>5 DEF Observed
<1>6. QED
  BY <1>2, <1>3, <1>4, <1>5
     DEF Next, Collect, Decide, Treat, Reject, Reopen, Keep, ManualEntry, Reverse,
         DeleteAccount, vars

(* An entry that is in the ledger stays as it is, and so does its event.    *)
LEMMA CreditsStay ==
    ASSUME KeyInv, [Next]_vars, NEW e \in Credits
    PROVE  /\ e.key \in CreditKeys /\ e.key[1] \in Findings /\ e.key[2] \in Nat
           /\ e.key[2] \in DOMAIN history[e.key[1]]
           /\ history[e.key[1]] \in Seq(Decision)
           /\ e.key[2] <= Len(history[e.key[1]])
           /\ \A n \in 1..e.key[2] : /\ n \in DOMAIN history[e.key[1]]
                                     /\ history'[e.key[1]][n] = history[e.key[1]][n]
<1>1. e.key \in CreditKeys /\ e \in ledger
  BY DEF KeyInv, Sources, Credits
<1>2. e.key[1] \in Findings /\ e.key[2] \in 1..MaxEvents
  BY <1>1 DEF CreditKeys
<1>3. e.key[2] \in Nat /\ e.key[2] \in DOMAIN history[e.key[1]]
  BY <1>1, <1>2, LedgerAssumption DEF KeyInv, Recorded
<1>4. history[e.key[1]] \in Seq(Decision)
  BY <1>2 DEF KeyInv, TypeOK
<1>5. DOMAIN history[e.key[1]] = 1..Len(history[e.key[1]]) /\ Len(history[e.key[1]]) \in Nat
  BY <1>4
<1>6. \A n \in 1..e.key[2] : n \in DOMAIN history[e.key[1]]
  BY <1>3, <1>5
<1>7. Lengthens
  BY StepAdds, DatesLengthen DEF KeyInv
<1>8. QED
  BY <1>1, <1>2, <1>3, <1>4, <1>5, <1>6, <1>7 DEF Lengthens

(* Where the credits after a step come from.                                *)
LEMMA CreditsFrom ==
    ASSUME KeyInv, [Next]_vars, NEW e \in Credits', e \notin Credits
    PROVE  \E f \in Findings : \E b \in Evidence(f) :
             /\ Adds(f, b, e)
             /\ obs' = obs /\ done' = done /\ now' = now
<1>1. e \in ledger' \ ledger /\ e.source = "OPPORTUNITY"
  BY DEF Credits
<1>2. CASE TreatsSome
  <2>1. PICK F \in SUBSET Findings :
          \E ev \in [F -> UNION {Evidence(f) : f \in F}] :
            (\A f \in F : ev[f] \in Evidence(f)) /\ Treat(F, ev)
    BY <1>2 DEF TreatsSome
  <2>2. PICK ev \in [F -> UNION {Evidence(f) : f \in F}] :
            (\A f \in F : ev[f] \in Evidence(f)) /\ Treat(F, ev)
    BY <2>1
  <2>3. PICK f \in F : Adds(f, ev[f], e)
    BY <1>1, <2>2, TreatAdds DEF KeyInv
  <2>4. QED
    BY <2>2, <2>3 DEF Treat
<1>3. ASSUME NEW q \in Requests, NEW type \in {"SAVING", "REALLOCATION", "ADJUSTMENT"},
             NEW direction \in {"CREDIT", "DEBIT"}, NEW amount \in Amounts,
             ManualEntry(q, type, direction, amount)
      PROVE  FALSE
  BY <1>1, <1>3 DEF ManualEntry
<1>4. ASSUME NEW x \in ledger, Reverse(x)
      PROVE  FALSE
  BY <1>1, <1>4, ReversalFields DEF Reverse
<1>5. QED
  BY <1>1, <1>2, <1>3, <1>4, StepAdds DEF KeyInv

(* What credits rest on is not contradicted by later runs or clean-ups.     *)
LEMMA NextBacked == KeyInv /\ Observed /\ Backed /\ [Next]_vars => Backed'
<1> SUFFICES ASSUME KeyInv, Observed, Backed, [Next]_vars, NEW e \in Credits'
             PROVE  /\ e.seen <= Event(e.key)'.at
                    /\ e.basis # NoRun => e.basis \in done'
                    /\ \A o \in obs' : o.finding = e.key[1] /\ o.run = e.basis => o.at = e.seen
  BY DEF Backed
<1> USE DEF KeyInv
<1>1. CASE e \in Credits
  <2>1. Event(e.key)' = Event(e.key)
    BY <1>1, CreditsStay DEF Event
  <2>2. /\ done \subseteq done'
        /\ \A o \in obs' : o \in obs \/ (o.run \notin done /\ o.run \in Runs)
    <3>1. CASE Collect
      BY <3>1 DEF Collect, Persist, Cleanup
    <3>2. CASE Tick \/ Decide \/ UNCHANGED vars
      BY <3>2 DEF Tick, Decide, Treat, Reject, Reopen, vars
    <3>3. CASE Keep
      BY <3>3 DEF Keep, ManualEntry, Reverse, DeleteAccount
    <3>4. QED
      BY <3>1, <3>2, <3>3 DEF Next
  <2>3. NoRun \notin Runs
    BY LedgerAssumption DEF NoRun, Runs
  <2>4. QED
    BY <1>1, <2>1, <2>2, <2>3 DEF Backed
<1>2. CASE e \notin Credits
  <2>1. PICK f \in Findings : \E b \in Evidence(f) :
             /\ Adds(f, b, e)
             /\ obs' = obs /\ done' = done /\ now' = now
    BY <1>2, CreditsFrom
  <2>2. PICK b \in Evidence(f) :
             /\ Adds(f, b, e)
             /\ obs' = obs /\ done' = done /\ now' = now
    BY <2>1
  <2>3. e.key[1] = f /\ Event(e.key)'.at = now /\ e.seen = b.at /\ e.basis = b.run
    BY <2>2 DEF Adds, Event
  <2>4. CASE b.run = NoRun /\ b.at = Before
    <3>1. \A o \in obs : o.run # NoRun
      BY LedgerAssumption DEF TypeOK, Observation, NoRun, Runs
    <3>2. b.at <= now
      BY <2>4 DEF TypeOK, Time, Before
    <3>3. QED
      BY <2>2, <2>3, <2>4, <3>1, <3>2
  <2>5. CASE \E o \in obs : o.finding = f /\ o.run = b.run /\ o.at = b.at
    BY <2>2, <2>3, <2>5 DEF Observed
  <2>6. QED
    BY <2>4, <2>5, EvidenceType
<1>3. QED
  BY <1>1, <1>2

(* A new credit is newer than the decisions before it: the baseline of      *)
(* recognize_many covers them all, for one treatment or, without one, for   *)
(* the reopenings of a treated finding.                                     *)
LEMMA CreditIsNew ==
    ASSUME KeyInv, Dated, Observed, Backed, [Next]_vars,
           NEW e \in Credits', e \notin Credits, NEW n \in 1..(e.key[2] - 1)
    PROVE  NewSince(e, n)'
<1> USE DEF KeyInv
<1>1. PICK f \in Findings : \E b \in Evidence(f) :
             /\ Adds(f, b, e)
             /\ obs' = obs /\ done' = done /\ now' = now
  BY CreditsFrom
<1>2. PICK b \in Evidence(f) :
             /\ Adds(f, b, e)
             /\ obs' = obs /\ done' = done /\ now' = now
  BY <1>1
<1> DEFINE h == history[f]
           base == Baseline(f)
<1>3. /\ e.key[1] = f /\ e.key[2] = Len(h) + 1 /\ e.seen = b.at /\ e.basis = b.run
      /\ DOMAIN h = 1..Len(h) /\ Len(h) \in Nat
  BY <1>2 DEF Adds
<1>4. n \in 1..Len(h) /\ n \in DOMAIN h
  BY <1>3
<1>5. h \in Seq(Decision) /\ Lengthens
  BY StepAdds, DatesLengthen DEF TypeOK
<1>6. /\ \A m \in 1..Len(h) : history'[f][m] = h[m]
      /\ \A m \in 1..Len(h) : h[m] \in Decision
  BY <1>3, <1>5 DEF Lengthens
<1>7. \A d \in Decision : d.at \in Int
  BY DEF Decision, Time
<1>8. b.at \in Int
  BY EvidenceType DEF Time, Before
<1>9. base # {} => b.run # NoRun /\ \A t \in base : b.at > t
  BY <1>2 DEF Adds, Due, IsNew
<1>10. h[n] \in Decisions(f)
  BY <1>4 DEF Decisions
<1>11. ASSUME h[n].action = "treat"
       PROVE  b.at > h[n].at /\ b.run # NoRun
  <2>1. h[n].at \in base
    BY <1>10, <1>11 DEF Baseline
  <2>2. QED
    BY <1>9, <2>1
<1>12. ASSUME h[n].action = "reopen", h[n].from = "treated"
       PROVE  b.at > h[n].at \/ \E m \in 1..n-1 : h[m].action = "treat"
  <2>1. CASE \A d \in Decisions(f) : d.action # "treat"
    <3>1. h[n].at \in base
      BY <1>10, <1>12, <2>1 DEF Baseline
    <3>2. QED
      BY <1>9, <3>1
  <2>2. CASE \E d \in Decisions(f) : d.action = "treat"
    <3>1. PICK m \in DOMAIN h : h[m].action = "treat"
      BY <2>2 DEF Decisions
    <3>2. h[m] \in Decisions(f)
      BY <3>1 DEF Decisions
    <3>3. h[m].at \in base
      BY <3>1, <3>2 DEF Baseline
    <3>4. b.at > h[m].at
      BY <1>9, <3>3
    <3>5. m # n
      BY <1>12, <3>1
    <3>6. CASE m < n
      BY <1>3, <1>4, <3>1, <3>6
    <3>7. CASE m > n
      <4>1. h[n].at <= h[m].at
        BY <1>3, <1>4, <3>1, <3>7 DEF Dated
      <4>2. h[n].at \in Int /\ h[m].at \in Int
        BY <1>3, <1>4, <1>6, <1>7, <3>1
      <4>3. QED
        BY <1>8, <3>4, <4>1, <4>2
    <3>8. QED
      BY <1>3, <1>4, <3>1, <3>5, <3>6, <3>7
  <2>3. QED
    BY <2>1, <2>2
<1>13. ASSUME NEW d \in ledger', d.key = <<f, n>>, ~d.reversal
       PROVE  d.basis # e.basis
  <2>1. <<f, n>> \in CreditKeys
    <3>1. Len(h) + 1 \in 1..MaxEvents
      BY <1>2, <1>3 DEF Adds, CreditKeys
    <3>2. QED
      BY <1>3, <1>4, <3>1, LedgerAssumption DEF CreditKeys
  <2>2. d \in ledger
    <3>1. KeyInv'
      BY NextKeys
    <3>2. d \in Credits'
      BY <1>13, <2>1, <3>1 DEF Sources, Credits
    <3>3. SUFFICES ASSUME d \notin Credits PROVE FALSE
      BY DEF Credits
    <3>4. PICK g \in Findings : \E c \in Evidence(g) : Adds(g, c, d)
      BY <3>2, <3>3, CreditsFrom
    <3>5. d.key = <<g, Len(history[g]) + 1>>
      BY <3>4 DEF Adds
    <3>6. g = f /\ n = Len(h) + 1
      BY <1>13, <3>5
    <3>7. QED
      BY <1>3, <1>4, <3>6
  <2>3. d \in Credits
    BY <1>13, <2>1, <2>2 DEF Sources
  <2>4. h[n].action = "treat" /\ d.seen <= h[n].at
    BY <1>13, <2>1, <2>2, <2>3 DEF Recorded, Backed, Event
  <2>5. b.at > h[n].at /\ b.run # NoRun
    BY <1>11, <2>4
  <2>6. PICK o \in obs : o.finding = f /\ o.run = b.run /\ o.at = b.at
    BY <2>5, EvidenceType
  <2>7. d.basis = b.run => b.at = d.seen
    BY <1>13, <2>3, <2>6 DEF Backed
  <2>8. d.seen \in Int /\ h[n].at \in Int
    <3>1. d.seen \in Int
      BY <2>2 DEF TypeOK, Entry, Time, Before
    <3>2. QED
      BY <1>4, <1>6, <1>7, <3>1
  <2>9. QED
    BY <1>3, <1>8, <2>4, <2>5, <2>7, <2>8
<1> DEFINE g == history'[f]
<1>14. g[n] = h[n] /\ \A m \in 1..n-1 : g[m] = h[m]
  BY <1>3, <1>4, <1>6
<1>15. /\ g[n].action = "treat" => e.seen > g[n].at
       /\ g[n].action = "reopen" /\ g[n].from = "treated" =>
            e.seen > g[n].at \/ \E m \in 1..n-1 : g[m].action = "treat"
  BY <1>3, <1>11, <1>12, <1>14
<1>16. g = history'[e.key[1]] /\ f = e.key[1]
  BY <1>3
<1> HIDE DEF g, h, base
<1>17. QED
  BY <1>13, <1>15, <1>16 DEF NewSince

(* What is newer than a decision stays so: histories only grow, and a later *)
(* credit has a later key.                                                  *)
LEMMA NextNew ==
    KeyInv /\ Dated /\ Observed /\ Backed /\ AllNew /\ [Next]_vars => AllNew'
<1> SUFFICES ASSUME KeyInv, Dated, Observed, Backed, AllNew, [Next]_vars,
                    NEW e \in Credits', NEW n \in 1..(e.key[2] - 1)
             PROVE  NewSince(e, n)'
  BY DEF AllNew
<1>1. CASE e \in Credits
  <2> DEFINE f == e.key[1]
  <2>1. /\ e.key \in CreditKeys /\ f \in Findings
        /\ e.key[2] \in Nat /\ e.key[2] <= Len(history[f])
        /\ history[f] \in Seq(Decision)
        /\ \A m \in 1..e.key[2] : history'[f][m] = history[f][m]
    BY <1>1, CreditsStay
  <2>2. NewSince(e, n)
    BY <1>1 DEF AllNew
  <2>3. history'[f][n] = history[f][n] /\ \A m \in 1..n-1 : history'[f][m] = history[f][m]
    BY <2>1
  <2>4. ASSUME NEW d \in ledger', d.key = <<f, n>>, ~d.reversal
        PROVE  d.basis # e.basis
    <3>1. CASE d \in ledger
      BY <2>2, <2>4, <3>1 DEF NewSince
    <3>2. CASE d \notin ledger
      <4>1. <<f, n>> \in CreditKeys
        BY <2>1, LedgerAssumption DEF CreditKeys
      <4>2. d \in Credits'
        BY <2>4, <4>1, NextKeys DEF KeyInv, Sources
      <4>3. d \notin Credits
        BY <3>2 DEF Credits
      <4>4. PICK g \in Findings : \E c \in Evidence(g) : Adds(g, c, d)
        BY <4>2, <4>3, CreditsFrom
      <4>5. d.key = <<g, Len(history[g]) + 1>>
        BY <4>4 DEF Adds
      <4>6. n = Len(history[f]) + 1
        BY <2>4, <4>5
      <4>7. Len(history[f]) \in Nat
        BY <2>1
      <4>8. QED
        BY <2>1, <4>6, <4>7
    <3>3. QED
      BY <3>1, <3>2
  <2>5. f = e.key[1]
    OBVIOUS
  <2> HIDE DEF f
  <2>6. QED
    BY <2>2, <2>3, <2>4, <2>5 DEF NewSince
<1>2. CASE e \notin Credits
  BY <1>2, CreditIsNew
<1>3. QED
  BY <1>1, <1>2

(* The parts of the inductive invariant keep one another.                   *)
LEMMA NextEvidence == LedgerInv /\ [Next]_vars => LedgerInv'
BY NextKeys, NextDated, NextObserved, NextBacked, NextNew DEF LedgerInv, KeyInv

(* A saving credited to a finding treated before rests on an observation    *)
(* made since, which no other of its credits rests on, for any number of    *)
(* runs, decisions and clean-ups in any order (recognize_many).             *)
THEOREM EvidenceIsNew == Spec => []CreditsNewEvidence
<1>1. LedgerInv => CreditsNewEvidence
  BY AllNewIsProperty DEF LedgerInv
<1>2. QED
  BY <1>1, InitEvidence, NextEvidence, PTL DEF Spec

-----------------------------------------------------------------------------
(* An opportunity becomes treated only by a treatment, with the others it   *)
(* is treated with (treat, bulk_transition).                                *)
LEMMA TreatedByTreat ==
    ASSUME TypeOK, [Next]_vars, NEW f \in Findings,
           status[f] = "open", status'[f] = "treated"
    PROVE  TreatsSome
<1>1. CASE Tick \/ Collect \/ Keep \/ UNCHANGED vars
  <2>1. status' = status
    <3>1. CASE Tick \/ UNCHANGED vars
      BY <3>1 DEF Tick, vars
    <3>2. CASE Collect
      BY <3>2 DEF Collect, Persist, Cleanup
    <3>3. CASE Keep
      BY <3>3 DEF Keep, ManualEntry, Reverse, DeleteAccount
    <3>4. QED
      BY <1>1, <3>1, <3>2, <3>3
  <2>2. QED
    BY <2>1
<1>2. ASSUME NEW g \in Findings, Reject(g) \/ Reopen(g)
      PROVE  FALSE
  BY <1>2 DEF Reject, Reopen, TypeOK
<1>3. QED
  BY <1>1, <1>2 DEF Next, Decide, TreatsSome, Treat

(* A finding is not treated without the credit its evidence is due, alone   *)
(* or in bulk, with or without its account (bulk_transition,                *)
(* recognize_many).                                                         *)
THEOREM NoneUncredited == Spec => TreatedIsCredited
<1>1. ASSUME TypeOK, [Next]_vars, NEW f \in Findings,
             status[f] = "open", status'[f] = "treated",
             \A e \in Evidence(f) : Due(f, e)
      PROVE  \E e \in ledger' : e.key = <<f, Len(history[f]) + 1>> /\ ~e.reversal
  <2>1. PICK F \in SUBSET Findings :
          \E ev \in [F -> UNION {Evidence(g) : g \in F}] :
            (\A g \in F : ev[g] \in Evidence(g)) /\ Treat(F, ev)
    BY <1>1, TreatedByTreat DEF TreatsSome
  <2>2. PICK ev \in [F -> UNION {Evidence(g) : g \in F}] :
            (\A g \in F : ev[g] \in Evidence(g)) /\ Treat(F, ev)
    BY <2>1
  <2>3. f \in F
    BY <1>1, <2>2 DEF Treat, TypeOK
  <2>4. Due(f, ev[f]) /\ Credit(f, ev[f]) \in ledger'
    BY <1>1, <2>2, <2>3 DEF Treat
  <2>5. Credit(f, ev[f]).key = <<f, Len(history[f]) + 1>> /\ ~Credit(f, ev[f]).reversal
    BY DEF Credit
  <2>6. QED
    BY <2>4, <2>5
<1>2. TypeOK /\ [Next]_vars =>
        [\A f \in Findings :
           /\ status[f] = "open" /\ status'[f] = "treated"
           /\ \A e \in Evidence(f) : Due(f, e)
           => \E e \in ledger' : e.key = <<f, Len(history[f]) + 1>> /\ ~e.reversal]_vars
  BY <1>1
<1>3. QED
  BY <1>2, TypeCorrect, PTL DEF Spec, TreatedIsCredited

-----------------------------------------------------------------------------
(* What the ledger adds up to. Entries are added one commit after the other, *)
(* a treatment adding finitely many, so that sums are of finitely many.      *)
Finite == IsFiniteSet(ledger)

LEMMA NextFinite == TypeOK /\ Finite /\ [Next]_vars => Finite'
<1> SUFFICES ASSUME TypeOK, Finite, [Next]_vars PROVE IsFiniteSet(ledger')
  BY DEF Finite
<1>1. IsFiniteSet(ledger)
  BY DEF Finite
<1>2. \A e : IsFiniteSet(ledger \cup {e})
  BY <1>1, FS_AddElement
<1>3. CASE TreatsSome
  <2>1. PICK F \in SUBSET Findings :
          \E ev \in [F -> UNION {Evidence(f) : f \in F}] :
            (\A f \in F : ev[f] \in Evidence(f)) /\ Treat(F, ev)
    BY <1>3 DEF TreatsSome
  <2>2. PICK ev \in [F -> UNION {Evidence(f) : f \in F}] : Treat(F, ev)
    BY <2>1
  <2> DEFINE due == {f \in F : Due(f, ev[f])}
             made == {Credit(f, ev[f]) : f \in due}
             credit == [f \in due |-> Credit(f, ev[f])]
  <2>3. IsFiniteSet(due)
    BY LedgerAssumption, FS_Subset
  <2>4. made = {credit[f] : f \in due}
    OBVIOUS
  <2>5. ledger' = ledger \cup made
    BY <2>2 DEF Treat
  <2> HIDE DEF due, made, credit
  <2>6. IsFiniteSet(made)
    BY <2>3, <2>4, FiniteImage
  <2>7. IsFiniteSet(ledger \cup made)
    BY <1>1, <2>6, FS_Union
  <2>8. QED
    BY <2>5, <2>7
<1>4. ASSUME NEW q \in Requests, NEW type, NEW direction, NEW amount,
             ManualEntry(q, type, direction, amount)
      PROVE  IsFiniteSet(ledger')
  BY <1>2, <1>4 DEF ManualEntry
<1>5. ASSUME NEW e \in ledger, Reverse(e)
      PROVE  IsFiniteSet(ledger')
  BY <1>2, <1>5 DEF Reverse
<1>6. QED
  BY <1>1, <1>3, <1>4, <1>5, StepAdds

(* The model's total is a sum, of which Sums tells the laws.                 *)
LEMMA TotalIsSum ==
    ASSUME NEW S
    PROVE  Total(S) = Sum([e \in S |-> Signed(e)], S)
<1> DEFINE f == [e \in S |-> Signed(e)]
<1>1. Total(S) = (CHOOSE g : g = [t \in SUBSET S |->
                     IF t = {} THEN 0 ELSE Signed(Pick(t)) + g[t \ {Pick(t)}]])[S]
  BY DEF Total, MapThenSumSet, MapThenFoldSet, Pick
<1>2. \A t \in SUBSET S : t # {} => f[Pick(t)] = Signed(Pick(t))
  BY Picked
<1>3. \A g : (g = [t \in SUBSET S |-> IF t = {} THEN 0 ELSE Signed(Pick(t)) + g[t \ {Pick(t)}]])
             <=> IsFold(f, S, g)
  BY <1>2 DEF IsFold
<1>4. QED
  BY <1>1, <1>3 DEF Sum

(* What an entry counts for. *)
LEMMA EntryCounts ==
    ASSUME TypeOK
    PROVE  \A e \in ledger : e.direction \in {"CREDIT", "DEBIT"} /\ e.amount \in Int
<1> TAKE e \in ledger
<1>1. e \in Entry
  BY DEF TypeOK
<1>2. e.amount \in Amounts /\ e.direction \in {"CREDIT", "DEBIT"}
  BY <1>1 DEF Entry
<1>3. QED
  <2>1. Amounts \subseteq Int
    BY LedgerAssumption
  <2>2. QED
    BY <1>2, <2>1

(* An entry and its reversal add up to nothing: entries, with those of them  *)
(* that are reversed and their reversals, add up to the others.              *)
LEMMA PairsCancel ==
    ASSUME KeyInv, Finite,
           NEW A \in SUBSET {e \in ledger : ~e.reversal},
           NEW R \in SUBSET {e \in ledger : ~e.reversal},
           A \cap R = {}, \A e \in R : ReversalOf(e) \in ledger
    PROVE  Total((A \cup R) \cup {ReversalOf(e) : e \in R}) = Total(A)
<1> DEFINE V == {ReversalOf(e) : e \in R}
           L == (A \cup R) \cup V
           f == [e \in L |-> Signed(e)]
           opposite == [e \in R |-> -Signed(e)]
           none == [e \in R |-> 0]
           reversal == [e \in R |-> ReversalOf(e)]
<1>1. IsFiniteSet(A) /\ IsFiniteSet(R) /\ A \subseteq ledger /\ R \subseteq ledger
  BY FS_Subset DEF Finite
<1> HIDE DEF V, L, f, opposite, none, reversal
<1>2. \A e \in ledger : Signed(e) \in Int
  BY EntryCounts DEF KeyInv, Signed
<1>3. \A e \in R : Signed(ReversalOf(e)) = -Signed(e)
  <2> TAKE e \in R
  <2>1. e.direction \in {"CREDIT", "DEBIT"} /\ e.amount \in Int
    BY <1>1, EntryCounts DEF KeyInv
  <2>2. /\ ReversalOf(e).direction = Opposite(e.direction)
        /\ ReversalOf(e).amount = e.amount
    BY DEF ReversalOf
  <2>3. QED
    BY <2>1, <2>2 DEF Signed, Opposite
<1>4. \A e, d \in R : reversal[e] = reversal[d] => e = d
  <2> TAKE e, d \in R
  <2> HAVE reversal[e] = reversal[d]
  <2>1. ReversalOf(e) = ReversalOf(d)
    BY DEF reversal
  <2>2. e.key = d.key
    BY <2>1, ReversalFields
  <2>3. e \in ledger /\ d \in ledger /\ ~e.reversal /\ ~d.reversal
    BY <1>1
  <2>4. e.reversal = d.reversal
    <3>1. e.reversal \in BOOLEAN /\ d.reversal \in BOOLEAN
      BY <2>3 DEF KeyInv, TypeOK, Entry
    <3>2. QED
      BY <2>3, <3>1
  <2>5. QED
    BY <2>2, <2>3, <2>4 DEF KeyInv, OneEntryPerKey
<1>5. L \subseteq ledger /\ V \cap (A \cup R) = {}
  BY <1>1, ReversalFields DEF L, V
<1>6. \A e \in L : f[e] \in Int
  BY <1>2, <1>5 DEF f
<1>7. IsFiniteSet(V) /\ Sum(f, V) = Sum(opposite, R)
  <2>1. \A e \in R : opposite[e] \in Int /\ f[reversal[e]] = opposite[e]
    <3> TAKE e \in R
    <3>1. ReversalOf(e) \in L
      BY DEF L, V
    <3>2. f[ReversalOf(e)] = Signed(ReversalOf(e))
      BY <3>1 DEF f
    <3>3. Signed(e) \in Int
      BY <1>1, <1>2
    <3>4. QED
      BY <1>3, <3>2, <3>3 DEF opposite, reversal
  <2>2. V = {reversal[e] : e \in R}
    BY DEF V, reversal
  <2>3. QED
    BY <1>1, <1>4, <2>1, <2>2, SumMap
<1>8. Sum(none, R) = Sum(f, R) + Sum(opposite, R)
  <2>1. \A e \in R : /\ f[e] \in Int /\ opposite[e] \in Int
                     /\ none[e] = f[e] + opposite[e]
    BY <1>1, <1>2 DEF f, opposite, none, L
  <2>2. QED
    BY <1>1, <2>1, SumPlus
<1>9. Sum(none, R) = 0
  <2>1. \A e \in R : none[e] = 0
    BY DEF none
  <2>2. QED
    BY <1>1, <2>1, SumZero
<1>10. Sum(f, L) = Sum(f, A) + (Sum(f, R) + Sum(f, V))
  <2>1. \A e \in A \cup R : f[e] \in Int
    BY <1>6 DEF L
  <2>2. \A e \in R \cup V : f[e] \in Int
    BY <1>6 DEF L
  <2>3. A \cap (R \cup V) = {} /\ R \cap V = {} /\ L = A \cup (R \cup V)
    BY <1>5 DEF L
  <2>4. Sum(f, R \cup V) = Sum(f, R) + Sum(f, V)
    BY <1>1, <1>7, <2>2, <2>3, SumUnion
  <2>5. IsFiniteSet(R \cup V)
    BY <1>1, <1>7, FS_Union
  <2>6. Sum(f, A \cup (R \cup V)) = Sum(f, A) + Sum(f, R \cup V)
    BY <1>1, <2>1, <2>2, <2>3, <2>5, SumUnion
  <2>7. QED
    BY <2>3, <2>4, <2>6
<1>11. Sum(f, A) \in Int /\ Sum(f, R) \in Int /\ Sum(opposite, R) \in Int
  <2>1. \A e \in A \cup R : f[e] \in Int
    BY <1>6 DEF L
  <2>2. \A e \in R : opposite[e] \in Int
    BY <1>1, <1>2 DEF opposite
  <2>3. Sum(f, A) \in Int /\ Sum(f, R) \in Int
    BY <1>1, <2>1, SumType
  <2>4. Sum(opposite, R) \in Int
    BY <1>1, <2>2, SumType
  <2>5. QED
    BY <2>3, <2>4
<1>12. Sum(f, A) = Total(A)
  <2> DEFINE a == [e \in A |-> Signed(e)]
  <2>1. \A e \in A : a[e] \in Int /\ f[e] = a[e]
    BY <1>1, <1>2 DEF f, L
  <2>2. Total(A) = Sum(a, A)
    BY TotalIsSum
  <2> HIDE DEF a
  <2>3. QED
    BY <1>1, <2>1, <2>2, SumSame
<1>13. Total(L) = Sum(f, L)
  BY TotalIsSum DEF f
<1>14. Sum(f, L) = Sum(f, A)
  BY <1>7, <1>8, <1>9, <1>10, <1>11
<1>15. QED
  BY <1>12, <1>13, <1>14 DEF L, V

Standing == {e \in ledger : ~e.reversal /\ ~Reversed(e)}
Undone == {e \in ledger : ~e.reversal /\ Reversed(e)}

(* A reversal in the ledger is that of the one entry of its key.             *)
LEMMA ReversalsArePaired ==
    ASSUME KeyInv
    PROVE  /\ \A e \in Undone : ReversalOf(e) \in ledger
           /\ \A x \in ledger : x.reversal =>
                \E e \in Undone : x = ReversalOf(e) /\ LogicalType(x) = e.type
<1>1. ASSUME NEW x \in ledger, x.reversal
      PROVE  \E e \in Undone : x = ReversalOf(e) /\ LogicalType(x) = e.type
  <2>1. PICK e \in ledger : ~e.reversal /\ x = ReversalOf(e)
    BY <1>1 DEF KeyInv, OneEntryPerKey
  <2>2. x.key = e.key
    BY <2>1, ReversalFields
  <2>3. e \in Undone
    BY <1>1, <2>1, <2>2 DEF Undone, Reversed
  <2>4. \A d \in ledger : ~d.reversal /\ d.key = x.key => d = e
    <3> TAKE d \in ledger
    <3> HAVE ~d.reversal /\ d.key = x.key
    <3>1. d.reversal = e.reversal
      <4>1. d.reversal \in BOOLEAN /\ e.reversal \in BOOLEAN
        BY <2>1 DEF KeyInv, TypeOK, Entry
      <4>2. QED
        BY <2>1, <4>1
    <3>2. QED
      BY <2>1, <2>2, <3>1 DEF KeyInv, OneEntryPerKey
  <2>5. (CHOOSE d \in ledger : ~d.reversal /\ d.key = x.key) = e
    BY <2>1, <2>2, <2>4
  <2>6. LogicalType(x) = e.type
    BY <1>1, <2>5 DEF LogicalType
  <2>7. QED
    BY <2>1, <2>3, <2>6
<1>2. ASSUME NEW e \in Undone
      PROVE  ReversalOf(e) \in ledger
  <2>1. PICK x \in ledger : x.reversal /\ x.key = e.key
    BY DEF Undone, Reversed
  <2>2. PICK d \in Undone : x = ReversalOf(d)
    BY <1>1, <2>1
  <2>3. d.key = e.key
    BY <2>1, <2>2, ReversalFields
  <2>4. d.reversal = e.reversal
    <3>1. d.reversal \in BOOLEAN /\ e.reversal \in BOOLEAN
      BY DEF KeyInv, TypeOK, Entry, Undone
    <3>2. QED
      BY <3>1 DEF Undone
  <2>5. d = e
    BY <2>3, <2>4 DEF KeyInv, OneEntryPerKey, Undone
  <2>6. QED
    BY <2>1, <2>2, <2>5
<1>3. QED
  BY <1>1, <1>2

LEMMA StandingBalance == KeyInv /\ Finite => BalanceIsStanding
<1> SUFFICES ASSUME KeyInv, Finite PROVE BalanceIsStanding
  OBVIOUS
<1>1. Balance = Total(Standing)
  <2>1. ledger = (Standing \cup Undone) \cup {ReversalOf(e) : e \in Undone}
    BY ReversalsArePaired DEF Standing, Undone
  <2>2. /\ Standing \in SUBSET {e \in ledger : ~e.reversal}
        /\ Undone \in SUBSET {e \in ledger : ~e.reversal}
        /\ Standing \cap Undone = {}
    BY DEF Standing, Undone
  <2>3. Total((Standing \cup Undone) \cup {ReversalOf(e) : e \in Undone}) = Total(Standing)
    BY <2>2, ReversalsArePaired, PairsCancel
  <2>4. QED
    BY <2>1, <2>3 DEF Balance
<1>2. ASSUME NEW type
      PROVE  NetOf(type) = Total({e \in Standing : e.type = type})
  <2> DEFINE A == {e \in Standing : e.type = type}
             R == {e \in Undone : e.type = type}
  <2>1. \A e \in Standing \cup Undone : LogicalType(e) = e.type
    BY DEF Standing, Undone, LogicalType
  <2>2. \A e \in Undone : LogicalType(ReversalOf(e)) = e.type
    <3> TAKE e \in Undone
    <3>1. ReversalOf(e) \in ledger /\ ReversalOf(e).reversal
      BY ReversalsArePaired, ReversalFields
    <3>2. PICK d \in Undone : ReversalOf(e) = ReversalOf(d) /\ LogicalType(ReversalOf(e)) = d.type
      BY <3>1, ReversalsArePaired
    <3>3. d.key = e.key
      BY <3>2, ReversalFields
    <3>4. d.reversal = e.reversal
      <4>1. d.reversal \in BOOLEAN /\ e.reversal \in BOOLEAN
        BY DEF KeyInv, TypeOK, Entry, Undone
      <4>2. QED
        BY <4>1 DEF Undone
    <3>5. d = e
      BY <3>3, <3>4 DEF KeyInv, OneEntryPerKey, Undone
    <3>6. QED
      BY <3>2, <3>5
  <2>3. {e \in ledger : LogicalType(e) = type} = (A \cup R) \cup {ReversalOf(e) : e \in R}
    <3>1. ASSUME NEW e \in ledger, LogicalType(e) = type
          PROVE  e \in (A \cup R) \cup {ReversalOf(d) : d \in R}
      <4>1. CASE e.reversal
        BY <3>1, <4>1, ReversalsArePaired
      <4>2. CASE ~e.reversal
        BY <2>1, <3>1, <4>2 DEF Standing, Undone
      <4>3. QED
        BY <4>1, <4>2
    <3>2. ASSUME NEW e \in A \cup R
          PROVE  e \in ledger /\ LogicalType(e) = type
      BY <2>1 DEF Standing, Undone
    <3>3. ASSUME NEW e \in R
          PROVE  ReversalOf(e) \in ledger /\ LogicalType(ReversalOf(e)) = type
      BY <2>2, ReversalsArePaired
    <3>4. QED
      BY <3>1, <3>2, <3>3
  <2>4. /\ A \in SUBSET {e \in ledger : ~e.reversal}
        /\ R \in SUBSET {e \in ledger : ~e.reversal}
        /\ A \cap R = {} /\ \A e \in R : ReversalOf(e) \in ledger
    BY ReversalsArePaired DEF Standing, Undone
  <2> HIDE DEF A, R
  <2>5. Total((A \cup R) \cup {ReversalOf(e) : e \in R}) = Total(A)
    BY <2>4, PairsCancel
  <2>6. QED
    BY <2>3, <2>5 DEF NetOf, A
<1>3. QED
  BY <1>1, <1>2 DEF BalanceIsStanding, Standing

(* The balance, and what is recognised, reused and adjusted, is what the     *)
(* entries that stand add up to: an entry reversed is worth nothing in any   *)
(* of them, however many there are (calculate_balances,                      *)
(* FinOpsFlowAnalyticsService, reverse_entry).                               *)
THEOREM BalanceStands == Spec => []BalanceIsStanding
<1>1. Init => Finite
  BY FS_EmptySet DEF Init, Finite
<1>2. KeyInv => TypeOK
  BY DEF KeyInv
<1>3. QED
  BY <1>1, <1>2, InitKeys, NextKeys, NextFinite, StandingBalance, PTL DEF Spec

=============================================================================
