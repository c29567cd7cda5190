---------------------- MODULE OpportunityPresence_proofs ----------------------
(***************************************************************************)
(* Proofs about OpportunityPresence for every set of findings and runs,    *)
(* every coverage, every threshold and every retention policy: the life    *)
(* cycle decisions give a row; what the runs of an account leave behind on *)
(* a finding, however they overlap; and that every step of collections,    *)
(* operators and sweeps does to each opportunity what people were promised *)
(* may happen to it (OpportunityContract).                                 *)
(***************************************************************************)
EXTENDS OpportunityPresence, FiniteSetTheorems, TLAPS

-----------------------------------------------------------------------------
(* A decision, by whatever route, treats, rejects or reopens some rows.    *)
LEMMA DecidesOnce ==
    ASSUME Decision
    PROVE  \E F \in SUBSET Findings : Treat(F) \/ Reject(F) \/ Reopen(F)
<1>1. PICK F \in SUBSET Findings :
         \/ Treat(F) \/ Reject(F) \/ Reopen(F)
         \/ \E status \in Statuses \ {"none"} : SetLegacyStatus(F, status)
  BY DEF Decision
<1>2. CASE \E status \in Statuses \ {"none"} : SetLegacyStatus(F, status)
  <2>1. PICK status : SetLegacyStatus(F, status)
    BY <1>2
  <2>2. {f \in F : finding[f].status # status} \in SUBSET Findings
    OBVIOUS
  <2>3. QED
    BY <2>1, <2>2 DEF SetLegacyStatus
<1>3. QED
  BY <1>1, <1>2

(* Rows stay rows. *)

(* Creating, reactivating and reviewing a row yields a row. *)
LEMMA ReactivatedIsRow ==
    ASSUME now \in Time, run \in [Runs -> RunRow],
           NEW o \in FindingRow, NEW r \in Runs
    PROVE  ReactivatePresence(o, r) \in FindingRow
<1>1. run[r].startedAt \in Time
  BY DEF RunRow
<1> DEFINE active == [o EXCEPT !.presence = "active", !.missingCount = 0,
                               !.missingSince = Never, !.resolvedAt = Never,
                               !.reconciledRun = r,
                               !.reconciledAt = run[r].startedAt,
                               !.streak = {}]
<1>2. active \in FindingRow
  BY <1>1 DEF FindingRow, Presences, Time, Never
<1>3. [active EXCEPT !.needsReview = FALSE] \in FindingRow
  BY <1>2 DEF FindingRow
<1>4. UnarchiveReappeared(active) \in FindingRow
  BY <1>2 DEF FindingRow, UnarchiveReappeared, ArchiveReasons, Time
<1>5. QED
  BY <1>2, <1>3, <1>4 DEF ReactivatePresence

(* The whole effect of observing a finding yields a row. *)
LEMMA ObservedIsRow ==
    ASSUME now \in Time, run \in [Runs -> RunRow],
           NEW o \in FindingRow, NEW r \in Runs, NEW idWins \in BOOLEAN
    PROVE  Observe(o, r, idWins) \in FindingRow
<1>1. run[r].startedAt \in Time /\ run[r].observedAt \in Time
  BY DEF RunRow
<1> DEFINE row == IF o.status = "none" THEN Created(o, r) ELSE o
<1> DEFINE seen == [row EXCEPT !.lastSeenAt = run[r].observedAt, !.lastSeenRun = r]
<1>2. row \in FindingRow
  BY <1>1 DEF FindingRow, Created, Statuses, Presences
<1>3. seen \in FindingRow
  BY <1>1, <1>2 DEF FindingRow
<1> HIDE DEF seen
<1>4. ReactivatePresence(seen, r) \in FindingRow
  BY <1>3, ReactivatedIsRow
<1>5. ReviewTreatment(ReactivatePresence(seen, r), r) \in FindingRow
  BY <1>4 DEF ReviewTreatment, FindingRow
<1>6. QED
  BY <1>2, <1>5 DEF Observe, seen

(* Counting an absence yields a row. *)
LEMMA AbsentIsRow ==
    ASSUME run \in [Runs -> RunRow], NEW o \in FindingRow, NEW r \in Runs
    PROVE  MarkAbsent(o, r) \in FindingRow
<1>1. run[r].startedAt \in Time
  BY DEF RunRow
<1> DEFINE counted == [o EXCEPT !.missingCount = @ + 1,
                                !.missingSince = IF @ = Never
                                                 THEN run[r].startedAt ELSE @,
                                !.reconciledRun = r,
                                !.reconciledAt = run[r].startedAt,
                                !.absentIn = @ \cup {r},
                                !.streak = @ \cup {r}]
<1>2. /\ o.missingCount + 1 \in Nat
      /\ (IF o.missingSince = Never THEN run[r].startedAt ELSE o.missingSince) \in Time
      /\ o.absentIn \cup {r} \in SUBSET Runs
      /\ o.streak \cup {r} \in SUBSET Runs
  BY <1>1 DEF FindingRow
<1>3. counted \in FindingRow
  BY <1>1, <1>2 DEF FindingRow
<1> HIDE DEF counted
<1>4. [counted EXCEPT !.presence = "resolved_externally",
                      !.resolvedAt = run[r].startedAt] \in FindingRow
  BY <1>1, <1>3 DEF FindingRow, Presences
<1>5. [counted EXCEPT !.presence = "missing"] \in FindingRow
  BY <1>3 DEF FindingRow, Presences
<1>6. QED
  BY <1>4, <1>5 DEF MarkAbsent, counted

(* A committed run leaves every row a row. *)
LEMMA AfterRunIsRow ==
    ASSUME now \in Time, run \in [Runs -> RunRow],
           finding \in [Findings -> FindingRow],
           NEW f \in Findings, NEW r \in Runs, NEW seen, NEW scopes,
           NEW idWins \in BOOLEAN
    PROVE  AfterRun(f, r, seen, scopes, idWins) \in FindingRow
BY ObservedIsRow, AbsentIsRow DEF AfterRun

(* So do the operators' decisions. *)
LEMMA DecidedIsRow ==
    ASSUME now \in Time, NEW o \in FindingRow
    PROVE  Treated(o) \in FindingRow /\ Rejected(o) \in FindingRow /\ Reopened(o) \in FindingRow
BY DEF FindingRow, Treated, Rejected, Reopened, Statuses, ArchiveReasons, Time

(* Archiving and unarchiving change two fields of a row.                    *)
LEMMA ArchivedIsRow ==
    ASSUME NEW row \in FindingRow, NEW reason \in ArchiveReasons, NEW t \in Time
    PROVE  /\ [row EXCEPT !.archive = reason] \in FindingRow
           /\ [row EXCEPT !.archive = reason, !.unarchivedAt = t] \in FindingRow
BY DEF FindingRow

LEMMA Reasons ==
    {"none", "MANUAL", "RETENTION_POLICY"} \subseteq ArchiveReasons
BY DEF ArchiveReasons

(* Type correctness of every action, one step per action. *)
LEMMA TypeStep == TypeOK /\ [Next]_vars => TypeOK'
<1> SUFFICES ASSUME TypeOK, [Next]_vars
             PROVE  TypeOK'
  OBVIOUS
<1> USE DEF TypeOK
<1>1. ASSUME NEW r \in Runs, ClaimRun(r) \/ FinishCollection(r) \/ FailRun(r)
      PROVE  TypeOK'
  <2>1. run' \in [Runs -> RunRow]
    BY <1>1 DEF ClaimRun, FinishCollection, FailRun, RunRow, RunStates
  <2>2. QED
    BY <1>1, <2>1 DEF ClaimRun, FinishCollection, FailRun
<1>2. ASSUME NEW r \in Runs, PersistRun(r)
      PROVE  TypeOK'
  <2>1. PICK seen \in SUBSET Findings,
             scopes \in SUBSET (Rules \X (Regions \cup {AllRegions})),
             idWins \in BOOLEAN :
          /\ obs' = [f \in Findings |->
                       IF f \in seen THEN obs[f] \cup {r} ELSE obs[f]]
          /\ finding' = [f \in Findings |->
                           AfterRun(f, r, seen, scopes, idWins)]
    BY <1>2 DEF PersistRun
  <2>2. finding' \in [Findings -> FindingRow]
    BY <2>1, AfterRunIsRow
  <2>3. obs' \in [Findings -> SUBSET Runs]
    BY <2>1
  <2>4. run' \in [Runs -> RunRow]
    BY <1>2 DEF PersistRun, RunRow, RunStates
  <2>5. QED
    BY <1>2, <2>2, <2>3, <2>4 DEF PersistRun
<1>3. ASSUME NEW F \in SUBSET Findings, Treat(F) \/ Reject(F) \/ Reopen(F)
      PROVE  TypeOK'
  <2>1. finding' \in [Findings -> FindingRow]
    BY <1>3, DecidedIsRow DEF Treat, Reject, Reopen
  <2>2. QED
    BY <1>3, <2>1 DEF Treat, Reject, Reopen
<1>4. ASSUME NEW F \in SUBSET Findings
      PROVE  ArchivedManually(F) \in [Findings -> FindingRow]
  <2>1. \A f \in Findings : [finding[f] EXCEPT !.archive = "MANUAL"] \in FindingRow
    BY ArchivedIsRow, Reasons
  <2>2. QED
    BY <2>1 DEF ArchivedManually
<1>5. ASSUME NEW F \in SUBSET Findings, Archive(F)
      PROVE  TypeOK'
  BY <1>4, <1>5 DEF Archive
<1>6. ASSUME NEW f \in Findings, Unarchive(f)
      PROVE  TypeOK'
  <2>1. [finding[f] EXCEPT !.archive = "none", !.unarchivedAt = now] \in FindingRow
    <3>1. finding[f] \in FindingRow /\ now \in Time
      OBVIOUS
    <3>2. QED
      BY <3>1, ArchivedIsRow, Reasons
  <2>2. finding' = [finding EXCEPT ![f] =
                      [finding[f] EXCEPT !.archive = "none", !.unarchivedAt = now]]
    BY <1>6 DEF Unarchive
  <2>3. finding' \in [Findings -> FindingRow]
    <3> DEFINE row == [finding[f] EXCEPT !.archive = "none", !.unarchivedAt = now]
    <3>1. row \in FindingRow /\ finding' = [finding EXCEPT ![f] = row]
      BY <2>1, <2>2
    <3> HIDE DEF row
    <3>2. QED
      BY <3>1
  <2>4. QED
    BY <1>6, <2>3 DEF Unarchive
<1>7. ASSUME NEW status, SelectByFilter(status)
      PROVE  TypeOK'
  BY <1>7 DEF SelectByFilter
<1>8. ASSUME ArchiveSelected
      PROVE  TypeOK'
  BY <1>4, <1>8 DEF ArchiveSelected
<1>9. ASSUME NEW s \in Sweeps, SweepBatch(s)
      PROVE  TypeOK'
  <2>1. PICK batch \in SUBSET Findings :
          finding' = [f \in Findings |->
                        IF f \in batch
                        THEN [finding[f] EXCEPT !.archive = "RETENTION_POLICY"]
                        ELSE finding[f]]
    BY <1>9 DEF SweepBatch
  <2>2. \A f \in Findings :
          [finding[f] EXCEPT !.archive = "RETENTION_POLICY"] \in FindingRow
    BY ArchivedIsRow, Reasons
  <2>3. finding' \in [Findings -> FindingRow]
    BY <2>1, <2>2
  <2>4. QED
    BY <1>9, <2>3 DEF SweepBatch
<1>10. ASSUME NEW s \in Sweeps, StartSweep(s) \/ EndPolicy(s) \/ AbortSweep(s)
       PROVE  TypeOK'
  <2>1. sweep' \in [Sweeps -> [step : 0..4, at : Time]]
    <3> DEFINE Cursor == [step : 0..4, at : Time]
    <3>1. Idle \in Cursor /\ [step |-> 1, at |-> now] \in Cursor
      BY DEF Idle, Time, Never
    <3>2. (IF sweep[s].step = 4 THEN Idle
           ELSE [step |-> sweep[s].step + 1, at |-> sweep[s].at]) \in Cursor
      BY <3>1
    <3> HIDE DEF Cursor
    <3>3. sweep \in [Sweeps -> Cursor]
      BY DEF Cursor
    <3>4. sweep' \in [Sweeps -> Cursor]
      <4>1. CASE StartSweep(s)
        BY <4>1, <3>1, <3>3 DEF StartSweep
      <4>2. CASE EndPolicy(s)
        <5> DEFINE next == IF sweep[s].step = 4 THEN Idle
                           ELSE [step |-> sweep[s].step + 1, at |-> sweep[s].at]
        <5>1. sweep' = [sweep EXCEPT ![s] = next]
          BY <4>2 DEF EndPolicy
        <5>2. next \in Cursor
          BY <3>2
        <5> HIDE DEF next
        <5>3. QED
          BY <5>1, <5>2, <3>3
      <4>3. CASE AbortSweep(s)
        BY <4>3, <3>1, <3>3 DEF AbortSweep
      <4>4. QED
        BY <1>10, <4>1, <4>2, <4>3
    <3>5. QED
      BY <3>4 DEF Cursor
  <2>2. QED
    BY <1>10, <2>1 DEF StartSweep, EndPolicy, AbortSweep
<1>11. ASSUME Tick
       PROVE  TypeOK'
  BY <1>11 DEF Tick, Time
<1>12. ASSUME UNCHANGED vars
       PROVE  TypeOK'
  BY <1>12 DEF vars
<1>13. QED
  BY <1>1, <1>2, <1>3, <1>5, <1>6, <1>7, <1>8, <1>9, <1>10, <1>11, <1>12, DecidesOnce
     DEF Next, Collection, Archiving, Retention

(* The initial state is typed, and every step keeps it so. *)
THEOREM TypeCorrect == Spec => []TypeOK
<1>1. Init => TypeOK
  BY DEF Init, TypeOK, Time, RunRow, RunStates, FindingRow, NoFinding, Never,
         Statuses, Presences, ArchiveReasons, Idle
<1>2. QED
  BY <1>1, TypeStep, PTL DEF Spec

-----------------------------------------------------------------------------
(* What a collection does to a row, field by field. *)

(* Reactivation touches presence, and may unarchive; it lowers a review     *)
(* only of a rejected row.                                                  *)
LEMMA ReactivateEffect ==
    ASSUME now \in Time, run \in [Runs -> RunRow],
           NEW o \in FindingRow, NEW r \in Runs,
           NEW p, p = ReactivatePresence(o, r)
    PROVE  /\ p.status = o.status /\ p.treatedAt = o.treatedAt
           /\ p.lastSeenAt = o.lastSeenAt /\ p.lastSeenRun = o.lastSeenRun
           /\ p.absentIn = o.absentIn
           /\ p.needsReview = o.needsReview \/ (o.status = "rejected" /\ ~p.needsReview)
           /\ p.archive = o.archive \/ (o.status # "rejected" /\ p.archive = "none")
           /\ IF run[r].startedAt < o.reconciledAt
              THEN p = o
              ELSE /\ p.presence = "active" /\ p.missingCount = 0 /\ p.streak = {} /\ p.missingSince = Never
                   /\ p.reconciledRun = r /\ p.reconciledAt = run[r].startedAt
BY DEF ReactivatePresence, UnarchiveReappeared, FindingRow, RunRow, Archived

(* Observing a row either only creates it, or refreshes it as the latest.   *)
LEMMA ObserveEffect ==
    ASSUME now \in Time, run \in [Runs -> RunRow],
           NEW o \in FindingRow, NEW r \in Runs, NEW idWins \in BOOLEAN,
           NEW p, p = Observe(o, r, idWins)
    PROVE  /\ p.status = IF o.status = "none" THEN "open" ELSE o.status
           /\ p.treatedAt = o.treatedAt
           /\ p.absentIn = o.absentIn
           /\ p.archive = o.archive \/ (o.status # "rejected" /\ p.archive = "none")
           /\ \/ /\ p = o /\ o.status # "none"
                 /\ run[r].observedAt <= o.lastSeenAt
              \/ /\ p.lastSeenAt = run[r].observedAt /\ p.lastSeenRun = r
                 /\ \/ o.status = "none"
                    \/ run[r].observedAt >= o.lastSeenAt
                 /\ \/ /\ p.needsReview
                       /\ o.status = "treated" /\ run[r].observedAt > o.treatedAt
                    \/ /\ ~(o.status = "treated" /\ run[r].observedAt > o.treatedAt)
                       /\ \/ p.needsReview = o.needsReview
                          \/ o.status = "rejected" /\ ~p.needsReview
                 /\ IF run[r].startedAt < o.reconciledAt
                    THEN /\ p.streak = o.streak /\ p.missingCount = o.missingCount
                         /\ p.missingSince = o.missingSince
                         /\ p.reconciledRun = o.reconciledRun
                         /\ p.reconciledAt = o.reconciledAt
                         /\ p.presence = IF o.status = "none" THEN "active" ELSE o.presence
                    ELSE /\ p.presence = "active" /\ p.missingCount = 0 /\ p.streak = {} /\ p.missingSince = Never
                         /\ p.reconciledRun = r /\ p.reconciledAt = run[r].startedAt
<1> DEFINE row == IF o.status = "none" THEN Created(o, r) ELSE o
<1> DEFINE seen == [row EXCEPT !.lastSeenAt = run[r].observedAt, !.lastSeenRun = r]
<1> DEFINE react == ReactivatePresence(seen, r)
<1>1. run[r].startedAt \in Time /\ run[r].observedAt \in Time
  BY DEF RunRow
<1>2. /\ row \in FindingRow
      /\ row.status = IF o.status = "none" THEN "open" ELSE o.status
      /\ row.treatedAt = o.treatedAt /\ row.absentIn = o.absentIn
      /\ row.archive = o.archive /\ row.needsReview = o.needsReview
      /\ row.streak = o.streak /\ row.missingCount = o.missingCount
      /\ row.missingSince = o.missingSince
      /\ row.reconciledRun = o.reconciledRun /\ row.reconciledAt = o.reconciledAt
      /\ row.presence = IF o.status = "none" THEN "active" ELSE o.presence
      /\ o.status # "none" => row = o
      /\ o.status = "none" => row.lastSeenAt = run[r].observedAt /\ row.lastSeenRun = r
  BY <1>1 DEF FindingRow, Created, Statuses, Presences
<1> HIDE DEF row
<1>3. /\ seen \in FindingRow
      /\ seen.lastSeenAt = run[r].observedAt /\ seen.lastSeenRun = r
      /\ seen.status = row.status /\ seen.treatedAt = row.treatedAt
      /\ seen.absentIn = row.absentIn /\ seen.archive = row.archive
      /\ seen.needsReview = row.needsReview /\ seen.streak = row.streak
      /\ seen.missingCount = row.missingCount /\ seen.missingSince = row.missingSince
      /\ seen.reconciledRun = row.reconciledRun
      /\ seen.reconciledAt = row.reconciledAt /\ seen.presence = row.presence
  BY <1>1, <1>2 DEF FindingRow
<1> HIDE DEF seen
<1>4. /\ react \in FindingRow
      /\ react.status = seen.status /\ react.treatedAt = seen.treatedAt
      /\ react.lastSeenAt = seen.lastSeenAt /\ react.lastSeenRun = seen.lastSeenRun
      /\ react.absentIn = seen.absentIn
      /\ react.needsReview = seen.needsReview \/ (seen.status = "rejected" /\ ~react.needsReview)
      /\ react.archive = seen.archive \/ (seen.status # "rejected" /\ react.archive = "none")
      /\ IF run[r].startedAt < seen.reconciledAt
         THEN react = seen
         ELSE /\ react.presence = "active" /\ react.missingCount = 0 /\ react.streak = {} /\ react.missingSince = Never
              /\ react.reconciledRun = r /\ react.reconciledAt = run[r].startedAt
  BY <1>3, ReactivateEffect, ReactivatedIsRow
<1> HIDE DEF react
<1>5. CASE ~IsLatest(row, r, idWins)
  <2>1. p = row
    BY <1>5 DEF Observe, row
  <2>2. o.status # "none"
    BY <1>2, <1>5 DEF IsLatest
  <2>3. run[r].observedAt <= o.lastSeenAt
    BY <1>1, <1>2, <1>5, <2>2 DEF IsLatest, FindingRow, Time
  <2>4. QED
    BY <1>2, <2>1, <2>2, <2>3
<1>6. CASE IsLatest(row, r, idWins)
  <2>1. p = ReviewTreatment(react, r)
    BY <1>6 DEF Observe, row, seen, react
  <2>2. o.status = "none" \/ run[r].observedAt >= o.lastSeenAt
    BY <1>1, <1>2, <1>6 DEF IsLatest, FindingRow, Time
  <2>3. CASE react.status = "treated" /\ run[r].observedAt > react.treatedAt
    <3>1. /\ p.needsReview /\ p.status = react.status /\ p.treatedAt = react.treatedAt
          /\ p.absentIn = react.absentIn /\ p.archive = react.archive
          /\ p.lastSeenAt = react.lastSeenAt /\ p.lastSeenRun = react.lastSeenRun
          /\ p.streak = react.streak /\ p.missingCount = react.missingCount
          /\ p.missingSince = react.missingSince
          /\ p.reconciledRun = react.reconciledRun
          /\ p.reconciledAt = react.reconciledAt /\ p.presence = react.presence
      BY <2>1, <2>3, <1>4 DEF ReviewTreatment, FindingRow
    <3>2. o.status = "treated"
      BY <2>3, <1>2, <1>3, <1>4
    <3>3. /\ p.status = row.status /\ p.treatedAt = row.treatedAt
          /\ p.absentIn = row.absentIn
          /\ p.lastSeenAt = run[r].observedAt /\ p.lastSeenRun = r
          /\ p.archive = row.archive \/ (row.status # "rejected" /\ p.archive = "none")
      BY <3>1, <1>3, <1>4
    <3>4. run[r].observedAt > o.treatedAt
      BY <2>3, <1>2, <1>3, <1>4
    <3>5. IF run[r].startedAt < row.reconciledAt
          THEN /\ p.streak = row.streak /\ p.missingCount = row.missingCount
               /\ p.missingSince = row.missingSince
               /\ p.reconciledRun = row.reconciledRun
               /\ p.reconciledAt = row.reconciledAt
               /\ p.presence = row.presence
          ELSE /\ p.presence = "active" /\ p.missingCount = 0 /\ p.streak = {} /\ p.missingSince = Never
               /\ p.reconciledRun = r /\ p.reconciledAt = run[r].startedAt
      BY <3>1, <1>3, <1>4
    <3>6. p.archive = o.archive \/ (o.status # "rejected" /\ p.archive = "none")
      BY <3>3, <1>2
    <3>7. IF run[r].startedAt < o.reconciledAt
          THEN /\ p.streak = o.streak /\ p.missingCount = o.missingCount
               /\ p.missingSince = o.missingSince
               /\ p.reconciledRun = o.reconciledRun
               /\ p.reconciledAt = o.reconciledAt
               /\ p.presence = IF o.status = "none" THEN "active" ELSE o.presence
          ELSE /\ p.presence = "active" /\ p.missingCount = 0 /\ p.streak = {}
               /\ p.missingSince = Never
               /\ p.reconciledRun = r /\ p.reconciledAt = run[r].startedAt
      BY <3>5, <1>2
    <3>8. /\ p.status = IF o.status = "none" THEN "open" ELSE o.status
          /\ p.treatedAt = o.treatedAt /\ p.absentIn = o.absentIn
      BY <3>3, <1>2
    <3>9. QED
      BY <3>1, <3>2, <3>3, <3>4, <3>6, <3>7, <3>8, <2>2
  <2>4. CASE ~(react.status = "treated" /\ run[r].observedAt > react.treatedAt)
    <3>1. p = react
      BY <2>1, <2>4 DEF ReviewTreatment
    <3>2. ~(o.status = "treated" /\ run[r].observedAt > o.treatedAt)
      BY <2>4, <1>2, <1>3, <1>4
    <3>3. /\ p.status = row.status /\ p.treatedAt = row.treatedAt
          /\ p.absentIn = row.absentIn
          /\ p.lastSeenAt = run[r].observedAt /\ p.lastSeenRun = r
      BY <3>1, <1>3, <1>4
    <3>4. /\ p.needsReview = row.needsReview \/ (row.status = "rejected" /\ ~p.needsReview)
          /\ p.archive = row.archive \/ (row.status # "rejected" /\ p.archive = "none")
      BY <3>1, <1>3, <1>4
    <3>5. IF run[r].startedAt < row.reconciledAt
          THEN /\ p.streak = row.streak /\ p.missingCount = row.missingCount
               /\ p.missingSince = row.missingSince
               /\ p.reconciledRun = row.reconciledRun
               /\ p.reconciledAt = row.reconciledAt
               /\ p.presence = row.presence
          ELSE /\ p.presence = "active" /\ p.missingCount = 0 /\ p.streak = {} /\ p.missingSince = Never
               /\ p.reconciledRun = r /\ p.reconciledAt = run[r].startedAt
      BY <3>1, <1>3, <1>4
    <3>6. /\ p.needsReview = o.needsReview \/ (o.status = "rejected" /\ ~p.needsReview)
          /\ p.archive = o.archive \/ (o.status # "rejected" /\ p.archive = "none")
      BY <3>4, <1>2
    <3>7. IF run[r].startedAt < o.reconciledAt
          THEN /\ p.streak = o.streak /\ p.missingCount = o.missingCount
               /\ p.missingSince = o.missingSince
               /\ p.reconciledRun = o.reconciledRun
               /\ p.reconciledAt = o.reconciledAt
               /\ p.presence = IF o.status = "none" THEN "active" ELSE o.presence
          ELSE /\ p.presence = "active" /\ p.missingCount = 0 /\ p.streak = {}
               /\ p.missingSince = Never
               /\ p.reconciledRun = r /\ p.reconciledAt = run[r].startedAt
      BY <3>5, <1>2
    <3>8. /\ p.status = IF o.status = "none" THEN "open" ELSE o.status
          /\ p.treatedAt = o.treatedAt /\ p.absentIn = o.absentIn
      BY <3>3, <1>2
    <3>9. QED
      BY <3>2, <3>3, <3>6, <3>7, <3>8, <2>2
  <2>5. QED
    BY <2>3, <2>4
<1>7. QED
  BY <1>5, <1>6

(* Counting an absence leaves the human side of a row alone.                *)
LEMMA AbsentEffect ==
    ASSUME run \in [Runs -> RunRow], NEW o \in FindingRow, NEW r \in Runs,
           NEW p, p = MarkAbsent(o, r)
    PROVE  /\ p.status = o.status /\ p.treatedAt = o.treatedAt
           /\ p.needsReview = o.needsReview /\ p.archive = o.archive
           /\ p.lastSeenAt = o.lastSeenAt /\ p.lastSeenRun = o.lastSeenRun
           /\ p.reconciledRun = r /\ p.reconciledAt = run[r].startedAt
           /\ p.absentIn = o.absentIn \cup {r} /\ p.streak = o.streak \cup {r}
           /\ p.missingCount = o.missingCount + 1
           /\ p.missingSince = IF o.missingSince = Never
                               THEN run[r].startedAt ELSE o.missingSince
           /\ p.presence = IF o.missingCount + 1 >= MissingThreshold
                           THEN "resolved_externally" ELSE "missing"
BY DEF MarkAbsent, FindingRow

(* Archiving and sweeping write the archive columns only.                   *)
LEMMA ArchivingEffect ==
    ASSUME TypeOK,
           \/ \E F \in SUBSET Findings : Archive(F)
           \/ ArchiveSelected
           \/ \E f \in Findings : Unarchive(f)
           \/ \E status : SelectByFilter(status)
           \/ \E s \in Sweeps : SweepBatch(s)
    PROVE  /\ now' = now /\ run' = run /\ obs' = obs
           /\ \A f \in Findings :
                /\ finding'[f].status = finding[f].status
                /\ finding'[f].presence = finding[f].presence
                /\ finding'[f].missingCount = finding[f].missingCount
                /\ finding'[f].missingSince = finding[f].missingSince
                /\ finding'[f].reconciledRun = finding[f].reconciledRun
                /\ finding'[f].reconciledAt = finding[f].reconciledAt
                /\ finding'[f].lastSeenAt = finding[f].lastSeenAt
                /\ finding'[f].lastSeenRun = finding[f].lastSeenRun
                /\ finding'[f].treatedAt = finding[f].treatedAt
                /\ finding'[f].needsReview = finding[f].needsReview
                /\ finding'[f].absentIn = finding[f].absentIn
                /\ finding'[f].streak = finding[f].streak
<1> USE DEF TypeOK, FindingRow
<1>1. CASE \E F \in SUBSET Findings : Archive(F)
  BY <1>1 DEF Archive, ArchivedManually
<1>2. CASE ArchiveSelected
  BY <1>2 DEF ArchiveSelected, ArchivedManually
<1>3. CASE \E f \in Findings : Unarchive(f)
  BY <1>3 DEF Unarchive
<1>4. CASE \E status : SelectByFilter(status)
  BY <1>4 DEF SelectByFilter
<1>5. CASE \E s \in Sweeps : SweepBatch(s)
  <2>1. PICK s \in Sweeps : SweepBatch(s)
    BY <1>5
  <2>2. PICK batch :
          finding' = [f \in Findings |->
                        IF f \in batch
                        THEN [finding[f] EXCEPT !.archive = "RETENTION_POLICY"]
                        ELSE finding[f]]
    BY <2>1 DEF SweepBatch
  <2>3. QED
    BY <2>1, <2>2 DEF SweepBatch
<1>6. QED
  BY <1>1, <1>2, <1>3, <1>4, <1>5

-----------------------------------------------------------------------------
(* The review flag.                                                         *)

(* No row and no run carries a time of the future.                          *)
Clocks ==
    /\ \A r \in Runs : run[r].startedAt <= now /\ run[r].observedAt <= now
    /\ \A f \in Findings : finding[f].lastSeenAt <= now

ReviewInv == TypeOK /\ Clocks /\ ReviewIsExact

(* One row: what a run makes of it keeps the flag exact.                    *)
LEMMA AfterRunReview ==
    ASSUME TypeOK, Clocks, ReviewIsExact,
           NEW f \in Findings, NEW r \in Runs, NEW seen, NEW scopes,
           NEW idWins \in BOOLEAN,
           NEW p, p = AfterRun(f, r, seen, scopes, idWins)
    PROVE  /\ p.lastSeenAt <= now
           /\ p.needsReview <=> p.status = "treated" /\ p.lastSeenAt > p.treatedAt
<1> DEFINE o == finding[f]
<1>1. /\ o \in FindingRow
      /\ o.lastSeenAt \in Nat /\ o.treatedAt \in Nat /\ o.needsReview \in BOOLEAN
      /\ run[r].startedAt \in Nat /\ run[r].observedAt \in Nat /\ now \in Nat
      /\ run[r].observedAt <= now /\ o.lastSeenAt <= now
  BY DEF TypeOK, Clocks, FindingRow, RunRow, Time
<1>2. o.needsReview <=> o.status = "treated" /\ o.lastSeenAt > o.treatedAt
  BY DEF ReviewIsExact
<1>3. CASE p = o
  BY <1>1, <1>2, <1>3
<1>4. CASE p = Observe(o, r, idWins)
  <2>1. /\ p.status = IF o.status = "none" THEN "open" ELSE o.status
        /\ p.treatedAt = o.treatedAt
        /\ \/ p = o
           \/ /\ p.lastSeenAt = run[r].observedAt
              /\ \/ o.status = "none"
                 \/ run[r].observedAt >= o.lastSeenAt
              /\ \/ /\ p.needsReview
                    /\ o.status = "treated" /\ run[r].observedAt > o.treatedAt
                 \/ /\ ~(o.status = "treated" /\ run[r].observedAt > o.treatedAt)
                    /\ \/ p.needsReview = o.needsReview
                       \/ o.status = "rejected" /\ ~p.needsReview
    BY <1>1, <1>4, ObserveEffect DEF TypeOK
  <2> HIDE DEF o
  <2>2. p.lastSeenAt <= now
    BY <2>1, <1>1
  <2>3. p.needsReview <=> p.status = "treated" /\ p.lastSeenAt > p.treatedAt
    BY <2>1, <1>1, <1>2
  <2>4. QED
    BY <2>2, <2>3
<1>5. CASE p = MarkAbsent(o, r)
  <2>1. /\ p.status = o.status /\ p.treatedAt = o.treatedAt
        /\ p.needsReview = o.needsReview /\ p.lastSeenAt = o.lastSeenAt
    BY <1>1, <1>5, AbsentEffect DEF TypeOK
  <2>2. QED
    BY <2>1, <1>1, <1>2
<1>6. QED
  BY <1>3, <1>4, <1>5 DEF AfterRun

(* Every step keeps the flag exact and the clocks in the past.              *)
LEMMA ReviewStep == ReviewInv /\ [Next]_vars => ReviewInv'
<1> SUFFICES ASSUME ReviewInv, [Next]_vars
             PROVE  Clocks' /\ ReviewIsExact'
  BY TypeStep DEF ReviewInv
<1> USE DEF ReviewInv
<1>0. /\ now \in Nat
      /\ \A r \in Runs : run[r] \in RunRow
      /\ \A f \in Findings : finding[f] \in FindingRow
  BY DEF TypeOK, Time
<1>1. ASSUME NEW r \in Runs, ClaimRun(r) \/ FinishCollection(r) \/ FailRun(r)
      PROVE  Clocks' /\ ReviewIsExact'
  <2>1. \A q \in Runs : run'[q].startedAt <= now /\ run'[q].observedAt <= now
    <3>1. CASE ClaimRun(r)
      BY <1>0, <3>1 DEF TypeOK, Clocks, ClaimRun, RunRow
    <3>2. CASE FinishCollection(r)
      BY <1>0, <3>2 DEF TypeOK, Clocks, FinishCollection, RunRow
    <3>3. CASE FailRun(r)
      BY <1>0, <3>3 DEF TypeOK, Clocks, FailRun, RunRow
    <3>4. QED
      BY <1>1, <3>1, <3>2, <3>3
  <2>2. now' = now /\ finding' = finding
    BY <1>1 DEF ClaimRun, FinishCollection, FailRun
  <2>3. QED
    BY <2>1, <2>2 DEF Clocks, ReviewIsExact
<1>2. ASSUME NEW r \in Runs, PersistRun(r)
      PROVE  Clocks' /\ ReviewIsExact'
  <2>1. PICK seen \in SUBSET Findings,
             scopes \in SUBSET (Rules \X (Regions \cup {AllRegions})),
             idWins \in BOOLEAN :
          finding' = [f \in Findings |-> AfterRun(f, r, seen, scopes, idWins)]
    BY <1>2 DEF PersistRun
  <2>2. \A f \in Findings :
          /\ finding'[f].lastSeenAt <= now
          /\ finding'[f].needsReview <=>
               finding'[f].status = "treated" /\ finding'[f].lastSeenAt > finding'[f].treatedAt
    BY <2>1, AfterRunReview
  <2>3. \A q \in Runs : run'[q].startedAt <= now /\ run'[q].observedAt <= now
    BY <1>2 DEF TypeOK, Clocks, PersistRun, RunRow
  <2>4. now' = now
    BY <1>2 DEF PersistRun
  <2>5. QED
    BY <2>2, <2>3, <2>4 DEF Clocks, ReviewIsExact
<1>3. ASSUME NEW F \in SUBSET Findings, Treat(F) \/ Reject(F) \/ Reopen(F)
      PROVE  Clocks' /\ ReviewIsExact'
  <2>1. now' = now /\ run' = run
    BY <1>3 DEF Treat, Reject, Reopen
  <2>2. ASSUME NEW f \in Findings
        PROVE  /\ finding'[f].lastSeenAt <= now
               /\ finding'[f].needsReview <=>
                    finding'[f].status = "treated" /\ finding'[f].lastSeenAt > finding'[f].treatedAt
    <3>1. \/ finding'[f] = finding[f]
          \/ finding'[f] = Treated(finding[f])
          \/ finding'[f] = Rejected(finding[f])
          \/ finding'[f] = Reopened(finding[f])
      BY <1>3 DEF Treat, Reject, Reopen
    <3>2. /\ finding[f] \in FindingRow /\ finding[f].lastSeenAt \in Nat
          /\ finding[f].lastSeenAt <= now
      BY <1>0 DEF Clocks, FindingRow, Time
    <3>3. CASE finding'[f] = finding[f]
      BY <3>2, <3>3 DEF ReviewIsExact
    <3>4. CASE finding'[f] = Treated(finding[f])
      BY <1>0, <3>2, <3>4 DEF Treated, FindingRow
    <3>5. CASE finding'[f] = Rejected(finding[f])
      BY <3>2, <3>5 DEF Rejected, FindingRow
    <3>6. CASE finding'[f] = Reopened(finding[f])
      BY <3>2, <3>6 DEF Reopened, FindingRow
    <3>7. QED
      BY <3>1, <3>3, <3>4, <3>5, <3>6
  <2>3. QED
    BY <2>1, <2>2 DEF Clocks, ReviewIsExact
<1>4. ASSUME \/ Archiving
             \/ \E s \in Sweeps : SweepBatch(s)
      PROVE  Clocks' /\ ReviewIsExact'
  BY <1>4, ArchivingEffect DEF Archiving, Clocks, ReviewIsExact
<1>5. ASSUME NEW s \in Sweeps, StartSweep(s) \/ EndPolicy(s) \/ AbortSweep(s)
      PROVE  Clocks' /\ ReviewIsExact'
  BY <1>5 DEF StartSweep, EndPolicy, AbortSweep, Clocks, ReviewIsExact
<1>6. ASSUME Tick
      PROVE  Clocks' /\ ReviewIsExact'
  <2>1. \A r \in Runs : run[r].startedAt \in Nat /\ run[r].observedAt \in Nat
    BY <1>0 DEF RunRow, Time
  <2>2. \A f \in Findings : finding[f].lastSeenAt \in Nat
    BY <1>0 DEF FindingRow, Time
  <2>3. QED
    BY <1>0, <1>6, <2>1, <2>2 DEF Tick, Clocks, ReviewIsExact
<1>7. ASSUME UNCHANGED vars
      PROVE  Clocks' /\ ReviewIsExact'
  BY <1>7 DEF vars, Clocks, ReviewIsExact
<1>8. QED
  BY <1>1, <1>2, <1>3, <1>4, <1>5, <1>6, <1>7, DecidesOnce DEF Next, Collection, Retention

(* Every reachable state satisfies the review invariant: treatment, sight     *)
(* and archival of each finding agree after any interleaving.                *)
LEMMA ReviewInductive == Spec => []ReviewInv
<1>1. Init => ReviewInv
  <2>1. Init => TypeOK
    BY DEF Init, TypeOK, Time, RunRow, RunStates, FindingRow, NoFinding, Never,
           Statuses, Presences, ArchiveReasons, Idle
  <2>2. Init => Clocks /\ ReviewIsExact
    BY DEF Init, Clocks, ReviewIsExact, NoFinding, Never
  <2>3. QED
    BY <2>1, <2>2 DEF ReviewInv
<1>2. QED
  BY <1>1, ReviewStep, PTL DEF Spec

(* needs_review is exactly "treated, and seen since the treatment", however *)
(* runs overlap and whenever operators decide.                              *)
THEOREM ReviewExact == Spec => []ReviewIsExact
<1>1. ReviewInv => ReviewIsExact
  BY DEF ReviewInv
<1>2. QED
  BY <1>1, ReviewInductive, PTL

(* No sweep archives a treated opportunity seen again after its treatment.  *)
THEOREM SweepSpares == Spec => SweepSparesReappeared
<1> DEFINE Spares ==
      \A f \in Findings :
         /\ finding[f].archive = "none"
         /\ finding'[f].archive = "RETENTION_POLICY"
         /\ finding[f].status = "treated"
         => finding[f].lastSeenAt <= finding[f].treatedAt
<1>1. ReviewInv /\ [Next]_vars => [Spares]_vars
  <2> SUFFICES ASSUME ReviewInv, [Next]_vars, NEW f \in Findings,
                      finding[f].archive = "none",
                      finding'[f].archive = "RETENTION_POLICY",
                      finding[f].status = "treated"
               PROVE  finding[f].lastSeenAt <= finding[f].treatedAt
    OBVIOUS
  <2>1. ~finding[f].needsReview
    <3>1. finding[f] \in FindingRow /\ TypeOK
      BY DEF ReviewInv, TypeOK
    <3>2. CASE \E s \in Sweeps : SweepBatch(s)
      BY <3>1, <3>2 DEF SweepBatch, Eligible
    <3>3. CASE \E r \in Runs : PersistRun(r)
      <4>0. PICK r \in Runs : PersistRun(r)
        BY <3>3
      <4>1. PICK seen \in SUBSET Findings,
                 scopes \in SUBSET (Rules \X (Regions \cup {AllRegions})),
                 idWins \in BOOLEAN :
              finding' = [g \in Findings |-> AfterRun(g, r, seen, scopes, idWins)]
        BY <4>0 DEF PersistRun
      <4>2. CASE finding'[f] = Observe(finding[f], r, idWins)
        <5>1. finding'[f].archive = finding[f].archive \/ finding'[f].archive = "none"
          BY <3>1, <4>1, <4>2, ObserveEffect DEF TypeOK
        <5>2. QED
          BY <5>1
      <4>3. CASE finding'[f] = MarkAbsent(finding[f], r)
        <5>1. finding'[f].archive = finding[f].archive
          BY <3>1, <4>1, <4>3, AbsentEffect DEF TypeOK
        <5>2. QED
          BY <5>1
      <4>4. QED
        BY <4>1, <4>2, <4>3 DEF AfterRun
    <3>4. CASE Decision
      <4>1. \/ finding'[f] = finding[f]
            \/ finding'[f] = Treated(finding[f])
            \/ finding'[f] = Rejected(finding[f])
            \/ finding'[f] = Reopened(finding[f])
        BY <3>4, DecidesOnce DEF Treat, Reject, Reopen
      <4>2. finding'[f].archive = finding[f].archive \/ finding'[f].archive = "none"
        BY <3>1, <4>1 DEF Treated, Rejected, Reopened, FindingRow
      <4>3. QED
        BY <4>2
    <3>5. CASE Archiving
      <4>0. ASSUME NEW F, finding' = ArchivedManually(F)
            PROVE  finding'[f].archive \in {finding[f].archive, "MANUAL"}
        <5>1. \/ finding'[f] = finding[f]
              \/ finding'[f] = [finding[f] EXCEPT !.archive = "MANUAL"]
          BY <4>0 DEF ArchivedManually
        <5>2. QED
          BY <3>1, <5>1 DEF FindingRow
      <4>1. finding'[f].archive \in {finding[f].archive, "none", "MANUAL"}
        <5>1. CASE \E F \in SUBSET Findings : Archive(F)
          BY <4>0, <5>1 DEF Archive
        <5>2. CASE ArchiveSelected
          BY <4>0, <5>2 DEF ArchiveSelected
        <5>3. CASE \E g \in Findings : Unarchive(g)
          <6>1. \/ finding'[f] = finding[f]
                \/ finding'[f] = [finding[f] EXCEPT !.archive = "none",
                                                    !.unarchivedAt = now]
            BY <3>1, <5>3 DEF Unarchive, TypeOK
          <6>2. QED
            BY <3>1, <6>1 DEF FindingRow
        <5>4. CASE \E status \in Statuses \ {"none"} : SelectByFilter(status)
          BY <5>4 DEF SelectByFilter
        <5>5. QED
          BY <3>5, <5>1, <5>2, <5>3, <5>4 DEF Archiving
      <4>2. QED
        BY <4>1
    <3>6. CASE finding' = finding
      BY <3>6
    <3>7. QED
      BY <3>2, <3>3, <3>4, <3>5, <3>6
         DEF Next, Collection, Retention, ClaimRun, FinishCollection, FailRun,
             StartSweep, EndPolicy, AbortSweep, Tick, vars
  <2>2. finding[f].lastSeenAt \in Nat /\ finding[f].treatedAt \in Nat
    BY DEF ReviewInv, TypeOK, FindingRow, Time
  <2>3. QED
    BY <2>1, <2>2 DEF ReviewInv, ReviewIsExact
<1>2. QED
  BY <1>1, ReviewInductive, PTL DEF Spec, SweepSparesReappeared


-----------------------------------------------------------------------------
(* The columns collections own, and the steps that leave them alone.        *)

SamePresence(o, p) ==
    /\ o.status = "none" <=> p.status = "none"
    /\ p.presence = o.presence
    /\ p.missingCount = o.missingCount /\ p.missingSince = o.missingSince
    /\ p.reconciledRun = o.reconciledRun /\ p.reconciledAt = o.reconciledAt
    /\ p.lastSeenAt = o.lastSeenAt /\ p.lastSeenRun = o.lastSeenRun
    /\ p.absentIn = o.absentIn /\ p.streak = o.streak

(* Treating, rejecting and reopening leave presence alone.                  *)
LEMMA DecidedSamePresence ==
    ASSUME NEW o \in FindingRow, o.status # "none"
    PROVE  /\ SamePresence(o, Treated(o))
           /\ SamePresence(o, Rejected(o))
           /\ SamePresence(o, Reopened(o))
BY DEF SamePresence, Treated, Rejected, Reopened, FindingRow

Quiet ==
    /\ obs' = obs
    /\ \A f \in Findings : SamePresence(finding[f], finding'[f])
    /\ \A r \in Runs : run[r].state = "committed" => run'[r] = run[r]

(* Only a run that persists changes what collections own; and a run that    *)
(* succeeded never changes again.                                           *)
LEMMA QuietUnlessPersisting ==
    ASSUME TypeOK, [Next]_vars, ~ \E r \in Runs : PersistRun(r)
    PROVE  Quiet
<1>0. \A f \in Findings : finding[f] \in FindingRow /\ SamePresence(finding[f], finding[f])
  BY DEF TypeOK, SamePresence
<1>1. CASE \E r \in Runs : ClaimRun(r) \/ FinishCollection(r) \/ FailRun(r)
  <2>1. PICK r \in Runs : ClaimRun(r) \/ FinishCollection(r) \/ FailRun(r)
    BY <1>1
  <2>2. \A q \in Runs : run[q].state = "committed" => run'[q] = run[q]
    BY <2>1 DEF TypeOK, ClaimRun, FinishCollection, FailRun
  <2>3. obs' = obs /\ finding' = finding
    BY <2>1 DEF ClaimRun, FinishCollection, FailRun
  <2>4. QED
    BY <1>0, <2>2, <2>3 DEF Quiet
<1>2. CASE Decision
  <2>1. PICK F \in SUBSET Findings : Treat(F) \/ Reject(F) \/ Reopen(F)
    BY <1>2, DecidesOnce
  <2>2. ASSUME NEW f \in Findings
        PROVE  SamePresence(finding[f], finding'[f])
    <3>1. \/ finding'[f] = finding[f]
          \/ /\ finding[f].status # "none"
             /\ \/ finding'[f] = Treated(finding[f])
                \/ finding'[f] = Rejected(finding[f])
                \/ finding'[f] = Reopened(finding[f])
      BY <2>1 DEF Treat, Reject, Reopen
    <3>2. QED
      BY <1>0, <3>1, DecidedSamePresence
  <2>3. obs' = obs /\ run' = run
    BY <2>1 DEF Treat, Reject, Reopen
  <2>4. QED
    BY <2>2, <2>3 DEF Quiet
<1>3. CASE Archiving \/ \E s \in Sweeps : SweepBatch(s)
  BY <1>3, ArchivingEffect DEF Archiving, Quiet, SamePresence
<1>4. CASE finding' = finding /\ obs' = obs /\ run' = run
  BY <1>0, <1>4 DEF Quiet
<1>5. QED
  BY <1>1, <1>2, <1>3, <1>4
     DEF Next, Collection, Retention, StartSweep, EndPolicy, AbortSweep, Tick, vars

-----------------------------------------------------------------------------
(* The inductive invariant, row by row: what the observations S and the     *)
(* absences of a row o say of its columns, given the rows rn of the runs.   *)

Provenance(o, S, rn) ==
    /\ \A r \in S \cup o.absentIn : rn[r].state = "committed"
    /\ o.status = "none" => /\ S = {} /\ o.presence = "active" /\ o.streak = {}
                            /\ o.reconciledRun = NoRun /\ o.reconciledAt = Never
    /\ o.reconciledRun # NoRun =>
         /\ rn[o.reconciledRun].state = "committed"
         /\ rn[o.reconciledRun].startedAt = o.reconciledAt

Latest(o, S, rn) ==
    o.status # "none" => /\ o.lastSeenRun \in S
                         /\ rn[o.lastSeenRun].observedAt = o.lastSeenAt
                         /\ \A r \in S : rn[r].observedAt <= o.lastSeenAt

Proven(o, rn) ==
    /\ o.missingCount = Cardinality(o.streak)
    /\ o.presence = "active" <=> o.streak = {}
    /\ o.presence = "resolved_externally" <=> Cardinality(o.streak) >= MissingThreshold
    /\ \A q, r \in o.streak : q # r => rn[q].startedAt # rn[r].startedAt
    /\ \A r \in o.streak : /\ rn[r].state = "committed"
                           /\ o.missingSince <= rn[r].startedAt
                           /\ rn[r].startedAt <= o.reconciledAt

Strengthening(o) ==
    /\ o.streak \subseteq o.absentIn /\ IsFiniteSet(o.streak)
    /\ o.missingSince <= o.reconciledAt
    /\ o.streak # {} => o.missingSince # Never

RowHistory(o, S, rn) ==
    /\ Provenance(o, S, rn) /\ Latest(o, S, rn)
    /\ S \cap o.absentIn = {}
    /\ Proven(o, rn) /\ Strengthening(o)

HistoryInv == TypeOK /\ \A f \in Findings : RowHistory(finding[f], obs[f], run)

(* A row that keeps its presence keeps its history.                         *)
LEMMA QuietRow ==
    ASSUME NEW o \in FindingRow, NEW p \in FindingRow, NEW S \in SUBSET Runs,
           NEW rn \in [Runs -> RunRow], NEW rm \in [Runs -> RunRow],
           SamePresence(o, p),
           \A r \in Runs : rn[r].state = "committed" =>
               /\ rm[r].state = "committed"
               /\ rm[r].startedAt = rn[r].startedAt
               /\ rm[r].observedAt = rn[r].observedAt,
           RowHistory(o, S, rn)
    PROVE  RowHistory(p, S, rm)
<1>1. /\ o.absentIn \in SUBSET Runs /\ o.streak \in SUBSET Runs
      /\ o.reconciledRun # NoRun => o.reconciledRun \in Runs
  BY DEF FindingRow
<1>2. Provenance(p, S, rm)
  BY <1>1 DEF SamePresence, RowHistory, Provenance
<1>3. Latest(p, S, rm)
  BY <1>1 DEF SamePresence, RowHistory, Provenance, Latest
<1>4. Proven(p, rm)
  <2>1. \A r \in o.streak : rn[r].state = "committed"
    BY DEF RowHistory, Proven
  <2>2. \A r \in o.streak : /\ rm[r].state = "committed"
                            /\ rm[r].startedAt = rn[r].startedAt
    BY <1>1, <2>1
  <2>3. QED
    BY <2>2 DEF SamePresence, RowHistory, Proven
<1>5. QED
  BY <1>2, <1>3, <1>4 DEF SamePresence, RowHistory, Strengthening

-----------------------------------------------------------------------------
(* A run that persists.                                                     *)

(* It commits once, so no row knows it yet.                                 *)
LEMMA PersistingIsNew ==
    ASSUME NEW o \in FindingRow, NEW S \in SUBSET Runs, NEW r \in Runs,
           run[r].state = "persisting", RowHistory(o, S, run)
    PROVE  r \notin S /\ r \notin o.absentIn /\ r \notin o.streak /\ o.reconciledRun # r
<1>1. r \notin S /\ r \notin o.absentIn /\ o.reconciledRun # r
  BY RunAssumption DEF RowHistory, Provenance
<1>2. r \notin o.streak
  BY <1>1 DEF RowHistory, Strengthening
<1>3. QED
  BY <1>1, <1>2

(* Observing keeps the history of the row.                                  *)
LEMMA ObserveHistory ==
    ASSUME now \in Time, run \in [Runs -> RunRow], NEW rm \in [Runs -> RunRow],
           NEW o \in FindingRow, NEW S \in SUBSET Runs, NEW r \in Runs,
           NEW idWins \in BOOLEAN,
           run[r].state = "persisting", RowHistory(o, S, run),
           rm[r].state = "committed",
           \A q \in Runs : /\ run[q].state = "committed" => rm[q].state = "committed"
                           /\ rm[q].startedAt = run[q].startedAt
                           /\ rm[q].observedAt = run[q].observedAt
    PROVE  RowHistory(Observe(o, r, idWins), S \cup {r}, rm)
<1> DEFINE p == Observe(o, r, idWins)
<1>0. /\ run[r].startedAt \in Nat /\ run[r].observedAt \in Nat
      /\ o.lastSeenAt \in Nat /\ o.reconciledAt \in Nat
      /\ o.absentIn \in SUBSET Runs /\ o.streak \in SUBSET Runs
      /\ o.reconciledRun # NoRun => o.reconciledRun \in Runs
      /\ \A q \in Runs : run[q].observedAt \in Nat
  BY DEF FindingRow, RunRow, Time
<1>1. r \notin S /\ r \notin o.absentIn /\ r \notin o.streak /\ o.reconciledRun # r
  BY PersistingIsNew
<1>2. p \in FindingRow
  BY ObservedIsRow
<1>3. /\ p.status = IF o.status = "none" THEN "open" ELSE o.status
      /\ p.absentIn = o.absentIn
      /\ \/ /\ p = o /\ o.status # "none"
            /\ run[r].observedAt <= o.lastSeenAt
         \/ /\ p.lastSeenAt = run[r].observedAt /\ p.lastSeenRun = r
            /\ \/ o.status = "none"
               \/ run[r].observedAt >= o.lastSeenAt
            /\ IF run[r].startedAt < o.reconciledAt
               THEN /\ p.streak = o.streak /\ p.missingCount = o.missingCount
                    /\ p.missingSince = o.missingSince
                    /\ p.reconciledRun = o.reconciledRun
                    /\ p.reconciledAt = o.reconciledAt
                    /\ p.presence = IF o.status = "none" THEN "active" ELSE o.presence
               ELSE /\ p.presence = "active" /\ p.missingCount = 0 /\ p.streak = {} /\ p.missingSince = Never
                    /\ p.reconciledRun = r /\ p.reconciledAt = run[r].startedAt
  BY ObserveEffect
<1> HIDE DEF p
<1>4. p.missingSince <= p.reconciledAt
  <2>1. o.missingSince <= o.reconciledAt
    BY DEF RowHistory, Strengthening
  <2>2. QED
    BY <1>0, <1>3, <2>1 DEF Never
<1>5. Provenance(p, S \cup {r}, rm)
  BY <1>0, <1>1, <1>3 DEF RowHistory, Provenance
<1>6. Latest(p, S \cup {r}, rm)
  BY <1>0, <1>1, <1>3 DEF RowHistory, Provenance, Latest
<1>7. (S \cup {r}) \cap p.absentIn = {}
  BY <1>1, <1>3 DEF RowHistory
<1>8. CASE p.streak = {} /\ p.presence = "active" /\ p.missingCount = 0
  <2>1. Cardinality({}) = 0 /\ IsFiniteSet({})
    BY FS_EmptySet
  <2>2. Proven(p, rm)
    BY <1>8, <2>1, ThresholdAssumption DEF Proven
  <2>3. Strengthening(p)
    BY <1>4, <1>8, <2>1 DEF Strengthening
  <2>4. QED
    BY <1>5, <1>6, <1>7, <2>2, <2>3 DEF RowHistory, p
<1>9. CASE /\ p.streak = o.streak /\ p.missingCount = o.missingCount
           /\ p.missingSince = o.missingSince /\ p.reconciledAt = o.reconciledAt
           /\ p.presence = o.presence
  <2>1. \A q \in o.streak : run[q].state = "committed" /\ q \in Runs
    BY <1>0 DEF RowHistory, Proven
  <2>2. \A q \in o.streak : /\ rm[q].state = "committed"
                            /\ rm[q].startedAt = run[q].startedAt
    BY <2>1
  <2>3. Proven(p, rm)
    BY <1>9, <2>2 DEF RowHistory, Proven
  <2>4. Strengthening(p)
    BY <1>3, <1>9 DEF RowHistory, Strengthening
  <2>5. QED
    BY <1>5, <1>6, <1>7, <2>3, <2>4 DEF RowHistory, p
<1>10. QED
  BY <1>3, <1>8, <1>9 DEF RowHistory, Provenance

(* Counting an absence keeps the history of the row.                        *)
LEMMA AbsentHistory ==
    ASSUME run \in [Runs -> RunRow], NEW rm \in [Runs -> RunRow],
           NEW o \in FindingRow, NEW S \in SUBSET Runs, NEW r \in Runs,
           run[r].state = "persisting", RowHistory(o, S, run),
           CountsAsAbsence(o, r),
           rm[r].state = "committed",
           \A q \in Runs : /\ run[q].state = "committed" => rm[q].state = "committed"
                           /\ rm[q].startedAt = run[q].startedAt
                           /\ rm[q].observedAt = run[q].observedAt
    PROVE  RowHistory(MarkAbsent(o, r), S, rm)
<1> DEFINE p == MarkAbsent(o, r)
<1>0. /\ run[r].startedAt \in Nat /\ o.reconciledAt \in Nat
      /\ o.missingSince \in Nat /\ o.missingCount \in Nat
      /\ o.absentIn \in SUBSET Runs /\ o.streak \in SUBSET Runs
      /\ o.reconciledRun # NoRun => o.reconciledRun \in Runs
      /\ \A q \in Runs : run[q].startedAt \in Nat
  BY DEF FindingRow, RunRow, Time
<1>1. r \notin S /\ r \notin o.absentIn /\ r \notin o.streak /\ o.reconciledRun # r
  BY PersistingIsNew
<1>2. /\ o.status # "none" /\ o.presence # "resolved_externally"
      /\ run[r].startedAt > o.reconciledAt
  BY DEF CountsAsAbsence
<1>3. /\ p.status = o.status
      /\ p.lastSeenAt = o.lastSeenAt /\ p.lastSeenRun = o.lastSeenRun
      /\ p.reconciledRun = r /\ p.reconciledAt = run[r].startedAt
      /\ p.absentIn = o.absentIn \cup {r} /\ p.streak = o.streak \cup {r}
      /\ p.missingCount = o.missingCount + 1
      /\ p.missingSince = IF o.missingSince = Never
                          THEN run[r].startedAt ELSE o.missingSince
      /\ p.presence = IF o.missingCount + 1 >= MissingThreshold
                      THEN "resolved_externally" ELSE "missing"
  BY AbsentEffect
<1> HIDE DEF p
<1>4. Provenance(p, S, rm)
  BY <1>0, <1>2, <1>3 DEF RowHistory, Provenance
<1>5. Latest(p, S, rm)
  BY <1>3 DEF RowHistory, Latest
<1>6. S \cap p.absentIn = {}
  BY <1>1, <1>3 DEF RowHistory
<1>7. /\ IsFiniteSet(p.streak)
      /\ Cardinality(p.streak) = o.missingCount + 1
  <2>1. IsFiniteSet(o.streak) /\ Cardinality(o.streak) = o.missingCount
    BY DEF RowHistory, Strengthening, Proven
  <2>2. QED
    BY <1>1, <1>3, <2>1, FS_AddElement
<1>8. \A q \in o.streak : /\ rm[q].state = "committed"
                          /\ rm[q].startedAt = run[q].startedAt
                          /\ run[q].startedAt \in Nat
                          /\ o.missingSince <= run[q].startedAt
                          /\ run[q].startedAt <= o.reconciledAt
  BY <1>0 DEF RowHistory, Proven
<1>9. /\ p.missingSince <= run[r].startedAt
      /\ p.missingSince = o.missingSince \/ o.missingSince = Never
  BY <1>0, <1>2, <1>3 DEF RowHistory, Strengthening
<1>10. Strengthening(p)
  <2>1. p.missingSince # Never
    BY <1>0, <1>2, <1>3 DEF Never
  <2>2. QED
    BY <1>3, <1>7, <1>9, <2>1 DEF RowHistory, Strengthening
<1>11. Proven(p, rm)
  <2>1. \A q, s \in p.streak : q # s => rm[q].startedAt # rm[s].startedAt
    BY <1>0, <1>2, <1>3, <1>8 DEF RowHistory, Proven
  <2>2. ASSUME NEW q \in p.streak
        PROVE  /\ rm[q].state = "committed"
               /\ p.missingSince <= rm[q].startedAt
               /\ rm[q].startedAt <= p.reconciledAt
    <3>1. CASE q = r
      BY <1>0, <1>3, <1>9, <3>1
    <3>2. CASE q \in o.streak
      <4>1. o.missingSince # Never
        BY <3>2 DEF RowHistory, Strengthening
      <4>2. QED
        BY <1>0, <1>2, <1>3, <1>8, <3>2, <4>1
    <3>3. QED
      BY <1>3, <3>1, <3>2
  <2>3. p.presence # "active" /\ p.streak # {}
    BY <1>3
  <2>4. p.presence = "resolved_externally" <=> Cardinality(p.streak) >= MissingThreshold
    BY <1>3, <1>7
  <2>5. QED
    BY <1>3, <1>7, <2>1, <2>2, <2>3, <2>4 DEF Proven
<1>12. QED
  BY <1>4, <1>5, <1>6, <1>10, <1>11 DEF RowHistory, p

(* Every step keeps the history of every row.                               *)
LEMMA HistoryStep == HistoryInv /\ [Next]_vars => HistoryInv'
<1> SUFFICES ASSUME HistoryInv, [Next]_vars
             PROVE  HistoryInv'
  OBVIOUS
<1> USE DEF HistoryInv
<1>1. TypeOK'
  BY TypeStep
<1>2. /\ now \in Time /\ run \in [Runs -> RunRow] /\ run' \in [Runs -> RunRow]
      /\ \A f \in Findings : /\ finding[f] \in FindingRow /\ finding'[f] \in FindingRow
                             /\ obs[f] \in SUBSET Runs
  BY <1>1 DEF TypeOK
<1>3. CASE ~ \E r \in Runs : PersistRun(r)
  <2>1. Quiet
    BY <1>3, QuietUnlessPersisting
  <2>2. ASSUME NEW f \in Findings
        PROVE  RowHistory(finding'[f], obs'[f], run')
    <3>1. /\ SamePresence(finding[f], finding'[f]) /\ obs'[f] = obs[f]
          /\ \A r \in Runs : run[r].state = "committed" =>
               /\ run'[r].state = "committed"
               /\ run'[r].startedAt = run[r].startedAt
               /\ run'[r].observedAt = run[r].observedAt
      BY <2>1 DEF Quiet
    <3>2. QED
      BY <1>2, <3>1, QuietRow
  <2>3. QED
    BY <1>1, <2>2
<1>4. CASE \E r \in Runs : PersistRun(r)
  <2>1. PICK r \in Runs : PersistRun(r)
    BY <1>4
  <2>2. PICK seen \in SUBSET Findings,
             scopes \in SUBSET (Rules \X (Regions \cup {AllRegions})),
             idWins \in BOOLEAN :
          /\ obs' = [f \in Findings |->
                       IF f \in seen THEN obs[f] \cup {r} ELSE obs[f]]
          /\ finding' = [f \in Findings |-> AfterRun(f, r, seen, scopes, idWins)]
    BY <2>1 DEF PersistRun
  <2>3. /\ run[r].state = "persisting" /\ run'[r].state = "committed"
        /\ \A q \in Runs : /\ run[q].state = "committed" => run'[q].state = "committed"
                           /\ run'[q].startedAt = run[q].startedAt
                           /\ run'[q].observedAt = run[q].observedAt
    BY <1>2, <2>1 DEF PersistRun, RunRow
  <2>4. ASSUME NEW f \in Findings
        PROVE  RowHistory(finding'[f], obs'[f], run')
    <3>0. /\ RowHistory(finding[f], obs[f], run) /\ obs[f] \in SUBSET Runs
          /\ finding[f] \in FindingRow
      BY <1>2
    <3>1. CASE f \in seen
      <4>1. /\ finding'[f] = Observe(finding[f], r, idWins)
            /\ obs'[f] = obs[f] \cup {r}
        BY <2>2, <3>1 DEF AfterRun
      <4>2. RowHistory(Observe(finding[f], r, idWins), obs[f] \cup {r}, run')
        BY <1>2, <2>3, <3>0, ObserveHistory
      <4>3. QED
        BY <4>1, <4>2
    <3>2. CASE f \notin seen /\ Covered(f, scopes) /\ CountsAsAbsence(finding[f], r)
      <4>1. finding'[f] = MarkAbsent(finding[f], r) /\ obs'[f] = obs[f]
        BY <2>2, <3>2 DEF AfterRun
      <4>2. RowHistory(MarkAbsent(finding[f], r), obs[f], run')
        BY <1>2, <2>3, <3>0, <3>2, AbsentHistory
      <4>3. QED
        BY <4>1, <4>2
    <3>3. CASE f \notin seen /\ ~(Covered(f, scopes) /\ CountsAsAbsence(finding[f], r))
      <4>1. finding'[f] = finding[f] /\ obs'[f] = obs[f]
        BY <2>2, <3>3 DEF AfterRun
      <4>2. SamePresence(finding[f], finding'[f])
        BY <4>1 DEF SamePresence
      <4>3. QED
        BY <1>2, <2>3, <3>0, <4>1, <4>2, QuietRow
    <3>4. QED
      BY <3>1, <3>2, <3>3
  <2>5. QED
    BY <1>1, <2>4
<1>5. QED
  BY <1>3, <1>4

(* Every reachable state satisfies the history invariant: what the runs      *)
(* persisted, in any order of commits, is what the findings remember.        *)
LEMMA HistoryInductive == Spec => []HistoryInv
<1>1. Init => HistoryInv
  <2>1. Init => TypeOK
    BY DEF Init, TypeOK, Time, RunRow, RunStates, FindingRow, NoFinding, Never,
           Statuses, Presences, ArchiveReasons, Idle
  <2>2. Cardinality({}) = 0 /\ IsFiniteSet({})
    BY FS_EmptySet
  <2>3. ASSUME Init, NEW f \in Findings
        PROVE  RowHistory(finding[f], obs[f], run)
    <3>1. finding[f] = NoFinding /\ obs[f] = {}
      BY <2>3 DEF Init
    <3>2. QED
      BY <2>2, <3>1, ThresholdAssumption
         DEF NoFinding, Never, RowHistory, Provenance, Latest, Proven, Strengthening
  <2>4. QED
    BY <2>1, <2>3 DEF HistoryInv
<1>2. QED
  BY <1>1, HistoryStep, PTL DEF Spec

-----------------------------------------------------------------------------
(* The results.                                                             *)

(* last_seen_at and last_seen_collection_run_id are those of the latest     *)
(* observation, in whatever order the runs commit.                          *)
THEOREM LastSeenCorrect == Spec => []LastSeenIsLatest
<1>1. HistoryInv => LastSeenIsLatest
  BY DEF HistoryInv, RowHistory, Latest, LastSeenIsLatest, Exists
<1>2. QED
  BY <1>1, HistoryInductive, PTL

(* No run both observed a finding and counted it as absent.                 *)
THEOREM SeenNotAbsent == Spec => []SeenIsNotAbsent
<1>1. HistoryInv => SeenIsNotAbsent
  BY DEF HistoryInv, RowHistory, SeenIsNotAbsent
<1>2. QED
  BY <1>1, HistoryInductive, PTL

(* Absence is concluded from distinct successful runs, counted exactly; and *)
(* resolved_externally from at least MissingThreshold of them.              *)
THEOREM PresenceProven == Spec => []PresenceIsProven
<1>1. HistoryInv => PresenceIsProven
  BY DEF HistoryInv, RowHistory, Proven, PresenceIsProven
<1>2. QED
  BY <1>1, HistoryInductive, PTL

(* A run that commits late overrides nothing a later-started run concluded. *)
THEOREM LaterWins == Spec => LaterRunWins
<1> DEFINE Later(o, p) ==
      (o.presence # p.presence \/ o.missingCount # p.missingCount) =>
         \A q \in o.streak \cup {o.reconciledRun} :
             q # NoRun => run[q].startedAt <= run[p.reconciledRun].startedAt
<1>1. HistoryInv /\ [Next]_vars =>
        [\A f \in Findings : Later(finding[f], finding'[f])]_vars
  <2> SUFFICES ASSUME HistoryInv, [Next]_vars, NEW f \in Findings
               PROVE  Later(finding[f], finding'[f])
    OBVIOUS
  <2> DEFINE o == finding[f]
             p == finding'[f]
  <2>0. /\ TypeOK /\ o \in FindingRow /\ RowHistory(o, obs[f], run)
        /\ o.streak \in SUBSET Runs /\ o.reconciledAt \in Nat
        /\ o.reconciledRun # NoRun => o.reconciledRun \in Runs
        /\ \A q \in Runs : run[q].startedAt \in Nat
    BY DEF HistoryInv, TypeOK, FindingRow, RunRow, Time
  <2>1. CASE ~ \E r \in Runs : PersistRun(r)
    BY <2>0, <2>1, QuietUnlessPersisting DEF Quiet, SamePresence
  <2>2. CASE \E r \in Runs : PersistRun(r)
    <3>1. PICK r \in Runs : PersistRun(r)
      BY <2>2
    <3>2. PICK seen \in SUBSET Findings,
               scopes \in SUBSET (Rules \X (Regions \cup {AllRegions})),
               idWins \in BOOLEAN :
            finding' = [g \in Findings |-> AfterRun(g, r, seen, scopes, idWins)]
      BY <3>1 DEF PersistRun
    <3>3. \A q \in o.streak \cup {o.reconciledRun} :
            q # NoRun => run[q].startedAt <= o.reconciledAt
      BY <2>0 DEF RowHistory, Provenance, Proven
    <3>4. \/ p.presence = o.presence /\ p.missingCount = o.missingCount
          \/ /\ p.reconciledRun = r
             /\ run[r].startedAt >= o.reconciledAt
          \/ o.status = "none"
      <4>1. CASE p = Observe(o, r, idWins)
        <5>1. \/ o.status = "none"
              \/ p = o
              \/ IF run[r].startedAt < o.reconciledAt
                 THEN p.missingCount = o.missingCount /\ p.presence = o.presence
                 ELSE p.reconciledRun = r
          BY <2>0, <4>1, ObserveEffect DEF TypeOK
        <5>2. run[r].startedAt \in Nat
          BY <2>0
        <5> HIDE DEF o, p
        <5>3. QED
          BY <2>0, <5>1, <5>2
      <4>2. CASE p = MarkAbsent(o, r) /\ CountsAsAbsence(o, r)
        <5>1. p.reconciledRun = r
          BY <2>0, <4>2, AbsentEffect DEF TypeOK
        <5>2. run[r].startedAt >= o.reconciledAt
          BY <2>0, <4>2 DEF CountsAsAbsence
        <5>3. QED
          BY <5>1, <5>2
      <4>3. CASE p = o
        BY <4>3
      <4>4. QED
        BY <3>2, <4>1, <4>2, <4>3 DEF AfterRun
    <3>5. o.status = "none" => o.streak = {} /\ o.reconciledRun = NoRun
      BY <2>0 DEF RowHistory, Provenance
    <3> HIDE DEF o, p
    <3>6. Later(o, p)
      BY <2>0, <3>3, <3>4, <3>5
    <3>7. QED
      BY <3>6 DEF o, p
  <2>3. QED
    BY <2>1, <2>2
<1>2. QED
  BY <1>1, HistoryInductive, PTL DEF Spec, LaterRunWins

-----------------------------------------------------------------------------
(* The steps of the contract, of a row o that becomes p.                    *)

(* What the contract speaks of is left alone.                               *)
Kept(o, p) ==
    p.status = o.status /\ p.archive = o.archive /\ p.needsReview = o.needsReview

Discovered(o, p) ==
    o.status = "none" /\ p.status = "open" /\ p.archive = "none" /\ ~p.needsReview

Decided(o, p) ==
    /\ o.status = "open" /\ p.status \in {"treated", "rejected"}
    /\ p.archive = o.archive /\ ~p.needsReview

Restored(o, p) ==
    /\ o.status \in {"treated", "rejected"} /\ p.status = "open"
    /\ p.archive = IF o.status = "rejected" THEN "none" ELSE o.archive
    /\ ~p.needsReview

Hidden(o, p) ==
    /\ o.status # "none" /\ p.status = o.status
    /\ o.archive = "none" /\ p.archive = "MANUAL"
    /\ p.needsReview = o.needsReview

Retired(o, p) ==
    /\ o.status # "none" /\ p.status = o.status
    /\ o.archive = "none" /\ p.archive = "RETENTION_POLICY"
    /\ ~o.needsReview /\ ~p.needsReview

Returned(o, p) ==
    /\ o.status \in {"open", "treated"} /\ p.status = o.status
    /\ p.archive \in {o.archive, "none"}
    /\ p.needsReview = o.needsReview \/ (o.status = "treated" /\ p.needsReview)

Promised(o, p) ==
    \/ Discovered(o, p) \/ Decided(o, p) \/ Restored(o, p)
    \/ Hidden(o, p) \/ Retired(o, p) \/ Returned(o, p)
    \/ Kept(o, p)

(* Steps that do so to every row are steps of the contract.                 *)
LEMMA PromisedIsStep ==
    ASSUME TypeOK, TypeOK', \A f \in Findings : Promised(finding[f], finding'[f])
    PROVE  [Contract!Next]_Contract!vars
<1> SUFFICES ASSUME NEW f \in Findings
             PROVE  Contract!Step(f)
  BY DEF Contract!Next
<1>1. /\ finding[f].needsReview \in BOOLEAN /\ finding'[f].needsReview \in BOOLEAN
      /\ Promised(finding[f], finding'[f])
  BY DEF TypeOK, FindingRow
<1>2. CASE Kept(finding[f], finding'[f])
  BY <1>2 DEF Kept, Contract!Step, Contract!Keeps
<1>3. CASE Discovered(finding[f], finding'[f])
  BY <1>1, <1>3 DEF Discovered, Contract!Step, Contract!Discover
<1>4. CASE Decided(finding[f], finding'[f])
  BY <1>1, <1>4 DEF Decided, Contract!Step, Contract!Decide
<1>5. CASE Restored(finding[f], finding'[f])
  BY <1>1, <1>5 DEF Restored, Contract!Step, Contract!Reopen
<1>6. CASE Hidden(finding[f], finding'[f])
  BY <1>1, <1>6 DEF Hidden, Contract!Step, Contract!Hide
<1>7. CASE Retired(finding[f], finding'[f])
  BY <1>1, <1>7 DEF Retired, Contract!Step, Contract!Retire
<1>8. CASE Returned(finding[f], finding'[f])
  BY <1>1, <1>8 DEF Returned, Contract!Step, Contract!Return
<1>9. QED
  BY <1>1, <1>2, <1>3, <1>4, <1>5, <1>6, <1>7, <1>8 DEF Promised

-----------------------------------------------------------------------------
(* The invariant: the review flag is exact, presence follows from history,  *)
(* and a finding that has no row yet is neither archived nor selected.      *)

Bare ==
    /\ \A f \in Findings : Archived(finding[f]) => Exists(f)
    /\ \A f \in selected : Exists(f)

ContractInv == ReviewInv /\ HistoryInv /\ Bare

(* What it says of one row.                                                 *)
LEMMA RowFacts ==
    ASSUME ContractInv, NEW f \in Findings
    PROVE  /\ finding[f] \in FindingRow
           /\ finding[f].needsReview \in BOOLEAN
           /\ finding[f].needsReview => finding[f].status = "treated"
           /\ finding[f].archive \in ArchiveReasons
           /\ finding[f].status = "none" =>
                finding[f].archive = "none" /\ finding[f].presence = "active"
BY DEF ContractInv, ReviewInv, ReviewIsExact, HistoryInv, RowHistory, Provenance,
       Bare, TypeOK, FindingRow, Exists, Archived

-----------------------------------------------------------------------------
(* Who keeps the promises.                                                  *)

(* A collection that sees a row discovers it, returns it to the backlog, or *)
(* asks for its review; a rejected row stays silent (persist_findings).     *)
LEMMA ObservedPromised ==
    ASSUME ContractInv, NEW f \in Findings, NEW r \in Runs, NEW idWins \in BOOLEAN,
           NEW p, p = Observe(finding[f], r, idWins)
    PROVE  Promised(finding[f], p)
<1> DEFINE o == finding[f]
<1>1. /\ p.status = IF o.status = "none" THEN "open" ELSE o.status
      /\ p.archive = o.archive \/ (o.status # "rejected" /\ p.archive = "none")
      /\ \/ p = o /\ o.status # "none"
         \/ p.needsReview /\ o.status = "treated"
         \/ p.needsReview = o.needsReview
         \/ o.status = "rejected" /\ ~p.needsReview
  BY ObserveEffect, RowFacts DEF ContractInv, ReviewInv, TypeOK
<1>2. /\ o.needsReview => o.status = "treated"
      /\ o.needsReview \in BOOLEAN
      /\ o.status \in Statuses
      /\ o.status = "none" => o.archive = "none"
  BY RowFacts DEF FindingRow
<1> HIDE DEF o
<1>3. CASE p = o
  BY <1>3 DEF Promised, Kept, o
<1>4. CASE o.status = "none"
  BY <1>1, <1>2, <1>4 DEF Promised, Discovered, o
<1>5. CASE o.status = "rejected"
  <2>1. o.needsReview = FALSE
    BY <1>2, <1>5
  <2>2. p = o \/ p.needsReview = FALSE
    BY <1>1, <1>5, <2>1
  <2>3. QED
    BY <1>1, <1>5, <2>1, <2>2 DEF Promised, Kept, o
<1>6. CASE o.status \in {"open", "treated"}
  <2>1. p.status = o.status /\ p.archive \in {o.archive, "none"}
    BY <1>1, <1>6
  <2>2. p.needsReview = o.needsReview \/ (o.status = "treated" /\ p.needsReview)
    BY <1>1, <1>6
  <2>3. QED
    BY <1>6, <2>1, <2>2 DEF Promised, Returned, o
<1>7. QED
  BY <1>2, <1>4, <1>5, <1>6 DEF Statuses

(* A run discovers, returns or keeps each row.                              *)
LEMMA PersistPromised ==
    ASSUME ContractInv, NEW r \in Runs, PersistRun(r), NEW f \in Findings
    PROVE  Promised(finding[f], finding'[f])
<1>1. PICK seen \in SUBSET Findings,
           scopes \in SUBSET (Rules \X (Regions \cup {AllRegions})),
           idWins \in BOOLEAN :
        finding' = [g \in Findings |-> AfterRun(g, r, seen, scopes, idWins)]
  BY DEF PersistRun
<1>2. CASE finding'[f] = Observe(finding[f], r, idWins)
  BY <1>2, ObservedPromised
<1>3. CASE finding'[f] = MarkAbsent(finding[f], r)
  BY <1>3, AbsentEffect, RowFacts DEF ContractInv, ReviewInv, TypeOK, Promised, Kept
<1>4. CASE finding'[f] = finding[f]
  BY <1>4 DEF Promised, Kept
<1>5. QED
  BY <1>1, <1>2, <1>3, <1>4 DEF AfterRun

(* Operators decide and reopen; only reopening ends a rejection's silence   *)
(* (opportunity_lifecycle.py).                                              *)
LEMMA DecisionPromised ==
    ASSUME ContractInv, NEW F \in SUBSET Findings, Treat(F) \/ Reject(F) \/ Reopen(F),
           NEW f \in Findings
    PROVE  Promised(finding[f], finding'[f])
<1> DEFINE o == finding[f]
<1>1. o \in FindingRow
  BY RowFacts
<1>2. \/ finding'[f] = o
      \/ o.status = "open" /\ finding'[f] = Treated(o)
      \/ o.status = "open" /\ finding'[f] = Rejected(o)
      \/ o.status \in {"treated", "rejected"} /\ finding'[f] = Reopened(o)
  BY DEF Treat, Reject, Reopen
<1>3. /\ Treated(o).status = "treated" /\ Treated(o).archive = o.archive
      /\ ~Treated(o).needsReview
      /\ Rejected(o).status = "rejected" /\ Rejected(o).archive = o.archive
      /\ ~Rejected(o).needsReview
  BY <1>1 DEF Treated, Rejected, FindingRow
<1>4. /\ Reopened(o).status = "open" /\ ~Reopened(o).needsReview
      /\ Reopened(o).archive = IF o.status = "rejected" THEN "none" ELSE o.archive
  BY <1>1 DEF Reopened, Archived, FindingRow
<1>5. QED
  BY <1>2, <1>3, <1>4 DEF Promised, Kept, Decided, Restored

(* Operators hide and return rows that exist (opportunity_archiving.py,     *)
(* opportunity_bulk_archiving.py).                                          *)
LEMMA ArchivingPromised ==
    ASSUME ContractInv, Archiving, NEW f \in Findings
    PROVE  Promised(finding[f], finding'[f])
<1> DEFINE o == finding[f]
<1>1. o \in FindingRow /\ TypeOK
  BY RowFacts DEF ContractInv, ReviewInv
<1>2. ASSUME NEW F \in SUBSET Findings, \A g \in F : Exists(g), finding' = ArchivedManually(F)
      PROVE  Promised(o, finding'[f])
  <2>1. CASE f \in F /\ ~Archived(o)
    <3>1. finding'[f] = [o EXCEPT !.archive = "MANUAL"]
      BY <1>2, <2>1 DEF ArchivedManually
    <3>2. QED
      BY <1>1, <1>2, <2>1, <3>1 DEF Promised, Hidden, Exists, Archived, FindingRow
  <2>2. CASE ~(f \in F /\ ~Archived(o))
    BY <1>2, <2>2 DEF ArchivedManually, Promised, Kept
  <2>3. QED
    BY <2>1, <2>2
<1>3. ASSUME NEW F \in SUBSET Findings, Archive(F)
      PROVE  Promised(o, finding'[f])
  BY <1>2, <1>3 DEF Archive
<1>4. CASE ArchiveSelected
  BY <1>1, <1>2, <1>4 DEF ArchiveSelected, ContractInv, Bare, TypeOK
<1>5. ASSUME NEW g \in Findings, Unarchive(g)
      PROVE  Promised(o, finding'[f])
  <2>1. CASE f = g
    <3>1. /\ finding'[f].status = o.status /\ finding'[f].needsReview = o.needsReview
          /\ finding'[f].archive = "none"
      BY <1>1, <1>5, <2>1 DEF Unarchive, TypeOK, FindingRow
    <3>2. o.status \in {"open", "treated"}
      BY <1>1, <1>5, <2>1, RowFacts DEF Unarchive, Archived, FindingRow, Statuses
    <3>3. QED
      BY <3>1, <3>2 DEF Promised, Returned
  <2>2. CASE f # g
    BY <1>1, <1>5, <2>2 DEF Unarchive, TypeOK, Promised, Kept
  <2>3. QED
    BY <2>1, <2>2
<1>6. ASSUME NEW status, SelectByFilter(status)
      PROVE  Promised(o, finding'[f])
  BY <1>6 DEF SelectByFilter, Promised, Kept
<1>7. QED
  BY <1>3, <1>4, <1>5, <1>6 DEF Archiving

(* A sweep retires what exists and asks for no review                       *)
(* (opportunity_retention.py).                                              *)
LEMMA SweepPromised ==
    ASSUME ContractInv, NEW s \in Sweeps, SweepBatch(s), NEW f \in Findings
    PROVE  Promised(finding[f], finding'[f])
<1> DEFINE o == finding[f]
<1>1. PICK batch \in SUBSET {g \in Findings : Eligible(finding[g], Policy(s), Cutoff(s))} :
        finding' = [g \in Findings |->
                      IF g \in batch
                      THEN [finding[g] EXCEPT !.archive = "RETENTION_POLICY"]
                      ELSE finding[g]]
  BY DEF SweepBatch
<1>2. CASE f \in batch
  <2>1. Eligible(o, Policy(s), Cutoff(s)) /\ Policy(s) \in Policies
    BY <1>1, <1>2, RetentionAssumption DEF SweepBatch
  <2>2. ~Archived(o) /\ ~o.needsReview
    BY <2>1 DEF Eligible
  <2>3. o.status # "none"
    BY <2>1, RowFacts DEF Eligible, Expired, Policies
  <2>4. finding'[f] = [o EXCEPT !.archive = "RETENTION_POLICY"]
    BY <1>1, <1>2
  <2>5. o \in FindingRow
    BY RowFacts
  <2>6. QED
    BY <2>2, <2>3, <2>4, <2>5 DEF Promised, Retired, Archived, FindingRow
<1>3. CASE f \notin batch
  BY <1>1, <1>3 DEF Promised, Kept
<1>4. QED
  BY <1>2, <1>3

(* All of them together.                                                    *)
LEMMA StepPromised ==
    ASSUME ContractInv, [Next]_vars, NEW f \in Findings
    PROVE  Promised(finding[f], finding'[f])
<1>1. CASE \E r \in Runs : PersistRun(r)
  BY <1>1, PersistPromised
<1>2. CASE Decision
  BY <1>2, DecidesOnce, DecisionPromised
<1>3. CASE Archiving
  BY <1>3, ArchivingPromised
<1>4. CASE \E s \in Sweeps : SweepBatch(s)
  BY <1>4, SweepPromised
<1>5. CASE finding' = finding
  BY <1>5 DEF Promised, Kept
<1>6. QED
  BY <1>1, <1>2, <1>3, <1>4, <1>5
     DEF Next, Collection, Retention, ClaimRun, FinishCollection, FailRun,
         StartSweep, EndPolicy, AbortSweep, Tick, vars

-----------------------------------------------------------------------------
(* The invariant holds: a step that keeps the promises archives no row that *)
(* does not exist, and rows do not cease to exist.                          *)
LEMMA ContractStep == ContractInv /\ [Next]_vars => ContractInv'
<1> SUFFICES ASSUME ContractInv, [Next]_vars
             PROVE  Bare'
  BY ReviewStep, HistoryStep DEF ContractInv
<1>1. ASSUME NEW f \in Findings
      PROVE  /\ Exists(f) => Exists(f)'
             /\ Archived(finding[f])' => Exists(f)'
  <2>1. Promised(finding[f], finding'[f])
    BY StepPromised
  <2>2. finding[f].status = "none" => finding[f].archive = "none"
    BY RowFacts
  <2>3. QED
    BY <2>1, <2>2
       DEF Promised, Discovered, Decided, Restored, Hidden, Retired, Returned, Kept,
           Exists, Archived
<1>2. \A f \in selected' : f \in Findings /\ Exists(f)
  <2>1. \A f \in selected : f \in Findings /\ Exists(f)
    BY DEF ContractInv, Bare, ReviewInv, TypeOK
  <2>2. ASSUME NEW status \in Statuses \ {"none"}, SelectByFilter(status)
        PROVE  \A f \in selected' : f \in Findings /\ Exists(f)
    BY <2>2 DEF SelectByFilter, Exists
  <2>3. CASE selected' \in {selected, {}}
    BY <2>1, <2>3
  <2>4. QED
    BY <2>2, <2>3, DecidesOnce
       DEF Next, Collection, Archiving, Retention, ClaimRun,
           FinishCollection, PersistRun, FailRun, Treat, Reject, Reopen, Archive,
           Unarchive, ArchiveSelected, StartSweep, SweepBatch, EndPolicy,
           AbortSweep, Tick, vars
<1>3. QED
  BY <1>1, <1>2 DEF Bare

(* Every reachable state satisfies it.                                      *)
LEMMA ContractInductive == Spec => []ContractInv
<1>1. Init => Bare
  BY DEF Init, Bare, NoFinding, Archived
<1>2. ReviewInv /\ HistoryInv /\ Bare => ContractInv
  BY DEF ContractInv
<1>3. ContractInv /\ [Next]_vars => ContractInv'
  BY ContractStep
<1>4. QED
  BY <1>1, <1>2, <1>3, ReviewInductive, HistoryInductive, PTL DEF Spec

(* The machine of collections, operators and sweeps implements the          *)
(* contract: only people change the status of an opportunity, nothing but   *)
(* reopening ends the silence of a rejected one, and no policy retires one  *)
(* that asks for review.                                                    *)
THEOREM ContractImplemented == Spec => ImplementsContract
<1>1. Init => Contract!Init
  BY DEF Init, NoFinding, Contract!Init
<1>2. ContractInv /\ [Next]_vars => [Contract!Next]_Contract!vars
  <2>1. ContractInv /\ [Next]_vars => TypeOK /\ TypeOK'
    BY TypeStep DEF ContractInv, ReviewInv
  <2>2. QED
    BY <2>1, StepPromised, PromisedIsStep
<1>3. QED
  BY <1>1, <1>2, ContractInductive, PTL DEF Spec, ImplementsContract, Contract!Spec

=============================================================================
