--------------------------- MODULE Schedules_proofs ---------------------------
(***************************************************************************)
(* Proofs about scans and the loops that come back by themselves, for any  *)
(* number of accounts, workers, requests, processes, days, runs, commits,  *)
(* errors and deaths: a scan is held by one worker, agrees with its run,   *)
(* and has a bounded number of duplicates; a day of retention is swept by  *)
(* one instance at a time, and if it is said to have succeeded was swept   *)
(* whole under the policy it names; the record of a refresh of             *)
(* reservations is true at every commit; a deploy can be recovered from    *)
(* wherever it was stopped.                                                *)
(***************************************************************************)
EXTENDS RetentionScheduler, RdsPipeline, AutoDeploy, CollectionQueue, FiniteSetTheorems, TLAPS

-----------------------------------------------------------------------------
(* The daily retention (RetentionScheduler). *)

(* Whoever works on a day has its advisory lock.                           *)
HolderSweeps == \A w \in Instances : Sweeping(w) => holder[daily[w].day] = w

(* A sweep that has run knows the policy it ran under.                     *)
MarkKnows == \A w \in Instances : daily[w].step = "mark" => daily[w].version \in Versions

RetentionTyped == RetentionTypeOK /\ MarkKnows

RetentionInv == RetentionTyped /\ HolderSweeps /\ SuccessWasApplied

DailySteps == {"idle", "prepare", "sweep", "mark", "failing", "down"}

LEMMA PutIn ==
    ASSUME NEW S, NEW T, NEW f \in [S -> T], NEW x \in S, NEW v \in T
    PROVE  [f EXCEPT ![x] = v] \in [S -> T]
OBVIOUS

Stepped(r, s) == r \in Daily /\ r.step = s

(* The records a tick is in.                                               *)
LEMMA StepRow ==
    ASSUME NEW r \in Daily, NEW s \in DailySteps
    PROVE  Stepped([r EXCEPT !.step = s], s)
BY DEF Daily, DailySteps, Stepped

LEMMA DayRow ==
    ASSUME NEW r \in Daily, NEW s \in DailySteps, NEW d \in Dates
    PROVE  Stepped([r EXCEPT !.step = s, !.day = d], s)
BY DEF Daily, DailySteps, Stepped

LEMMA VersionRow ==
    ASSUME NEW r \in Daily, NEW s \in DailySteps, NEW v \in Versions \cup {NoVersion}
    PROVE  /\ Stepped([r EXCEPT !.step = s, !.version = v], s)
           /\ [r EXCEPT !.step = s, !.version = v].version = v
BY DEF Daily, DailySteps, Stepped

LEMMA OverRow ==
    ASSUME NEW r \in Checkpoint
    PROVE  [r EXCEPT !.over = TRUE] \in Checkpoint
BY DEF Checkpoint

LEMMA IdleRows ==
    /\ \A b \in BOOLEAN : Between(b) \in Daily
    /\ Stepped([Between(FALSE) EXCEPT !.step = "down"], "down")
<1>1. ASSUME NEW b \in BOOLEAN PROVE Between(b) \in Daily
    BY SchedulerAssumption DEF Daily, Between, Dates, Versions, NoVersion
<1>2. Stepped([Between(FALSE) EXCEPT !.step = "down"], "down")
    BY <1>1, StepRow DEF DailySteps
<1> QED BY <1>1, <1>2

LEMMA RetentionBegins == RetentionInit => RetentionInv
<1> SUFFICES ASSUME RetentionInit PROVE RetentionInv
    OBVIOUS
<1> USE SchedulerAssumption DEF RetentionInit, Dates, Versions, NoVersion
<1>1. RetentionTypeOK
    <2>1. checkpoint \in [Dates -> Checkpoint]
        BY DEF Checkpoint
    <2>2. daily \in [Instances -> Daily]
        BY IdleRows
    <2>3. applied \in [Dates -> SUBSET Versions]
        OBVIOUS
    <2>4. holder \in [Dates -> Instances \cup {"none"}]
        OBVIOUS
    <2>5. today \in Dates /\ policyVersion \in Versions /\ faults \in 0..MaxFaults
        OBVIOUS
    <2> QED BY <2>1, <2>2, <2>3, <2>4, <2>5 DEF RetentionTypeOK
<1>4. MarkKnows
    BY DEF MarkKnows, Between
<1>2. HolderSweeps
    BY DEF HolderSweeps, Sweeping, Between
<1>3. SuccessWasApplied
    BY DEF SuccessWasApplied
<1> QED BY <1>1, <1>2, <1>3, <1>4 DEF RetentionInv, RetentionTyped

(* Letting a lock go takes nobody else's (_release_lock).                  *)
LEMMA ReleaseIsOwn ==
    ASSUME RetentionTypeOK, NEW w \in Instances, Release(w)
    PROVE  /\ holder' \in [Dates -> Instances \cup {"none"}]
           /\ \A d \in Dates, v \in Instances : v # w /\ holder[d] = v => holder'[d] = v
BY SchedulerAssumption DEF Release, RetentionTypeOK

(* A tick moves one instance to one of its records.                        *)
LEMMA DailyMoves ==
    ASSUME RetentionTyped, NEW w \in Instances, NEW r \in Daily,
           daily' = [daily EXCEPT ![w] = r],
           r.step = "mark" => r.version \in Versions
    PROVE  daily' \in [Instances -> Daily] /\ MarkKnows'
<1>1. daily' \in [Instances -> Daily]
    BY PutIn DEF RetentionTyped, RetentionTypeOK
<1>2. \A v \in Instances : daily'[v] = IF v = w THEN r ELSE daily[v]
    BY DEF RetentionTyped, RetentionTypeOK
<1> QED BY <1>1, <1>2 DEF RetentionTyped, MarkKnows

LEMMA DailyGoesIdle ==
    ASSUME RetentionTyped, NEW w \in Instances, NEW b \in BOOLEAN,
           daily' = [daily EXCEPT ![w] = Between(b)]
    PROVE  daily' \in [Instances -> Daily] /\ MarkKnows'
<1>1. Between(b) \in Daily /\ Between(b).step # "mark"
    BY IdleRows DEF Between
<1> QED BY <1>1, DailyMoves

(* The types are kept by every step.                                       *)
LEMMA RetentionTypes ==
    ASSUME RetentionTyped, [RetentionNext]_retentionVars
    PROVE  RetentionTyped'
<1> USE SchedulerAssumption
<1>a. /\ RetentionTypeOK
      /\ \A w \in Instances : /\ daily[w] \in Daily /\ daily[w].day \in Dates
                              /\ daily[w].version \in Versions \cup {NoVersion}
    BY DEF RetentionTyped, RetentionTypeOK, Daily
<1>b. \A s \in {"none", "RUNNING", "SUCCESS", "FAILED"}, v \in Versions \cup {NoVersion},
         over \in BOOLEAN : [status |-> s, version |-> v, over |-> over] \in Checkpoint
    BY DEF Checkpoint
<1>c. \A d \in Dates, row \in Checkpoint :
         [checkpoint EXCEPT ![d] = row] \in [Dates -> Checkpoint]
    BY PutIn, <1>a DEF RetentionTypeOK
<1>d. Fault => faults' \in 0..MaxFaults
    BY <1>a DEF RetentionTypeOK, Fault
<1>1. ASSUME NEW w \in Instances, ClaimPeriod(w) PROVE RetentionTyped'
    <2> DEFINE row == [daily[w] EXCEPT !.step = "prepare", !.day = today]
    <2>1. today \in Dates
        BY <1>a DEF RetentionTypeOK
    <2>4. daily[w] \in Daily
        BY <1>a
    <2>2. CASE holder[today] = "none"
        <3>1. daily' = [daily EXCEPT ![w] = row]
            BY <1>1, <2>2 DEF ClaimPeriod
        <3>2. row \in Daily /\ row.step # "mark"
            BY <2>1, <2>4, DayRow DEF DailySteps, Stepped
        <3> HIDE DEF row
        <3>3. daily' \in [Instances -> Daily] /\ MarkKnows'
            BY <3>1, <3>2, DailyMoves
        <3>4. holder' \in [Dates -> Instances \cup {"none"}]
            BY <1>1, <1>a, <2>1, <2>2 DEF ClaimPeriod, RetentionTypeOK
        <3> QED BY <1>1, <1>a, <3>3, <3>4 DEF ClaimPeriod, RetentionTypeOK, RetentionTyped
    <2>3. CASE holder[today] # "none"
        <3>1. daily' = [daily EXCEPT ![w] = Between(FALSE)]
            BY <1>1, <2>3 DEF ClaimPeriod
        <3> QED BY <1>1, <1>a, <2>3, <3>1, DailyGoesIdle
                DEF ClaimPeriod, RetentionTypeOK, RetentionTyped
    <2> QED BY <2>2, <2>3
<1>2. ASSUME NEW w \in Instances, PreparePeriod(w) PROVE RetentionTyped'
    <2> DEFINE d == daily[w].day
               row == [daily[w] EXCEPT !.step = "sweep"]
    <2>3. daily[w] \in Daily
        BY <1>a
    <2>1. CASE Settled(d) \/ BackingOff(d)
        <3>1. daily' = [daily EXCEPT ![w] = Between(FALSE)] /\ Release(w) /\ UNCHANGED checkpoint
            BY <1>2, <2>1 DEF PreparePeriod
        <3> QED BY <1>2, <1>a, <3>1, DailyGoesIdle, ReleaseIsOwn
                DEF PreparePeriod, RetentionTypeOK, RetentionTyped
    <2>2. CASE ~(Settled(d) \/ BackingOff(d))
        <3>1. /\ daily' = [daily EXCEPT ![w] = row] /\ UNCHANGED holder
              /\ checkpoint' = [checkpoint EXCEPT ![d] =
                    [status |-> "RUNNING", version |-> NoVersion, over |-> FALSE]]
            BY <1>2, <2>2 DEF PreparePeriod
        <3>2. row \in Daily /\ row.step # "mark"
            BY <2>3, StepRow DEF DailySteps, Stepped
        <3> HIDE DEF row
        <3>3. daily' \in [Instances -> Daily] /\ MarkKnows'
            BY <3>1, <3>2, DailyMoves
        <3>4. checkpoint' \in [Dates -> Checkpoint]
            BY <3>1, <1>a, <1>b, <1>c
        <3> QED BY <1>2, <1>a, <3>1, <3>3, <3>4
                DEF PreparePeriod, RetentionTypeOK, RetentionTyped
    <2> QED BY <2>1, <2>2
<1>3. ASSUME NEW w \in Instances, StartSweep(w) PROVE RetentionTyped'
    <2> DEFINE row == [daily[w] EXCEPT !.step = "mark", !.version = policyVersion]
    <2>1. policyVersion \in Versions
        BY <1>a DEF RetentionTypeOK
    <2>5. daily[w] \in Daily
        BY <1>a
    <2>6. policyVersion \in Versions \cup {NoVersion} /\ "mark" \in DailySteps
        BY <2>1 DEF DailySteps
    <2>7. Stepped(row, "mark") /\ row.version = policyVersion
        BY <2>5, <2>6, VersionRow
    <2>2. row \in Daily /\ row.version \in Versions
        BY <2>1, <2>7 DEF Stepped
    <2>3. daily' = [daily EXCEPT ![w] = row]
        BY <1>3 DEF StartSweep
    <2> HIDE DEF row
    <2>4. daily' \in [Instances -> Daily] /\ MarkKnows'
        BY <2>2, <2>3, DailyMoves
    <2> QED BY <1>3, <1>a, <2>4 DEF StartSweep, RetentionTypeOK, RetentionTyped
<1>4. ASSUME NEW w \in Instances, MarkSuccess(w) PROVE RetentionTyped'
    <2> DEFINE d == daily[w].day
               v == daily[w].version
    <2>1. v \in Versions
        BY <1>4 DEF MarkSuccess, RetentionTyped, MarkKnows
    <2>2. checkpoint' = [checkpoint EXCEPT ![d] =
                            [status |-> "SUCCESS", version |-> v, over |-> FALSE]]
        BY <1>4 DEF MarkSuccess
    <2>3. checkpoint' \in [Dates -> Checkpoint]
        BY <2>2, <1>a, <1>b, <1>c
    <2>4. daily' \in [Instances -> Daily] /\ MarkKnows'
        BY <1>4, DailyGoesIdle DEF MarkSuccess
    <2>5. applied \in [Dates -> SUBSET Versions] /\ d \in Dates
        BY <1>a DEF RetentionTypeOK
    <2>6. applied' = [applied EXCEPT ![d] = applied[d] \cup {v}]
        BY <1>4 DEF MarkSuccess
    <2>7. applied' \in [Dates -> SUBSET Versions]
        BY <2>1, <2>5, <2>6
    <2> QED BY <1>4, <1>a, <2>3, <2>4, <2>7, ReleaseIsOwn
            DEF MarkSuccess, RetentionTypeOK, RetentionTyped
<1>5. ASSUME NEW w \in Instances, MarkFailed(w) PROVE RetentionTyped'
    <2>1. checkpoint' \in [Dates -> Checkpoint]
        <3>1. CASE UNCHANGED checkpoint
            BY <3>1, <1>a DEF RetentionTypeOK
        <3>2. ASSUME NEW over \in BOOLEAN,
                     checkpoint' = [checkpoint EXCEPT ![daily[w].day] =
                        [status |-> "FAILED", version |-> NoVersion, over |-> over]]
              PROVE  checkpoint' \in [Dates -> Checkpoint]
            BY <3>2, <1>a, <1>b, <1>c
        <3> QED BY <1>5, <3>1, <3>2 DEF MarkFailed
    <2>2. faults' \in 0..MaxFaults
        BY <1>5, <1>a, <1>d DEF MarkFailed, RetentionTypeOK
    <2>3. daily' \in [Instances -> Daily] /\ MarkKnows'
        BY <1>5, DailyGoesIdle DEF MarkFailed
    <2> QED BY <1>5, <1>a, <2>1, <2>2, <2>3, ReleaseIsOwn
            DEF MarkFailed, RetentionTypeOK, RetentionTyped
<1>6. ASSUME NEW w \in Instances, RetentionRestart(w) \/ RecheckDue(w) PROVE RetentionTyped'
    <2>1. daily' = [daily EXCEPT ![w] = Between(TRUE)]
        BY <1>6 DEF RetentionRestart, RecheckDue
    <2> QED BY <1>6, <1>a, <2>1, DailyGoesIdle
            DEF RetentionRestart, RecheckDue, RetentionTypeOK, RetentionTyped
<1>7. ASSUME NEW w \in Instances, ClaimError(w) PROVE RetentionTyped'
    <2> DEFINE row == [daily[w] EXCEPT !.step = "failing", !.day = today]
    <2>1. daily' = [daily EXCEPT ![w] = row]
        BY <1>7 DEF ClaimError
    <2>2. today \in Dates
        BY <1>a DEF RetentionTypeOK
    <2>5. daily[w] \in Daily
        BY <1>a
    <2>3. row \in Daily /\ row.step # "mark"
        BY <2>2, <2>5, DayRow DEF DailySteps, Stepped
    <2> HIDE DEF row
    <2>4. daily' \in [Instances -> Daily] /\ MarkKnows'
        BY <2>1, <2>3, DailyMoves
    <2> QED BY <1>7, <1>a, <1>d, <2>4 DEF ClaimError, RetentionTypeOK, RetentionTyped
<1>8. ASSUME NEW w \in Instances, PeriodError(w) PROVE RetentionTyped'
    <2> DEFINE row == [daily[w] EXCEPT !.step = "failing", !.version = NoVersion]
    <2>1. daily' = [daily EXCEPT ![w] = row]
        BY <1>8 DEF PeriodError
    <2>5. daily[w] \in Daily /\ NoVersion \in Versions \cup {NoVersion}
        BY <1>a
    <2>2. row \in Daily /\ row.step # "mark"
        BY <2>5, VersionRow DEF DailySteps, Stepped
    <2> HIDE DEF row
    <2>3. daily' \in [Instances -> Daily] /\ MarkKnows'
        BY <2>1, <2>2, DailyMoves
    <2> QED BY <1>8, <1>a, <1>d, <2>3 DEF PeriodError, RetentionTypeOK, RetentionTyped
<1>9. ASSUME NEW w \in Instances, RetentionCrash(w) PROVE RetentionTyped'
    <2> DEFINE row == [Between(FALSE) EXCEPT !.step = "down"]
    <2>1. daily' = [daily EXCEPT ![w] = row]
        BY <1>9 DEF RetentionCrash
    <2>2. row \in Daily /\ row.step # "mark"
        BY IdleRows DEF Stepped
    <2> HIDE DEF row
    <2>3. daily' \in [Instances -> Daily] /\ MarkKnows'
        BY <2>1, <2>2, DailyMoves
    <2> QED BY <1>9, <1>a, <1>d, <2>3, ReleaseIsOwn
            DEF RetentionCrash, RetentionTypeOK, RetentionTyped
<1>10. ASSUME NEW d \in Dates, BackoffOver(d) PROVE RetentionTyped'
    <2>1. checkpoint' = [checkpoint EXCEPT ![d] = [checkpoint[d] EXCEPT !.over = TRUE]]
        BY <1>10 DEF BackoffOver
    <2>4. checkpoint[d] \in Checkpoint
        BY <1>a DEF RetentionTypeOK
    <2>2. [checkpoint[d] EXCEPT !.over = TRUE] \in Checkpoint
        BY <2>4, OverRow
    <2>3. checkpoint' \in [Dates -> Checkpoint]
        BY <1>c, <2>1, <2>2
    <2> QED BY <1>10, <1>a, <2>3 DEF BackoffOver, RetentionTypeOK, RetentionTyped, MarkKnows
<1>11. CASE Midnight
    BY <1>11, <1>a DEF Midnight, RetentionTypeOK, RetentionTyped, MarkKnows, Dates
<1>12. CASE SavePolicy
    BY <1>12, <1>a DEF SavePolicy, RetentionTypeOK, RetentionTyped, MarkKnows, Versions
<1>13. CASE UNCHANGED retentionVars
    BY <1>13, <1>a DEF retentionVars, RetentionTypeOK, RetentionTyped, MarkKnows
<1> QED
    BY <1>1, <1>2, <1>3, <1>4, <1>5, <1>6, <1>7, <1>8, <1>9, <1>10, <1>11, <1>12, <1>13
       DEF RetentionNext, DailyWork

(* Only a claim takes a lock, and only from nobody; only its owner lets it  *)
(* go, and then is no longer at work (_claim_period, _release_lock).       *)
LEMMA HolderKept ==
    ASSUME RetentionTypeOK, HolderSweeps, [RetentionNext]_retentionVars
    PROVE  HolderSweeps'
<1> USE SchedulerAssumption
<1>a. /\ daily \in [Instances -> Daily]
      /\ holder \in [Dates -> Instances \cup {"none"}] /\ today \in Dates
      /\ \A w \in Instances : daily[w].day \in Dates
    BY DEF RetentionTypeOK, Daily
<1>1. ASSUME NEW w \in Instances, ClaimPeriod(w) PROVE HolderSweeps'
    <2>1. CASE holder[today] = "none"
        <3>1. /\ daily' = [daily EXCEPT ![w] = [daily[w] EXCEPT !.step = "prepare", !.day = today]]
              /\ holder' = [holder EXCEPT ![today] = w]
            BY <1>1, <2>1 DEF ClaimPeriod
        <3>2. daily'[w].day = today /\ holder'[today] = w
            BY <3>1, <1>a DEF Daily
        <3>3. \A v \in Instances : v # w /\ Sweeping(v) => holder[daily[v].day] = v
            BY DEF HolderSweeps
        <3>4. \A v \in Instances : v # w => daily'[v] = daily[v]
            BY <3>1, <1>a
        <3>5. \A v \in Instances : v # w /\ Sweeping(v) => daily[v].day # today
            BY <2>1, <3>3
        <3>6. \A d \in Dates : d # today => holder'[d] = holder[d]
            BY <3>1, <1>a
        <3> QED BY <1>a, <3>2, <3>3, <3>4, <3>5, <3>6 DEF HolderSweeps, Sweeping
    <2>2. CASE holder[today] # "none"
        BY <1>1, <1>a, <2>2 DEF ClaimPeriod, HolderSweeps, Sweeping, Between
    <2> QED BY <2>1, <2>2
<1>2. ASSUME NEW w \in Instances, UNCHANGED holder,
             \A v \in Instances : v # w => daily'[v] = daily[v],
             Sweeping(w)' => Sweeping(w) /\ daily'[w].day = daily[w].day
      PROVE  HolderSweeps'
    BY <1>2 DEF HolderSweeps, Sweeping
<1>3. ASSUME NEW w \in Instances, Release(w), ~Sweeping(w)',
             \A v \in Instances : v # w => daily'[v] = daily[v]
      PROVE  HolderSweeps'
    BY <1>3, <1>a, ReleaseIsOwn DEF HolderSweeps, Sweeping
<1>4. ASSUME NEW w \in Instances, Release(w), daily' = [daily EXCEPT ![w] = Between(FALSE)]
      PROVE  HolderSweeps'
    BY <1>3, <1>4, <1>a DEF Sweeping, Between
<1>5. ASSUME NEW w \in Instances, PreparePeriod(w) PROVE HolderSweeps'
    <2>1. CASE Settled(daily[w].day) \/ BackingOff(daily[w].day)
        BY <1>4, <1>5, <2>1 DEF PreparePeriod
    <2>2. CASE ~(Settled(daily[w].day) \/ BackingOff(daily[w].day))
        <3>1. daily' = [daily EXCEPT ![w] = [daily[w] EXCEPT !.step = "sweep"]]
              /\ UNCHANGED holder
            BY <1>5, <2>2 DEF PreparePeriod
        <3>2. daily'[w].day = daily[w].day /\ Sweeping(w)
            BY <1>5, <1>a, <3>1 DEF Daily, Sweeping, PreparePeriod
        <3> QED BY <1>2, <1>a, <3>1, <3>2
    <2> QED BY <2>1, <2>2
<1>6. ASSUME NEW w \in Instances, StartSweep(w) PROVE HolderSweeps'
    <2>1. daily'[w].day = daily[w].day /\ Sweeping(w)
        BY <1>6, <1>a DEF StartSweep, Daily, Sweeping
    <2> QED BY <1>2, <1>6, <1>a, <2>1 DEF StartSweep
<1>7. ASSUME NEW w \in Instances, RetentionRestart(w) \/ RecheckDue(w) PROVE HolderSweeps'
    <2>1. daily' = [daily EXCEPT ![w] = Between(TRUE)] /\ UNCHANGED holder
        BY <1>7 DEF RetentionRestart, RecheckDue
    <2>2. daily'[w].step = "idle"
        BY <1>a, <2>1 DEF Between
    <2>3. ~Sweeping(w)'
        BY <2>2 DEF Sweeping
    <2>4. \A v \in Instances : v # w => daily'[v] = daily[v]
        BY <1>a, <2>1
    <2> QED BY <1>2, <2>1, <2>3, <2>4
<1>8. ASSUME NEW w \in Instances, ClaimError(w) \/ PeriodError(w) PROVE HolderSweeps'
    <2>1. daily[w] \in Daily
        BY <1>a
    <2>3. ASSUME NEW r \in Daily, r.step = "failing", daily' = [daily EXCEPT ![w] = r],
                 UNCHANGED holder
          PROVE  HolderSweeps'
        <3>1. ~Sweeping(w)' /\ \A v \in Instances : v # w => daily'[v] = daily[v]
            BY <1>a, <2>3 DEF Sweeping
        <3> QED BY <1>2, <2>3, <3>1
    <2>4. CASE ClaimError(w)
        <3> DEFINE r == [daily[w] EXCEPT !.step = "failing", !.day = today]
        <3>1. r \in Daily /\ r.step = "failing"
            BY <1>a, <2>1, DayRow DEF DailySteps, Stepped
        <3>2. daily' = [daily EXCEPT ![w] = r] /\ UNCHANGED holder
            BY <2>4 DEF ClaimError
        <3> HIDE DEF r
        <3> QED BY <2>3, <3>1, <3>2
    <2>5. CASE PeriodError(w)
        <3> DEFINE r == [daily[w] EXCEPT !.step = "failing", !.version = NoVersion]
        <3>1. NoVersion \in Versions \cup {NoVersion}
            OBVIOUS
        <3>2. r \in Daily /\ r.step = "failing"
            BY <2>1, <3>1, VersionRow DEF DailySteps, Stepped
        <3>3. daily' = [daily EXCEPT ![w] = r] /\ UNCHANGED holder
            BY <2>5 DEF PeriodError
        <3> HIDE DEF r
        <3> QED BY <2>3, <3>2, <3>3
    <2> QED BY <1>8, <2>4, <2>5
<1>9. ASSUME NEW w \in Instances, RetentionCrash(w) PROVE HolderSweeps'
    <2> DEFINE r == [Between(FALSE) EXCEPT !.step = "down"]
    <2>1. daily' = [daily EXCEPT ![w] = r] /\ Release(w)
        BY <1>9 DEF RetentionCrash
    <2>2. r.step = "down"
        BY IdleRows DEF Stepped
    <2> HIDE DEF r
    <2>3. ~Sweeping(w)' /\ \A v \in Instances : v # w => daily'[v] = daily[v]
        BY <1>a, <2>1, <2>2 DEF Sweeping
    <2> QED BY <1>3, <2>1, <2>3
<1>10. ASSUME UNCHANGED <<holder, daily>> PROVE HolderSweeps'
    BY <1>10 DEF HolderSweeps, Sweeping
<1> QED
    BY <1>1, <1>4, <1>5, <1>6, <1>7, <1>8, <1>9, <1>10
       DEF RetentionNext, DailyWork, MarkSuccess, MarkFailed, BackoffOver, Midnight, SavePolicy,
           retentionVars

(* Success is only written with the version of the sweep that has ended    *)
(* (_mark_success), and no step makes it of something else.                *)
LEMMA AppliedKept ==
    ASSUME RetentionTypeOK, SuccessWasApplied, [RetentionNext]_retentionVars
    PROVE  SuccessWasApplied'
<1> USE SchedulerAssumption
<1>a. /\ checkpoint \in [Dates -> Checkpoint] /\ applied \in [Dates -> SUBSET Versions]
      /\ \A w \in Instances : daily[w].day \in Dates
    BY DEF RetentionTypeOK, Daily
<1>1. ASSUME NEW d \in Dates, UNCHANGED applied, checkpoint'[d].status # "SUCCESS",
             \A e \in Dates : e # d => checkpoint'[e] = checkpoint[e]
      PROVE  SuccessWasApplied'
    BY <1>1 DEF SuccessWasApplied
<1>2. ASSUME NEW w \in Instances, PreparePeriod(w) PROVE SuccessWasApplied'
    <2>1. CASE UNCHANGED checkpoint
        BY <1>2, <2>1 DEF PreparePeriod, SuccessWasApplied
    <2>2. CASE checkpoint' = [checkpoint EXCEPT ![daily[w].day] =
                     [status |-> "RUNNING", version |-> NoVersion, over |-> FALSE]]
        BY <1>1, <1>2, <1>a, <2>2 DEF PreparePeriod
    <2> QED BY <1>2, <2>1, <2>2 DEF PreparePeriod
<1>3. ASSUME NEW w \in Instances, MarkSuccess(w) PROVE SuccessWasApplied'
    <2> SUFFICES ASSUME NEW d \in Dates, checkpoint'[d].status = "SUCCESS"
                 PROVE  checkpoint'[d].version \in applied'[d]
        BY DEF SuccessWasApplied
    <2>1. CASE d = daily[w].day
        <3>1. checkpoint'[d].version = daily[w].version
            BY <1>3, <1>a, <2>1 DEF MarkSuccess
        <3>2. applied'[d] = applied[d] \cup {daily[w].version}
            BY <1>3, <1>a, <2>1 DEF MarkSuccess
        <3> QED BY <3>1, <3>2
    <2>2. CASE d # daily[w].day
        BY <1>3, <1>a, <2>2 DEF MarkSuccess, SuccessWasApplied
    <2> QED BY <2>1, <2>2
<1>4. ASSUME NEW w \in Instances, MarkFailed(w) PROVE SuccessWasApplied'
    <2>1. CASE UNCHANGED checkpoint
        BY <1>4, <2>1 DEF MarkFailed, SuccessWasApplied
    <2>2. ASSUME NEW over \in BOOLEAN,
                 checkpoint' = [checkpoint EXCEPT ![daily[w].day] =
                     [status |-> "FAILED", version |-> NoVersion, over |-> over]]
          PROVE  SuccessWasApplied'
        BY <1>1, <1>4, <1>a, <2>2 DEF MarkFailed
    <2> QED BY <1>4, <2>1, <2>2 DEF MarkFailed
<1>5. ASSUME NEW d \in Dates, BackoffOver(d) PROVE SuccessWasApplied'
    <2>1. checkpoint'[d].status # "SUCCESS"
        BY <1>5, <1>a DEF BackoffOver, BackingOff, Checkpoint
    <2> QED BY <1>1, <1>5, <1>a, <2>1 DEF BackoffOver
<1>6. ASSUME UNCHANGED <<checkpoint, applied>> PROVE SuccessWasApplied'
    BY <1>6 DEF SuccessWasApplied
<1> QED
    BY <1>2, <1>3, <1>4, <1>5, <1>6
       DEF RetentionNext, DailyWork, ClaimPeriod, StartSweep, RetentionRestart, RecheckDue,
           ClaimError, PeriodError, RetentionCrash, Midnight, SavePolicy, retentionVars

LEMMA RetentionHolds == RetentionSpec => []RetentionInv
<1>1. RetentionInv /\ [RetentionNext]_retentionVars => RetentionInv'
    BY RetentionTypes, HolderKept, AppliedKept DEF RetentionInv, RetentionTyped
<1> QED BY <1>1, RetentionBegins, PTL DEF RetentionSpec

(* Every reachable state of the scheduler is well typed.                   *)
THEOREM RetentionTypeCorrect == RetentionSpec => []RetentionTypeOK
<1>1. RetentionInv => RetentionTypeOK
    BY DEF RetentionInv, RetentionTyped
<1> QED BY <1>1, RetentionHolds, PTL

(* Two instances never work on one day (the advisory lock of               *)
(* _claim_period), whatever errors and deaths came before.                 *)
THEOREM OneSweepADay == RetentionSpec => []DaySweptByOne
<1>1. RetentionInv => DaySweptByOne
    BY DEF RetentionInv, HolderSweeps, DaySweptByOne
<1> QED BY <1>1, RetentionHolds, PTL

(* A day that succeeded under a policy was swept whole under it            *)
(* (_mark_success).                                                        *)
THEOREM SuccessApplied == RetentionSpec => []SuccessWasApplied
<1>1. RetentionInv => SuccessWasApplied
    BY DEF RetentionInv
<1> QED BY <1>1, RetentionHolds, PTL

-----------------------------------------------------------------------------
(* The refresh of RDS reservations (RdsPipeline). *)

Places == [step : Steps, run : Ids \cup {0}]

(* What a row says of itself at every commit.                              *)
RowSays(row) ==
    /\ row.status = "COMPLETED" /\ row.maker = "pipeline" => row.inventory = "COMPLETED"
    /\ row.opportunity # "NOT_RUN" => row.status = "COMPLETED"
    /\ row.status = "RUNNING" => row.stage # "opportunities"

(* What a process at work relies on in its row: that row is one of its      *)
(* kind, and the stages it has committed are there.                        *)
Relies(p, step, row) ==
    /\ row.status # "none"
    /\ row.maker = (IF p \in Refreshers THEN "pipeline" ELSE "route")
    /\ step \in {"inventory", "coverage", "computed"} => row.opportunity = "NOT_RUN"
    /\ p \in Refreshers /\ step \in {"inventory", "coverage"} => row.status = "RUNNING"
    /\ p \in Refreshers /\ step = "coverage" => row.inventory = "COMPLETED"
    /\ step \in {"computed", "opportunities", "written"} => row.status = "COMPLETED"
    /\ step = "inventory" => p \in Refreshers /\ row.inventory = "RUNNING"
    /\ step \in {"opportunities", "written"} => row.opportunity = "RUNNING"

Numbered == \E n \in Nat : Made = 1..n
Alone == \A p, q \in Processes : at[p].run = at[q].run /\ at[p].run # 0 => p = q
LockHeld == \A p \in Refreshers : at[p].step # "idle" => pipelineLock = p
InPlace == \A p \in Processes :
    /\ at[p].step \in {"idle", "locked"} <=> at[p].run = 0
    /\ at[p].step = "locked" => p \in Refreshers
    /\ at[p].run # 0 => Relies(p, at[p].step, coverageRun[at[p].run])
RowsSay == \A k \in Ids : RowSays(coverageRun[k])

PipelineInv ==
    PipelineTypeOK /\ Numbered /\ Alone /\ LockHeld /\ InPlace /\ RowsSay

LEMMA PipelineBegins == PipelineInit => PipelineInv
<1> SUFFICES ASSUME PipelineInit PROVE PipelineInv
    OBVIOUS
<1> USE PipelineAssumption DEF PipelineInit, NotMade, AtRest
<1>1. PipelineTypeOK
    <2>1. coverageRun \in [Ids -> CoverageRun]
        BY DEF CoverageRun
    <2>2. at \in [Processes -> [step : Steps, run : Ids \cup {0}]]
        BY DEF Steps
    <2> QED BY <2>1, <2>2 DEF PipelineTypeOK
<1>2. Numbered
    <2>1. Made = 1..0
        BY DEF Made, Ids
    <2> QED BY <2>1 DEF Numbered
<1>3. Alone /\ LockHeld /\ InPlace
    BY DEF Alone, LockHeld, InPlace, Refreshers, Processes
<1>4. RowsSay
    BY DEF RowsSay, RowSays
<1> QED BY <1>1, <1>2, <1>3, <1>4 DEF PipelineInv

(* A new run has the number after all others.                              *)
LEMMA NewIdIsNew ==
    ASSUME PipelineInv
    PROVE  /\ NewId \in Nat \ {0} /\ NewId \notin Made
           /\ NewId \in Ids => Made \cup {NewId} = 1..NewId
<1>1. PICK n \in Nat : Made = 1..n
    BY DEF PipelineInv, Numbered
<1>2. Cardinality(1..n) = n
    BY <1>1, FS_Interval
<1> QED BY <1>1, <1>2 DEF NewId

(* A process commits its row and goes on, or lets go: nobody else is        *)
(* concerned, because nobody else works on that run.                       *)
LEMMA PutKeeps ==
    ASSUME PipelineInv, NEW p \in Processes, NEW row \in CoverageRun, NEW step \in Steps,
           at[p].run # 0, deaths' = deaths, Put(p, row),
           row.status # "none", RowSays(row),
           \/ Leave(p)
           \/ /\ at' = [at EXCEPT ![p].step = step] /\ UNCHANGED pipelineLock
              /\ step \notin {"idle", "locked"}
              /\ Relies(p, step, row)
    PROVE  PipelineInv'
<1> DEFINE k == at[p].run
<1>a. /\ PipelineTypeOK /\ Numbered /\ Alone /\ LockHeld /\ InPlace /\ RowsSay
      /\ Refreshers \subseteq Processes
    BY DEF PipelineInv, Processes
<1>b. at[p] \in Places /\ k \in Ids
    BY <1>a DEF PipelineTypeOK, Places
<1>c. /\ coverageRun' = [coverageRun EXCEPT ![k] = row]
      /\ coverageRun'[k] = row
      /\ \A j \in Ids : j # k => coverageRun'[j] = coverageRun[j]
    BY <1>a, <1>b DEF Put, PipelineTypeOK
<1>d. k \in Made
    BY <1>a, <1>b DEF InPlace, Relies, Made
<1>1. coverageRun' \in [Ids -> CoverageRun]
    BY <1>a, <1>b, <1>c, PutIn DEF PipelineTypeOK
<1>2. Made' = Made
    BY <1>b, <1>c, <1>d DEF Made
<1>3. RowsSay'
    BY <1>a, <1>b, <1>c DEF RowsSay
<1>4. CASE Leave(p)
    <2>1. /\ at' \in [Processes -> Places] /\ at'[p] = AtRest
          /\ \A q \in Processes : q # p => at'[q] = at[q]
        BY <1>a, <1>4 DEF Leave, AtRest, Places, PipelineTypeOK, Steps
    <2>2. pipelineLock' \in Refreshers \cup {"none"}
        BY <1>a, <1>4 DEF Leave, LetGo, PipelineTypeOK
    <2>3. \A q \in Refreshers : q # p /\ pipelineLock = q => pipelineLock' = q
        BY <1>a, <1>4 DEF Leave, LetGo
    <2>4. PipelineTypeOK'
        BY <1>a, <1>1, <2>1, <2>2 DEF PipelineTypeOK, Places
    <2>5. Alone'
        BY <1>a, <2>1 DEF Alone, AtRest
    <2>6. LockHeld'
        BY <1>a, <2>1, <2>3 DEF LockHeld, AtRest
    <2>7. InPlace'
        <3> SUFFICES ASSUME NEW q \in Processes, q # p
                     PROVE  /\ at[q].step \in {"idle", "locked"} <=> at[q].run = 0
                            /\ at[q].step = "locked" => q \in Refreshers
                            /\ at[q].run # 0 =>
                                  Relies(q, at[q].step, coverageRun'[at[q].run])
            BY <2>1 DEF InPlace, AtRest
        <3>1. at[q].run # 0 => at[q].run # k /\ at[q].run \in Ids
            BY <1>a DEF Alone, PipelineTypeOK
        <3> QED BY <1>a, <1>c, <3>1 DEF InPlace
    <2> QED BY <1>2, <1>3, <1>a, <2>4, <2>5, <2>6, <2>7 DEF PipelineInv, Numbered
<1>5. CASE /\ at' = [at EXCEPT ![p].step = step] /\ UNCHANGED pipelineLock
           /\ step \notin {"idle", "locked"} /\ Relies(p, step, row)
    <2>1. [at[p] EXCEPT !.step = step] \in Places
        BY <1>b DEF Places
    <2>2. /\ at' \in [Processes -> Places]
          /\ \A q \in Processes : q # p => at'[q] = at[q]
        BY <1>a, <1>5, <2>1 DEF Places, PipelineTypeOK
    <2>3. at'[p].run = k /\ at'[p].step = step
        BY <1>a, <1>b, <1>5 DEF Places, PipelineTypeOK
    <2>4. PipelineTypeOK'
        BY <1>a, <1>1, <1>5, <2>2 DEF PipelineTypeOK, Places
    <2>5. Alone'
        BY <1>a, <2>2, <2>3 DEF Alone
    <2>6. at[p].step # "idle"
        BY <1>a DEF InPlace
    <2>7. LockHeld'
        BY <1>a, <1>5, <2>2, <2>6 DEF LockHeld
    <2>8. InPlace'
        <3>1. ASSUME NEW q \in Processes, q # p, at[q].run # 0
              PROVE  Relies(q, at[q].step, coverageRun'[at[q].run])
            <4>1. at[q].run # k /\ at[q].run \in Ids
                BY <1>a, <3>1 DEF Alone, PipelineTypeOK
            <4> QED BY <1>a, <1>c, <3>1, <4>1 DEF InPlace
        <3> QED BY <1>a, <1>c, <1>5, <2>2, <2>3, <3>1 DEF InPlace
    <2> QED BY <1>2, <1>3, <1>a, <2>4, <2>5, <2>7, <2>8 DEF PipelineInv, Numbered
<1> QED BY <1>4, <1>5

(* A row changed without its process, or by time: nothing is unsaid.       *)
LEMMA RowsAge ==
    ASSUME PipelineInv, coverageRun' \in [Ids -> CoverageRun],
           UNCHANGED <<pipelineLock, at, deaths>>, Made' = Made, RowsSay',
           \A p \in Processes : at[p].run # 0 =>
               Relies(p, at[p].step, coverageRun'[at[p].run])
    PROVE  PipelineInv'
BY DEF PipelineInv, PipelineTypeOK, Numbered, Alone, LockHeld, InPlace

(* A process moves without touching a row.                                 *)
LEMMA PlaceMoves ==
    ASSUME PipelineInv, NEW p \in Processes, UNCHANGED coverageRun, deaths' \in 0..MaxDeaths,
           \/ Leave(p)
           \/ /\ p \in Refreshers /\ at[p].step = "idle" /\ pipelineLock = "none"
              /\ pipelineLock' = p /\ at' = [at EXCEPT ![p].step = "locked"]
    PROVE  PipelineInv'
<1>a. /\ PipelineTypeOK /\ Numbered /\ Alone /\ LockHeld /\ InPlace /\ RowsSay
      /\ at[p] \in Places /\ Refreshers \subseteq Processes
    BY DEF PipelineInv, PipelineTypeOK, Places, Processes
<1>1. CASE Leave(p)
    <2>1. /\ at' \in [Processes -> Places] /\ at'[p] = AtRest
          /\ \A q \in Processes : q # p => at'[q] = at[q]
        BY <1>a, <1>1 DEF Leave, AtRest, Places, PipelineTypeOK, Steps
    <2>2. pipelineLock' \in Refreshers \cup {"none"}
        BY <1>a, <1>1 DEF Leave, LetGo, PipelineTypeOK
    <2>3. \A q \in Refreshers : q # p /\ pipelineLock = q => pipelineLock' = q
        BY <1>a, <1>1 DEF Leave, LetGo
    <2>4. PipelineTypeOK'
        BY <1>a, <2>1, <2>2 DEF PipelineTypeOK, Places
    <2>5. Alone' /\ LockHeld' /\ InPlace'
        BY <1>a, <2>1, <2>3 DEF Alone, LockHeld, InPlace, AtRest
    <2> QED BY <1>a, <2>4, <2>5 DEF PipelineInv, Numbered, Made, RowsSay
<1>2. CASE /\ p \in Refreshers /\ at[p].step = "idle" /\ pipelineLock = "none"
           /\ pipelineLock' = p /\ at' = [at EXCEPT ![p].step = "locked"]
    <2>1. [at[p] EXCEPT !.step = "locked"] \in Places
        BY <1>a DEF Places, Steps
    <2>2. /\ at' \in [Processes -> Places]
          /\ \A q \in Processes : q # p => at'[q] = at[q]
        BY <1>a, <1>2, <2>1 DEF Places, PipelineTypeOK
    <2>3. at'[p].step = "locked" /\ at'[p].run = at[p].run /\ at[p].run = 0
        BY <1>a, <1>2 DEF Places, PipelineTypeOK, InPlace
    <2>4. PipelineTypeOK'
        BY <1>a, <1>2, <2>2 DEF PipelineTypeOK, Places
    <2>5. Alone' /\ InPlace'
        BY <1>a, <1>2, <2>2, <2>3 DEF Alone, InPlace
    <2>6. \A q \in Refreshers : q # p => at[q].step = "idle"
        BY <1>a, <1>2, PipelineAssumption DEF LockHeld, Processes
    <2>7. LockHeld'
        BY <1>a, <1>2, <2>2, <2>6 DEF LockHeld
    <2> QED BY <1>a, <2>4, <2>5, <2>7 DEF PipelineInv, Numbered, Made, RowsSay
<1> QED BY <1>1, <1>2

(* Of what was abandoned only the status becomes known, and no row that     *)
(* says something else is touched (_recover_abandoned_runs).               *)
LEMMA RecoveredRow ==
    ASSUME PipelineInv, NEW k \in Ids
    PROVE  /\ Recovered(k) \in CoverageRun
           /\ RowSays(Recovered(k))
           /\ Recovered(k).status = "none" <=> coverageRun[k].status = "none"
           /\ coverageRun[k].status # "RUNNING" => Recovered(k) = coverageRun[k]
           /\ Recovered(k).maker = coverageRun[k].maker
           /\ coverageRun[k].opportunity = "NOT_RUN" => Recovered(k).opportunity = "NOT_RUN"
<1> DEFINE old == coverageRun[k]
           row == [old EXCEPT !.status = "FAILED"]
<1>1. old \in CoverageRun /\ RowSays(old)
    BY DEF PipelineInv, PipelineTypeOK, RowsSay
<1>2. CASE ~Abandoned(k)
    BY <1>1, <1>2 DEF Recovered, Abandoned
<1>3. CASE Abandoned(k)
    <2>1. old.status = "RUNNING" /\ old.stage # "opportunities" /\ old.opportunity = "NOT_RUN"
        BY <1>1, <1>3 DEF Abandoned, RowSays
    <2>2. /\ row \in CoverageRun /\ row.status = "FAILED" /\ row.stage = old.stage
          /\ row.maker = old.maker /\ row.opportunity = "NOT_RUN"
        BY <1>1, <2>1 DEF CoverageRun
    <2>3. /\ [row EXCEPT !.inventory = "FAILED"] \in CoverageRun
          /\ [row EXCEPT !.inventory = "FAILED"].status = "FAILED"
          /\ [row EXCEPT !.inventory = "FAILED"].maker = old.maker
          /\ [row EXCEPT !.inventory = "FAILED"].opportunity = "NOT_RUN"
        BY <2>2 DEF CoverageRun
    <2>4. Recovered(k) \in {row, [row EXCEPT !.inventory = "FAILED"]}
        BY <1>3, <2>1, <2>2 DEF Recovered
    <2> HIDE DEF row
    <2> QED BY <2>1, <2>2, <2>3, <2>4 DEF RowSays
<1> QED BY <1>2, <1>3

(* A run is made for a process that has none; rows before it are as they    *)
(* were or recovered, and if anybody relies on them they are as they were. *)
LEMMA RunMade ==
    ASSUME PipelineInv, NEW p \in Processes, at[p].run = 0, NewId \in Ids,
           NEW row \in CoverageRun, NEW step \in {"inventory", "coverage"},
           NEW rows \in [Ids -> CoverageRun],
           coverageRun' = [rows EXCEPT ![NewId] = row],
           at' = [at EXCEPT ![p] = [step |-> step, run |-> NewId]],
           UNCHANGED <<pipelineLock, deaths>>,
           p \in Refreshers => pipelineLock = p,
           RowSays(row), Relies(p, step, row),
           \A k \in Ids : RowSays(rows[k]) /\ (rows[k].status = "none" <=> k \notin Made),
           \A q \in Processes : q # p /\ at[q].run # 0 =>
               Relies(q, at[q].step, rows[at[q].run])
    PROVE  PipelineInv'
<1>a. /\ PipelineTypeOK /\ Numbered /\ Alone /\ LockHeld /\ InPlace /\ RowsSay
      /\ Refreshers \subseteq Processes
    BY DEF PipelineInv, Processes
<1>b. NewId \in Nat \ {0} /\ NewId \notin Made /\ Made \cup {NewId} = 1..NewId
    BY NewIdIsNew
<1> DEFINE new == NewId
<1>c. /\ new \in Ids /\ new # 0 /\ new \notin Made /\ Made \cup {new} = 1..new /\ new \in Nat
      /\ coverageRun' = [rows EXCEPT ![new] = row]
      /\ at' = [at EXCEPT ![p] = [step |-> step, run |-> new]]
    BY <1>b
<1> HIDE DEF new
<1>1. /\ coverageRun' \in [Ids -> CoverageRun] /\ coverageRun'[new] = row
      /\ \A k \in Ids : k # new => coverageRun'[k] = rows[k]
    BY <1>c
<1>2. /\ at' \in [Processes -> Places] /\ at'[p].step = step /\ at'[p].run = new
      /\ \A q \in Processes : q # p => at'[q] = at[q]
    BY <1>a, <1>c DEF PipelineTypeOK, Places, Steps
<1>3. PipelineTypeOK'
    BY <1>a, <1>1, <1>2 DEF PipelineTypeOK, Places
<1>4. Made' = 1..new
    <2>1. \A k \in Ids : coverageRun'[k].status # "none" <=> k \in Made \cup {new}
        BY <1>1, <1>c DEF Relies
    <2>2. Made' = {k \in Ids : k \in Made \cup {new}}
        BY <2>1 DEF Made
    <2>3. Made \subseteq Ids
        BY DEF Made
    <2> QED BY <1>c, <2>2, <2>3
<1>5. \A q \in Processes : at[q].run # 0 => at[q].run \in Made /\ at[q].run \in Ids
    BY <1>a DEF InPlace, Relies, Made, PipelineTypeOK
<1>6. Alone'
    BY <1>a, <1>2, <1>5, <1>c DEF Alone
<1>7. LockHeld'
    BY <1>a, <1>2 DEF LockHeld
<1>8. InPlace'
    <2>1. ASSUME NEW q \in Processes, q # p, at[q].run # 0
          PROVE  Relies(q, at[q].step, coverageRun'[at[q].run])
        BY <1>1, <1>5, <1>c, <2>1
    <2> QED BY <1>a, <1>1, <1>2, <1>c, <2>1 DEF InPlace
<1>9. RowsSay'
    BY <1>1 DEF RowsSay
<1> QED BY <1>3, <1>4, <1>6, <1>7, <1>8, <1>9, <1>c DEF PipelineInv, Numbered

(* Every step of a refresh or of the coverage route leaves records true.   *)
LEMMA BeginKeeps ==
    ASSUME PipelineInv, NEW p \in Processes, Begin(p)
    PROVE  PipelineInv'
<1> DEFINE rows == [k \in Ids |-> Recovered(k)]
<1>a. /\ PipelineTypeOK /\ Numbered /\ Alone /\ LockHeld /\ InPlace /\ RowsSay
      /\ at[p].step = "locked" /\ at[p].run = 0 /\ p \in Refreshers /\ pipelineLock = p
      /\ deaths' = deaths
    BY DEF PipelineInv, Begin, LockHeld, InPlace
<1>b. /\ rows \in [Ids -> CoverageRun]
      /\ \A k \in Ids : RowSays(rows[k]) /\ (rows[k].status = "none" <=> k \notin Made)
    BY RecoveredRow DEF Made
<1>c. ASSUME NEW q \in Processes, q # p, at[q].run # 0
      PROVE  Relies(q, at[q].step, rows[at[q].run])
    <2>1. at[q].run \in Ids /\ Relies(q, at[q].step, coverageRun[at[q].run])
        BY <1>a, <1>c DEF InPlace, PipelineTypeOK
    <2>2. q \notin Refreshers
        BY <1>a, <1>c DEF LockHeld, InPlace
    <2> QED BY <2>1, <2>2, RecoveredRow DEF Relies
<1>1. CASE \E k \in Ids : rows[k].status = "RUNNING"
    <2>1. /\ coverageRun' = rows /\ at' = [at EXCEPT ![p] = AtRest]
          /\ pipelineLock' = "none"
        BY <1>1 DEF Begin
    <2>2. /\ at' \in [Processes -> Places] /\ at'[p] = AtRest
          /\ \A q \in Processes : q # p => at'[q] = at[q]
        BY <1>a, <2>1 DEF AtRest, Places, PipelineTypeOK, Steps
    <2>3. PipelineTypeOK'
        BY <1>a, <1>b, <2>1, <2>2 DEF PipelineTypeOK, Places
    <2>4. Made' = Made
        <3>1. \A k \in Ids : coverageRun'[k].status # "none" <=> k \in Made
            BY <1>b, <2>1
        <3>2. Made \subseteq Ids
            BY DEF Made
        <3> QED BY <3>1, <3>2 DEF Made
    <2>5. Alone'
        BY <1>a, <2>2 DEF Alone, AtRest
    <2>6. \A q \in Refreshers : q # p => at[q].step = "idle"
        BY <1>a DEF LockHeld, Processes
    <2>7. LockHeld'
        BY <2>2, <2>6 DEF LockHeld, AtRest, Processes
    <2>8. InPlace'
        BY <1>a, <1>c, <2>1, <2>2 DEF InPlace, AtRest
    <2>9. RowsSay'
        BY <1>b, <2>1 DEF RowsSay
    <2> QED BY <1>a, <2>3, <2>4, <2>5, <2>7, <2>8, <2>9 DEF PipelineInv, Numbered
<1>2. CASE ~(\E k \in Ids : rows[k].status = "RUNNING")
    <2> DEFINE row == [NotMade EXCEPT !.status = "RUNNING", !.inventory = "RUNNING"]
    <2>1. /\ NewId \in Ids /\ coverageRun' = [rows EXCEPT ![NewId] = row]
          /\ at' = [at EXCEPT ![p] = [step |-> "inventory", run |-> NewId]]
          /\ UNCHANGED pipelineLock
        BY <1>2 DEF Begin
    <2>2. row \in CoverageRun /\ RowSays(row) /\ Relies(p, "inventory", row)
        BY <1>a DEF NotMade, CoverageRun, RowSays, Relies
    <2> HIDE DEF row, rows
    <2> QED BY <1>a, <1>b, <1>c, <2>1, <2>2, RunMade
<1> QED BY <1>1, <1>2

LEMMA StartCoverageKeeps ==
    ASSUME PipelineInv, NEW p \in Routes, StartCoverage(p)
    PROVE  PipelineInv'
<1>1. PICK stale \in BOOLEAN :
          coverageRun' = [coverageRun EXCEPT ![NewId] =
              [NotMade EXCEPT !.status = "RUNNING", !.stage = "coverage",
                              !.maker = "route", !.stale = stale]]
    BY DEF StartCoverage
<1> DEFINE row == [NotMade EXCEPT !.status = "RUNNING", !.stage = "coverage",
                                  !.maker = "route", !.stale = stale]
<1>2. p \in Processes /\ p \notin Refreshers
    BY PipelineAssumption DEF Processes
<1>3. row \in CoverageRun /\ RowSays(row) /\ Relies(p, "coverage", row)
    BY <1>2 DEF NotMade, CoverageRun, RowSays, Relies
<1>4. /\ at[p].run = 0 /\ NewId \in Ids /\ UNCHANGED <<pipelineLock, deaths>>
      /\ at' = [at EXCEPT ![p] = [step |-> "coverage", run |-> NewId]]
    BY <1>2 DEF StartCoverage, PipelineInv, InPlace
<1>5. /\ coverageRun \in [Ids -> CoverageRun]
      /\ \A k \in Ids : RowSays(coverageRun[k]) /\ (coverageRun[k].status = "none" <=> k \notin Made)
      /\ \A q \in Processes : q # p /\ at[q].run # 0 =>
             Relies(q, at[q].step, coverageRun[at[q].run])
    BY DEF PipelineInv, PipelineTypeOK, RowsSay, InPlace, Made
<1>6. coverageRun' = [coverageRun EXCEPT ![NewId] = row]
    BY <1>1
<1> HIDE DEF row
<1> QED BY <1>2, <1>3, <1>4, <1>5, <1>6, RunMade

LEMMA AdvanceKeeps ==
    ASSUME PipelineInv, NEW p \in Processes, Advance(p)
    PROVE  PipelineInv'
<1> DEFINE old == coverageRun[at[p].run]
<1>a. /\ at[p].step \in {"idle", "locked"} <=> at[p].run = 0
      /\ at[p].run # 0 => /\ Relies(p, at[p].step, old) /\ at[p].run \in Ids
                          /\ old \in CoverageRun /\ RowSays(old)
      /\ \A q \in Processes : q \in Refreshers <=> q \notin Routes
    BY PipelineAssumption DEF PipelineInv, InPlace, PipelineTypeOK, RowsSay, Processes
<1>1. CASE Begin(p)
    BY <1>1, BeginKeeps
<1>2. CASE InventoryFails(p)
    <2> DEFINE row == [old EXCEPT !.status = "FAILED", !.inventory = "FAILED",
                                  !.stage = "inventory"]
    <2>1. at[p].run # 0 /\ Put(p, row) /\ Leave(p) /\ deaths' = deaths
        BY <1>2, <1>a DEF InventoryFails
    <2>2. old.opportunity = "NOT_RUN"
        BY <1>2, <1>a, <2>1 DEF InventoryFails, Relies
    <2>3. row \in CoverageRun /\ row.status # "none" /\ RowSays(row)
        BY <1>a, <2>1, <2>2 DEF CoverageRun, RowSays
    <2> HIDE DEF row
    <2> QED BY <2>1, <2>3, PutKeeps DEF Steps
<1>3. CASE InventoryDone(p)
    <2>1. PICK stale \in BOOLEAN :
              Put(p, [old EXCEPT !.inventory = "COMPLETED", !.stage = "coverage",
                                 !.stale = stale])
        BY <1>3 DEF InventoryDone
    <2> DEFINE row == [old EXCEPT !.inventory = "COMPLETED", !.stage = "coverage",
                                  !.stale = stale]
    <2>2. /\ at[p].run # 0 /\ deaths' = deaths /\ UNCHANGED pipelineLock
          /\ at' = [at EXCEPT ![p].step = "coverage"]
        BY <1>3, <1>a DEF InventoryDone
    <2>3. p \in Refreshers /\ old.status = "RUNNING" /\ old.opportunity = "NOT_RUN"
          /\ old.maker = "pipeline"
        BY <1>3, <1>a, <2>2 DEF InventoryDone, Relies
    <2>4. /\ row \in CoverageRun /\ row.status = "RUNNING" /\ row.inventory = "COMPLETED"
          /\ row.stage = "coverage" /\ row.opportunity = "NOT_RUN" /\ row.maker = "pipeline"
        BY <1>a, <2>2, <2>3 DEF CoverageRun
    <2>5. Put(p, row)
        BY <2>1
    <2> HIDE DEF row
    <2>6. RowSays(row) /\ Relies(p, "coverage", row)
        BY <2>3, <2>4 DEF RowSays, Relies
    <2> QED BY <2>2, <2>4, <2>5, <2>6, PutKeeps DEF Steps
<1>4. CASE CoverageFails(p)
    <2> DEFINE row == [old EXCEPT !.status = "FAILED", !.stage = "coverage"]
    <2>1. at[p].run # 0 /\ Put(p, row) /\ Leave(p) /\ deaths' = deaths
        BY <1>4, <1>a DEF CoverageFails
    <2>2. old.opportunity = "NOT_RUN"
        BY <1>4, <1>a, <2>1 DEF CoverageFails, Relies
    <2>3. row \in CoverageRun /\ row.status # "none" /\ RowSays(row)
        BY <1>a, <2>1, <2>2 DEF CoverageRun, RowSays
    <2> HIDE DEF row
    <2> QED BY <2>1, <2>3, PutKeeps DEF Steps
<1>5. CASE CoverageDone(p)
    <2> DEFINE row == [old EXCEPT !.status = "COMPLETED",
                                  !.stage = IF p \in Routes THEN "opportunities" ELSE "coverage"]
    <2>1. /\ at[p].run # 0 /\ Put(p, row) /\ deaths' = deaths /\ UNCHANGED pipelineLock
          /\ at' = [at EXCEPT ![p].step = "computed"]
        BY <1>5, <1>a DEF CoverageDone
    <2>2. /\ old.opportunity = "NOT_RUN" /\ (p \in Refreshers => old.inventory = "COMPLETED")
          /\ old.maker = IF p \in Refreshers THEN "pipeline" ELSE "route"
        BY <1>5, <1>a, <2>1 DEF CoverageDone, Relies
    <2>3. /\ row \in CoverageRun /\ row.status = "COMPLETED" /\ row.opportunity = "NOT_RUN"
          /\ row.inventory = old.inventory /\ row.maker = old.maker
        BY <1>a, <2>1, <2>2 DEF CoverageRun
    <2> HIDE DEF row
    <2>4. RowSays(row) /\ Relies(p, "computed", row)
        BY <2>2, <2>3 DEF RowSays, Relies
    <2> QED BY <2>1, <2>3, <2>4, PutKeeps DEF Steps
<1>6. CASE StartOpportunities(p)
    <2> DEFINE row == [old EXCEPT !.stage = "opportunities", !.opportunity = "RUNNING"]
    <2>1. /\ at[p].run # 0 /\ Put(p, row) /\ deaths' = deaths /\ UNCHANGED pipelineLock
          /\ at' = [at EXCEPT ![p].step = "opportunities"]
        BY <1>6, <1>a DEF StartOpportunities
    <2>2. old.status = "COMPLETED" /\ Relies(p, "computed", old)
        BY <1>6, <1>a, <2>1 DEF StartOpportunities, Relies
    <2>3. /\ row \in CoverageRun /\ row.status = "COMPLETED" /\ row.opportunity = "RUNNING"
          /\ row.inventory = old.inventory /\ row.maker = old.maker
        BY <1>a, <2>1, <2>2 DEF CoverageRun
    <2> HIDE DEF row
    <2>4. RowSays(row) /\ Relies(p, "opportunities", row)
        BY <1>a, <2>1, <2>2, <2>3 DEF RowSays, Relies
    <2> QED BY <2>1, <2>3, <2>4, PutKeeps DEF Steps
<1>7. CASE WriteOpportunities(p)
    <2>1. /\ at[p].run # 0 /\ deaths' = deaths /\ UNCHANGED pipelineLock
          /\ at' = [at EXCEPT ![p].step = "written"] /\ coverageRun' = coverageRun
        BY <1>7, <1>a DEF WriteOpportunities
    <2>2. Put(p, old)
        BY <1>a, <2>1 DEF Put, PipelineInv, PipelineTypeOK
    <2>3. Relies(p, "written", old)
        BY <1>7, <1>a, <2>1 DEF WriteOpportunities, Relies
    <2> QED BY <1>a, <2>1, <2>2, <2>3, PutKeeps DEF Steps, Relies
<1>8. CASE EndOpportunities(p)
    <2>1. PICK end \in {"COMPLETED", "FAILED"} :
              Put(p, [old EXCEPT !.opportunity = end, !.stage = "completed"])
        BY <1>8 DEF EndOpportunities
    <2> DEFINE row == [old EXCEPT !.opportunity = end, !.stage = "completed"]
    <2>2. at[p].run # 0 /\ Leave(p) /\ deaths' = deaths
        BY <1>8, <1>a DEF EndOpportunities
    <2>3. old.status = "COMPLETED"
        BY <1>8, <1>a, <2>2 DEF EndOpportunities, Relies
    <2>4. /\ row \in CoverageRun /\ row.status = "COMPLETED"
          /\ row.inventory = old.inventory /\ row.maker = old.maker
        BY <1>a, <2>2, <2>3 DEF CoverageRun
    <2>5. Put(p, row)
        BY <2>1
    <2> HIDE DEF row
    <2>6. RowSays(row)
        BY <1>a, <2>2, <2>3, <2>4 DEF RowSays
    <2> QED BY <2>2, <2>4, <2>5, <2>6, PutKeeps DEF Steps
<1> QED BY <1>1, <1>2, <1>3, <1>4, <1>5, <1>6, <1>7, <1>8 DEF Advance

LEMMA AgeKeeps ==
    ASSUME PipelineInv, NEW k \in Ids, GetOld(k) \/ GetStale(k)
    PROVE  PipelineInv'
<1> DEFINE old == coverageRun[k]
           row == coverageRun'[k]
<1>1. coverageRun \in [Ids -> CoverageRun]
    BY DEF PipelineInv, PipelineTypeOK
<1>2. /\ \/ coverageRun' = [coverageRun EXCEPT ![k].old = TRUE]
         \/ coverageRun' = [coverageRun EXCEPT ![k].stale = TRUE]
      /\ UNCHANGED <<pipelineLock, at, deaths>>
    BY DEF GetOld, GetStale
<1>3. /\ \A j \in Ids : j # k => coverageRun'[j] = coverageRun[j]
      /\ row \in CoverageRun /\ row.status = old.status /\ row.stage = old.stage
      /\ row.inventory = old.inventory /\ row.opportunity = old.opportunity
      /\ row.maker = old.maker
    <2>1. old \in CoverageRun
        BY <1>1
    <2>2. CASE coverageRun' = [coverageRun EXCEPT ![k].old = TRUE]
        <3>1. row = [old EXCEPT !.old = TRUE]
            BY <1>1, <2>2
        <3> QED BY <1>1, <2>1, <2>2, <3>1 DEF CoverageRun
    <2>3. CASE coverageRun' = [coverageRun EXCEPT ![k].stale = TRUE]
        <3>1. row = [old EXCEPT !.stale = TRUE]
            BY <1>1, <2>3
        <3> QED BY <1>1, <2>1, <2>3, <3>1 DEF CoverageRun
    <2> QED BY <1>2, <2>2, <2>3
<1>4. coverageRun' \in [Ids -> CoverageRun]
    <2>1. coverageRun' = [j \in Ids |-> coverageRun'[j]]
        BY <1>1, <1>2
    <2> QED BY <1>1, <1>3, <2>1
<1>5. Made' = Made
    BY <1>3 DEF Made
<1>6. RowsSay'
    BY <1>3 DEF RowsSay, RowSays, PipelineInv
<1>7. ASSUME NEW p \in Processes, at[p].run # 0
      PROVE  Relies(p, at[p].step, coverageRun'[at[p].run])
    <2>1. at[p].run \in Ids /\ Relies(p, at[p].step, coverageRun[at[p].run])
        BY <1>7 DEF PipelineInv, PipelineTypeOK, InPlace
    <2> QED BY <1>3, <2>1 DEF Relies
<1> QED BY <1>2, <1>4, <1>5, <1>6, <1>7, RowsAge

LEMMA PipelineHolds == PipelineSpec => []PipelineInv
<1>1. ASSUME PipelineInv, [PipelineNext]_pipelineVars PROVE PipelineInv'
    <2> Refreshers \subseteq Processes /\ Routes \subseteq Processes
        BY DEF Processes
    <2>1. ASSUME NEW p \in Refreshers, TakeLock(p) PROVE PipelineInv'
        BY <1>1, <2>1, PlaceMoves DEF TakeLock, PipelineInv, PipelineTypeOK
    <2>2. ASSUME NEW p \in Processes, Die(p) PROVE PipelineInv'
        <3>1. deaths' \in 0..MaxDeaths
            BY <1>1, <2>2, PipelineAssumption DEF Die, PipelineInv, PipelineTypeOK
        <3> QED BY <1>1, <2>2, <3>1, PlaceMoves DEF Die
    <2>3. CASE UNCHANGED pipelineVars
        BY <1>1, <2>3 DEF pipelineVars, PipelineInv, PipelineTypeOK, Numbered, Alone, LockHeld,
           InPlace, RowsSay, Made
    <2> QED BY <1>1, <2>1, <2>2, <2>3, StartCoverageKeeps, AdvanceKeeps, AgeKeeps
            DEF PipelineNext
<1> QED BY <1>1, PipelineBegins, PTL DEF PipelineSpec

(* Every reachable state of a refresh is well typed.                       *)
THEOREM PipelineTypeCorrect == PipelineSpec => []PipelineTypeOK
<1>1. PipelineInv => PipelineTypeOK
    BY DEF PipelineInv
<1> QED BY <1>1, PipelineHolds, PTL

(* At every commit of every process, whoever died and whatever was taken   *)
(* for abandoned, the record of a refresh is true of its own stage and of  *)
(* what it built on; for any number of processes and runs.                 *)
THEOREM PipelineRecordsTrue == PipelineSpec => []RecordsAreTrue
<1>1. PipelineInv => RecordsAreTrue
    <2>1. PipelineInv => StagesInOrder
        BY DEF PipelineInv, RowsSay, RowSays, StagesInOrder, Made
    <2>2. PipelineInv => WorkedRunRuns
        BY DEF PipelineInv, InPlace, Relies, WorkedRunRuns, Processes
    <2> QED BY <2>1, <2>2 DEF RecordsAreTrue
<1> QED BY <1>1, PipelineHolds, PTL

-----------------------------------------------------------------------------
(* The refreshes (RefreshContract).                                         *)

(* What the refinement shows of the state. *)
Shown == [k \in Ids |-> Phase(coverageRun[k])]
WorkingOn == IF pipelineLock = "none" THEN 0 ELSE at[pipelineLock].run

(* The phase of a row, one by one.                                          *)
LEMMA PhaseOfRow ==
    ASSUME NEW row \in CoverageRun
    PROVE  /\ Phase(row) = "none" <=> row.status = "none"
           /\ row.status # "none" /\ row.maker = "route" => Phase(row) = "aside"
           /\ row.maker = "pipeline" =>
                 /\ row.status = "RUNNING" /\ row.inventory # "COMPLETED" => Phase(row) = "collecting"
                 /\ row.status = "RUNNING" /\ row.inventory = "COMPLETED" => Phase(row) = "computing"
                 /\ row.status = "FAILED" => Phase(row) = "failed"
                 /\ row.status = "COMPLETED" =>
                       /\ row.opportunity = "NOT_RUN" => Phase(row) = "published"
                       /\ row.opportunity = "RUNNING" => Phase(row) = "judging"
                       /\ row.opportunity = "COMPLETED" => Phase(row) = "judged"
                       /\ row.opportunity = "FAILED" => Phase(row) = "unjudged"
           /\ Phase(row) \in Refreshes!Unpublished => row.status = "RUNNING"
<1>1. /\ row.status \in {"none", "RUNNING", "COMPLETED", "FAILED"}
      /\ row.maker \in {"pipeline", "route"}
      /\ row.opportunity \in {"NOT_RUN", "RUNNING", "COMPLETED", "FAILED"}
    BY DEF CoverageRun
<1>2. CASE row.status = "none"
    BY <1>2 DEF Phase, Refreshes!Unpublished
<1>3. CASE row.status # "none" /\ row.maker = "route"
    BY <1>3 DEF Phase, Refreshes!Unpublished
<1>4. CASE row.status = "RUNNING" /\ row.maker = "pipeline"
    BY <1>4 DEF Phase, Refreshes!Unpublished
<1>5. CASE row.status = "FAILED" /\ row.maker = "pipeline"
    BY <1>5 DEF Phase, Refreshes!Unpublished
<1>6. CASE row.status = "COMPLETED" /\ row.maker = "pipeline"
    BY <1>1, <1>6 DEF Phase, Refreshes!Unpublished
<1> QED BY <1>1, <1>2, <1>3, <1>4, <1>5, <1>6

(* Who refreshes holds the lock, and so is the one at work.                 *)
LEMMA HolderIsAtWork ==
    ASSUME PipelineInv, NEW p \in Processes, at[p].step # "idle"
    PROVE  /\ p \in Refreshers => WorkingOn = at[p].run
           /\ at[p].run # 0 =>
                 /\ at[p].run \in Ids /\ coverageRun[at[p].run] \in CoverageRun
                 /\ Relies(p, at[p].step, coverageRun[at[p].run])
<1>1. p \in Refreshers => pipelineLock = p /\ p # "none"
    BY PipelineAssumption DEF PipelineInv, LockHeld
<1> QED BY <1>1 DEF WorkingOn, PipelineInv, PipelineTypeOK, InPlace

(* Who lets go, or moves within its run, does so to the refresh at work.    *)
LEMMA WorkMoves ==
    ASSUME PipelineInv, NEW p \in Processes, at[p].step # "idle"
    PROVE  /\ Leave(p) => WorkingOn' = IF p \in Refreshers THEN 0 ELSE WorkingOn
           /\ \A step \in Steps : at' = [at EXCEPT ![p].step = step] /\ UNCHANGED pipelineLock =>
                 WorkingOn' = WorkingOn
<1>1. /\ pipelineLock \in Refreshers \cup {"none"} /\ "none" \notin Processes
      /\ at \in [Processes -> Places] /\ Refreshers \subseteq Processes
      /\ p \in Refreshers => pipelineLock = p
    BY PipelineAssumption DEF PipelineInv, PipelineTypeOK, LockHeld, Places, Processes
<1>2. ASSUME Leave(p)
      PROVE  WorkingOn' = IF p \in Refreshers THEN 0 ELSE WorkingOn
    <2>1. CASE p \in Refreshers
        BY <1>1, <1>2, <2>1 DEF Leave, LetGo, WorkingOn
    <2>2. CASE p \notin Refreshers
        <3>1. pipelineLock' = pipelineLock /\ pipelineLock # p
            BY <1>1, <1>2, <2>2 DEF Leave, LetGo
        <3>2. \A q \in Processes : q # p => at'[q] = at[q]
            BY <1>1, <1>2 DEF Leave
        <3> QED BY <1>1, <2>2, <3>1, <3>2 DEF WorkingOn
    <2> QED BY <2>1, <2>2
<1>3. ASSUME NEW step \in Steps, at' = [at EXCEPT ![p].step = step], UNCHANGED pipelineLock
      PROVE  WorkingOn' = WorkingOn
    <2>1. \A q \in Processes : at'[q].run = at[q].run
        BY <1>1, <1>3 DEF Places
    <2> QED BY <1>1, <1>3, <2>1 DEF WorkingOn
<1> QED BY <1>2, <1>3

(* A row that is put shows its phase, and the others theirs.                *)
LEMMA PutShows ==
    ASSUME PipelineInv, NEW p \in Processes, at[p].run # 0, NEW row, Put(p, row)
    PROVE  /\ at[p].run \in Ids
           /\ Shown' = [Shown EXCEPT ![at[p].run] = Phase(row)]
<1>1. at[p].run \in Ids /\ coverageRun \in [Ids -> CoverageRun]
    BY DEF PipelineInv, PipelineTypeOK
<1> DEFINE k == at[p].run
<1>2. coverageRun' = [coverageRun EXCEPT ![k] = row]
    BY DEF Put
<1> HIDE DEF k
<1>3. \A j \in Ids : coverageRun'[j] = IF j = k THEN row ELSE coverageRun[j]
    BY <1>1, <1>2
<1>4. Shown' = [j \in Ids |-> IF j = k THEN Phase(row) ELSE Phase(coverageRun[j])]
    BY <1>3 DEF Shown
<1>5. Shown' = [Shown EXCEPT ![k] = Phase(row)]
    BY <1>4 DEF Shown
<1> QED BY <1>1, <1>5 DEF k

(* A refresh that is at work brings its run from one phase to the next.     *)
LEMMA PutGoes ==
    ASSUME PipelineInv, NEW p \in Refreshers, at[p].step # "idle", at[p].run # 0,
           NEW row \in CoverageRun, Put(p, row),
           NEW from, Phase(coverageRun[at[p].run]) \in from
    PROVE  Refreshes!Goes(from, Phase(row))
<1>1. p \in Processes
    BY DEF Processes
<1>2. WorkingOn = at[p].run /\ at[p].run \in Ids
    BY <1>1, HolderIsAtWork
<1>3. Shown' = [Shown EXCEPT ![at[p].run] = Phase(row)]
    BY <1>1, PutShows
<1>4. Shown[WorkingOn] \in from /\ WorkingOn # 0 /\ Shown' = [Shown EXCEPT ![WorkingOn] = Phase(row)]
    BY <1>2, <1>3 DEF Shown
<1> QED BY <1>4 DEF Refreshes!Goes, Shown, WorkingOn

(* What a route does to its own run does not show.                          *)
LEMMA RoutesAside ==
    ASSUME PipelineInv, NEW p \in Routes, at[p].step # "idle", at[p].run # 0,
           NEW row \in CoverageRun, Put(p, row),
           row.status # "none", row.maker = coverageRun[at[p].run].maker
    PROVE  Shown' = Shown
<1>1. p \in Processes /\ p \notin Refreshers
    BY PipelineAssumption DEF Processes
<1>2. /\ Relies(p, at[p].step, coverageRun[at[p].run]) /\ coverageRun[at[p].run] \in CoverageRun
      /\ at[p].run \in Ids
    BY <1>1, HolderIsAtWork
<1>3. Phase(coverageRun[at[p].run]) = "aside" /\ Phase(row) = "aside"
    BY <1>1, <1>2, PhaseOfRow DEF Relies
<1>4. Shown' = [Shown EXCEPT ![at[p].run] = Phase(row)]
    BY <1>1, PutShows
<1> QED BY <1>2, <1>3, <1>4 DEF Shown

(* Made anew, a run comes after all others, and shows its phase.            *)
LEMMA NewShows ==
    ASSUME PipelineInv, NewId \in Ids
    PROVE  /\ Refreshes!ComesNext(NewId)
           /\ \A j \in Ids \ {NewId} : Shown[j] = "none" <=> j > NewId
<1>1. /\ NewId \in Nat \ {0} /\ NewId \notin Made /\ Made \cup {NewId} = 1..NewId
    BY NewIdIsNew
<1> DEFINE n == NewId
<1>2. n \in Nat \ {0} /\ n \notin Made /\ Made \cup {n} = 1..n /\ n \in Ids
    BY <1>1
<1> HIDE DEF n
<1>3. \A j \in Ids : Shown[j] = "none" <=> j \notin Made
    BY PhaseOfRow DEF Shown, Made, PipelineInv, PipelineTypeOK
<1>4. \A j \in Ids : j < n => j \in Made
    BY <1>2 DEF Ids
<1>5. Shown[n] = "none" /\ \A j \in Ids : j < n => Shown[j] # "none"
    BY <1>2, <1>3, <1>4
<1>6. \A j \in Ids \ {n} : Shown[j] = "none" <=> j > n
    BY <1>2, <1>3 DEF Ids
<1> QED BY <1>5, <1>6 DEF n, Refreshes!ComesNext, Shown

(* What was abandoned shows as given up, if it had not been published.      *)
LEMMA RecoveredShows ==
    ASSUME PipelineInv, NEW k \in Ids
    PROVE  \/ Phase(Recovered(k)) = Phase(coverageRun[k])
           \/ Shown[k] \in Refreshes!Unpublished /\ Phase(Recovered(k)) = "failed"
<1> DEFINE old == coverageRun[k]
<1>1. old \in CoverageRun /\ RowSays(old) /\ Recovered(k) \in CoverageRun
    BY RecoveredRow DEF PipelineInv, PipelineTypeOK, RowsSay
<1>2. CASE old.status # "RUNNING"
    BY <1>2, RecoveredRow
<1>3. CASE old.status = "RUNNING" /\ old.maker = "route"
    BY <1>1, <1>3, RecoveredRow, PhaseOfRow
<1>4. CASE old.status = "RUNNING" /\ old.maker = "pipeline"
    <2>1. CASE ~Abandoned(k)
        BY <2>1 DEF Recovered
    <2>2. CASE Abandoned(k)
        <3>1. old.stage # "opportunities"
            BY <1>1, <1>4 DEF RowSays
        <3>2. Recovered(k).status = "FAILED"
            BY <1>1, <2>2, <3>1 DEF Recovered, CoverageRun
        <3>3. Phase(Recovered(k)) = "failed"
            BY <1>1, <1>4, <3>2, RecoveredRow, PhaseOfRow
        <3>4. Phase(old) \in Refreshes!Unpublished
            BY <1>1, <1>4, PhaseOfRow DEF Refreshes!Unpublished
        <3> QED BY <3>3, <3>4 DEF Shown
    <2> QED BY <2>1, <2>2
<1> QED BY <1>1, <1>2, <1>3, <1>4 DEF CoverageRun

(* The head of a refresh gives up what was left, and begins if nothing is   *)
(* at work (refresh_rds_reservations).                                      *)
LEMMA BeginShows ==
    ASSUME PipelineInv, NEW p \in Processes, Begin(p)
    PROVE  Refreshes!GiveUp \/ \E k \in Ids : Refreshes!Begin(k)
<1> DEFINE rows == [k \in Ids |-> Recovered(k)]
<1>a. /\ at[p].step = "locked" /\ at[p].run = 0 /\ p \in Refreshers /\ p # "none"
      /\ pipelineLock = p /\ at \in [Processes -> Places]
    BY PipelineAssumption DEF Begin, PipelineInv, PipelineTypeOK, Places, InPlace, LockHeld, Processes
<1>b. WorkingOn = 0
    BY <1>a DEF WorkingOn
<1>c. \A k \in Ids : rows[k] \in CoverageRun
    BY RecoveredRow
<1>1. CASE \E k \in Ids : rows[k].status = "RUNNING"
    <2>1. coverageRun' = rows /\ pipelineLock' = "none"
        BY <1>1 DEF Begin
    <2>2. WorkingOn' = 0
        BY <2>1 DEF WorkingOn
    <2>3. \A k \in Ids : Shown'[k] = Phase(Recovered(k))
        BY <2>1 DEF Shown
    <2>4. \A k \in Ids : \/ Shown'[k] = Shown[k]
                         \/ Shown[k] \in Refreshes!Unpublished /\ Shown'[k] = "failed"
        BY <2>3, RecoveredShows DEF Shown
    <2> QED BY <1>b, <2>2, <2>4 DEF Refreshes!GiveUp, Refreshes!GivenUp, Shown, WorkingOn
<1>2. CASE ~(\E k \in Ids : rows[k].status = "RUNNING")
    <2> DEFINE new == NewId
               row == [NotMade EXCEPT !.status = "RUNNING", !.inventory = "RUNNING"]
    <2>1. /\ new \in Ids /\ coverageRun' = [rows EXCEPT ![new] = row]
          /\ at' = [at EXCEPT ![p] = [step |-> "inventory", run |-> new]]
          /\ pipelineLock' = pipelineLock
        BY <1>2 DEF Begin
    <2>2. Phase(row) = "collecting"
        <3>1. row \in CoverageRun
            BY DEF NotMade, CoverageRun
        <3>2. row.status = "RUNNING" /\ row.maker = "pipeline" /\ row.inventory = "RUNNING"
            BY DEF NotMade
        <3> HIDE DEF row
        <3> QED BY <3>1, <3>2, PhaseOfRow
    <2>3. Refreshes!ComesNext(new)
        BY <2>1, NewShows
    <2> HIDE DEF new, row
    <2>4. \A k \in Ids : coverageRun'[k] = IF k = new THEN row ELSE Recovered(k)
        BY <2>1
    <2>5. Shown'[new] = "collecting"
        BY <2>1, <2>2, <2>4 DEF Shown
    <2>6. ASSUME NEW k \in Ids, k # new
          PROVE  /\ \/ Shown'[k] = Shown[k]
                    \/ Shown[k] \in Refreshes!Unpublished /\ Shown'[k] = "failed"
                 /\ Shown'[k] \notin Refreshes!Unpublished
        <3>1. Shown'[k] = Phase(Recovered(k))
            BY <2>4, <2>6 DEF Shown
        <3>2. Recovered(k).status # "RUNNING" /\ Recovered(k) \in CoverageRun
            BY <1>2, <1>c
        <3> QED BY <3>1, <3>2, RecoveredShows, PhaseOfRow DEF Shown
    <2>7. WorkingOn' = new
        BY <1>a, <2>1 DEF WorkingOn, Processes, Places
    <2> QED BY <1>b, <2>1, <2>3, <2>5, <2>6, <2>7
            DEF Refreshes!Begin, Refreshes!GivenUp, Shown, WorkingOn
<1> QED BY <1>1, <1>2

(* A run of the coverage route is set aside (_prepare_run).                 *)
LEMMA StartCoverageShows ==
    ASSUME PipelineInv, NEW p \in Routes, StartCoverage(p)
    PROVE  \E k \in Ids : Refreshes!Aside(k)
<1>1. PICK stale \in BOOLEAN :
          coverageRun' = [coverageRun EXCEPT ![NewId] =
              [NotMade EXCEPT !.status = "RUNNING", !.stage = "coverage",
                              !.maker = "route", !.stale = stale]]
    BY DEF StartCoverage
<1> DEFINE new == NewId
           row == [NotMade EXCEPT !.status = "RUNNING", !.stage = "coverage",
                                  !.maker = "route", !.stale = stale]
<1>2. Phase(row) = "aside"
    <2>1. row \in CoverageRun /\ row.status = "RUNNING" /\ row.maker = "route"
        BY DEF NotMade, CoverageRun
    <2> HIDE DEF row
    <2> QED BY <2>1, PhaseOfRow
<1>3. new \in Ids /\ Refreshes!ComesNext(new)
    BY NewShows DEF StartCoverage
<1>4. coverageRun \in [Ids -> CoverageRun] /\ coverageRun' = [coverageRun EXCEPT ![new] = row]
    BY <1>1 DEF PipelineInv, PipelineTypeOK
<1> HIDE DEF new, row
<1>5. Shown' = [Shown EXCEPT ![new] = "aside"]
    BY <1>2, <1>3, <1>4 DEF Shown
<1>6. WorkingOn' = WorkingOn
    <2>1. /\ pipelineLock' = pipelineLock /\ pipelineLock \in Refreshers \cup {"none"}
          /\ p \notin Refreshers /\ at \in [Processes -> Places]
          /\ \A q \in Processes : q # p => at'[q] = at[q]
        BY PipelineAssumption DEF StartCoverage, PipelineInv, PipelineTypeOK, Places
    <2> QED BY <2>1 DEF WorkingOn, Processes
<1> QED BY <1>3, <1>5, <1>6 DEF Refreshes!Aside, Shown, WorkingOn

(* Each stage of a refresh, of whoever is in it.                            *)
LEMMA AdvanceShows ==
    ASSUME PipelineInv, NEW p \in Processes, Advance(p)
    PROVE  [Refreshes!Next]_Refreshes!vars
<1> DEFINE old == coverageRun[at[p].run]
<1>a. /\ at[p].step \in {"idle", "locked"} <=> at[p].run = 0
      /\ at[p].step \notin {"idle", "locked"} =>
            /\ Relies(p, at[p].step, old) /\ old \in CoverageRun
      /\ p \in Refreshers <=> p \notin Routes
    BY HolderIsAtWork, PipelineAssumption DEF PipelineInv, InPlace, Processes
<1>b. /\ Leave(p) => WorkingOn' = IF p \in Refreshers THEN 0 ELSE WorkingOn
      /\ \A step \in Steps : at' = [at EXCEPT ![p].step = step] /\ UNCHANGED pipelineLock =>
            WorkingOn' = WorkingOn
    <2>1. at[p].step # "idle"
        BY DEF Advance, Begin, InventoryFails, InventoryDone, CoverageFails, CoverageDone,
               StartOpportunities, WriteOpportunities, EndOpportunities
    <2> QED BY <2>1, WorkMoves
<1>c. ASSUME at[p].run # 0, NEW row \in CoverageRun, Put(p, row), row.status # "none",
             row.maker = old.maker, p \in Routes,
             Leave(p) \/ \E step \in Steps : at' = [at EXCEPT ![p].step = step] /\ UNCHANGED pipelineLock
      PROVE  UNCHANGED Refreshes!vars
    <2>1. WorkingOn' = WorkingOn
        BY <1>a, <1>b, <1>c
    <2>2. Shown' = Shown
        BY <1>a, <1>c, RoutesAside
    <2> QED BY <2>1, <2>2 DEF Refreshes!vars, Shown, WorkingOn
<1>d. ASSUME at[p].run # 0, p \in Refreshers, NEW row \in CoverageRun, Put(p, row),
             NEW from, Phase(old) \in from
      PROVE  Refreshes!Goes(from, Phase(row))
    BY <1>a, <1>d, PutGoes
<1>1. CASE Begin(p)
    BY <1>1, BeginShows DEF Refreshes!Next
<1>2. CASE InventoryFails(p)
    <2> DEFINE row == [old EXCEPT !.status = "FAILED", !.inventory = "FAILED",
                                  !.stage = "inventory"]
    <2>1. /\ at[p].run # 0 /\ Put(p, row) /\ Leave(p) /\ p \in Refreshers
          /\ Relies(p, "inventory", old) /\ old \in CoverageRun
        BY <1>2, <1>a DEF InventoryFails, Relies
    <2>2. row \in CoverageRun /\ row.status = "FAILED" /\ row.maker = "pipeline"
        BY <2>1 DEF CoverageRun, Relies
    <2>3. Phase(row) = "failed" /\ Phase(old) = "collecting"
        BY <2>1, <2>2, PhaseOfRow DEF Relies
    <2> HIDE DEF row
    <2>4. Refreshes!Goes(Refreshes!Unpublished, Phase(row))
        BY <1>d, <2>1, <2>2, <2>3 DEF Refreshes!Unpublished
    <2> QED BY <1>b, <2>1, <2>3, <2>4 DEF Refreshes!Next, Refreshes!Fails, WorkingOn
<1>3. CASE InventoryDone(p)
    <2>1. PICK stale \in BOOLEAN :
              Put(p, [old EXCEPT !.inventory = "COMPLETED", !.stage = "coverage",
                                 !.stale = stale])
        BY <1>3 DEF InventoryDone
    <2> DEFINE row == [old EXCEPT !.inventory = "COMPLETED", !.stage = "coverage",
                                  !.stale = stale]
    <2>2. /\ at[p].run # 0 /\ Put(p, row) /\ UNCHANGED pipelineLock
          /\ at' = [at EXCEPT ![p].step = "coverage"]
        BY <1>3, <1>a, <2>1 DEF InventoryDone
    <2>3. Relies(p, "inventory", old) /\ old \in CoverageRun /\ p \in Refreshers
        BY <1>3, <1>a DEF InventoryDone, Relies
    <2>4. /\ row \in CoverageRun /\ row.status = "RUNNING" /\ row.inventory = "COMPLETED"
          /\ row.maker = "pipeline"
        BY <2>3 DEF CoverageRun, Relies
    <2>5. Phase(row) = "computing" /\ Phase(old) = "collecting"
        BY <2>3, <2>4, PhaseOfRow DEF Relies
    <2> HIDE DEF row
    <2>6. Refreshes!Goes({"collecting"}, "computing")
        BY <1>d, <2>2, <2>3, <2>4, <2>5
    <2>7. WorkingOn' = WorkingOn
        BY <1>b, <2>2 DEF Steps
    <2> QED BY <2>6, <2>7 DEF Refreshes!Next, Refreshes!Collected, WorkingOn
<1>4. CASE CoverageFails(p)
    <2> DEFINE row == [old EXCEPT !.status = "FAILED", !.stage = "coverage"]
    <2>1. /\ at[p].run # 0 /\ Put(p, row) /\ Leave(p)
          /\ Relies(p, at[p].step, old) /\ old \in CoverageRun
          /\ p \in Refreshers => at[p].step = "coverage"
        BY <1>4, <1>a DEF CoverageFails
    <2>2. row \in CoverageRun /\ row.status = "FAILED" /\ row.maker = old.maker
        BY <2>1 DEF CoverageRun
    <2>3. CASE p \in Refreshers
        <3>1. Phase(row) = "failed" /\ Phase(old) = "computing"
            BY <2>1, <2>2, <2>3, PhaseOfRow DEF Relies
        <3> HIDE DEF row
        <3>2. Refreshes!Goes(Refreshes!Unpublished, Phase(row))
            BY <1>d, <2>1, <2>2, <2>3, <3>1 DEF Refreshes!Unpublished
        <3> QED BY <1>b, <2>1, <2>3, <3>1, <3>2 DEF Refreshes!Next, Refreshes!Fails, WorkingOn
    <2> HIDE DEF row
    <2> QED BY <1>a, <1>c, <2>1, <2>2, <2>3
<1>5. CASE CoverageDone(p)
    <2> DEFINE row == [old EXCEPT !.status = "COMPLETED",
                                  !.stage = IF p \in Routes THEN "opportunities" ELSE "coverage"]
    <2>1. /\ at[p].run # 0 /\ Put(p, row) /\ UNCHANGED pipelineLock
          /\ at' = [at EXCEPT ![p].step = "computed"]
          /\ Relies(p, "coverage", old) /\ old \in CoverageRun
        BY <1>5, <1>a DEF CoverageDone
    <2>2. /\ row \in CoverageRun /\ row.status = "COMPLETED" /\ row.opportunity = "NOT_RUN"
          /\ row.maker = old.maker
        BY <2>1 DEF CoverageRun, Relies
    <2>3. WorkingOn' = WorkingOn /\ "computed" \in Steps
        BY <1>b, <2>1 DEF Steps
    <2>4. CASE p \in Refreshers
        <3>1. Phase(row) = "published" /\ Phase(old) = "computing"
            BY <2>1, <2>2, <2>4, PhaseOfRow DEF Relies
        <3> HIDE DEF row
        <3>2. Refreshes!Goes({"computing"}, "published")
            BY <1>d, <2>1, <2>2, <2>4, <3>1
        <3> QED BY <2>3, <3>2 DEF Refreshes!Next, Refreshes!Published, WorkingOn
    <2> HIDE DEF row
    <2> QED BY <1>a, <1>c, <2>1, <2>2, <2>3, <2>4
<1>6. CASE StartOpportunities(p)
    <2> DEFINE row == [old EXCEPT !.stage = "opportunities", !.opportunity = "RUNNING"]
    <2>1. /\ at[p].run # 0 /\ Put(p, row) /\ UNCHANGED pipelineLock
          /\ at' = [at EXCEPT ![p].step = "opportunities"]
          /\ Relies(p, "computed", old) /\ old \in CoverageRun
        BY <1>6, <1>a DEF StartOpportunities
    <2>2. /\ row \in CoverageRun /\ row.status = "COMPLETED" /\ row.opportunity = "RUNNING"
          /\ row.maker = old.maker
        BY <2>1 DEF CoverageRun, Relies
    <2>3. WorkingOn' = WorkingOn /\ "opportunities" \in Steps
        BY <1>b, <2>1 DEF Steps
    <2>4. CASE p \in Refreshers
        <3>1. Phase(row) = "judging" /\ Phase(old) = "published"
            BY <2>1, <2>2, <2>4, PhaseOfRow DEF Relies
        <3> HIDE DEF row
        <3>2. Refreshes!Goes({"published"}, "judging")
            BY <1>d, <2>1, <2>2, <2>4, <3>1
        <3> QED BY <2>3, <3>2 DEF Refreshes!Next, Refreshes!Judging, WorkingOn
    <2> HIDE DEF row
    <2> QED BY <1>a, <1>c, <2>1, <2>2, <2>3, <2>4
<1>7. CASE WriteOpportunities(p)
    <2>1. /\ UNCHANGED pipelineLock /\ at' = [at EXCEPT ![p].step = "written"]
          /\ coverageRun' = coverageRun
        BY <1>7 DEF WriteOpportunities
    <2>2. WorkingOn' = WorkingOn
        BY <1>b, <2>1 DEF Steps
    <2> QED BY <2>1, <2>2 DEF Refreshes!vars, WorkingOn
<1>8. CASE EndOpportunities(p)
    <2>1. PICK end \in {"COMPLETED", "FAILED"} :
              Put(p, [old EXCEPT !.opportunity = end, !.stage = "completed"])
        BY <1>8 DEF EndOpportunities
    <2> DEFINE row == [old EXCEPT !.opportunity = end, !.stage = "completed"]
    <2>2. /\ at[p].run # 0 /\ Put(p, row) /\ Leave(p)
          /\ Relies(p, at[p].step, old) /\ old \in CoverageRun
          /\ at[p].step \in {"opportunities", "written"}
        BY <1>8, <1>a, <2>1 DEF EndOpportunities
    <2>3. /\ row \in CoverageRun /\ row.status = "COMPLETED" /\ row.opportunity = end
          /\ row.maker = old.maker
        BY <2>2 DEF CoverageRun, Relies
    <2>4. CASE p \in Refreshers
        <3>1. Phase(row) \in {"judged", "unjudged"} /\ Phase(old) = "judging"
            BY <2>2, <2>3, <2>4, PhaseOfRow DEF Relies
        <3> HIDE DEF row
        <3>2. Refreshes!Goes({"judging"}, Phase(row))
            BY <1>d, <2>2, <2>3, <2>4, <3>1
        <3> QED BY <1>b, <2>2, <2>4, <3>1, <3>2
                DEF Refreshes!Next, Refreshes!Judged, Refreshes!Unjudged, WorkingOn
    <2> HIDE DEF row
    <2> QED BY <1>a, <1>c, <2>2, <2>3, <2>4
<1> QED BY <1>1, <1>2, <1>3, <1>4, <1>5, <1>6, <1>7, <1>8 DEF Advance

(* A refresh that was cut off, or has not begun, leaves its run as it is;   *)
(* age does not show.                                                       *)
LEMMA RestShows ==
    ASSUME PipelineInv
    PROVE  /\ \A p \in Refreshers : TakeLock(p) => UNCHANGED Refreshes!vars
           /\ \A p \in Processes : Die(p) => [Refreshes!Next]_Refreshes!vars
           /\ \A k \in Ids : GetOld(k) \/ GetStale(k) => UNCHANGED Refreshes!vars
<1>a. /\ at \in [Processes -> Places] /\ pipelineLock \in Refreshers \cup {"none"}
      /\ Refreshers \subseteq Processes /\ coverageRun \in [Ids -> CoverageRun]
    BY DEF PipelineInv, PipelineTypeOK, Places, Processes
<1>1. ASSUME NEW p \in Refreshers, TakeLock(p)
      PROVE  UNCHANGED Refreshes!vars
    <2>1. coverageRun' = coverageRun /\ WorkingOn = 0
        BY <1>1 DEF TakeLock, WorkingOn
    <2>2. at'[p].run = 0 /\ pipelineLock' = p
        BY <1>1, <1>a DEF TakeLock, Places, PipelineInv, InPlace
    <2>3. WorkingOn' = 0
        BY <2>2 DEF WorkingOn
    <2> QED BY <2>1, <2>3 DEF Refreshes!vars, WorkingOn
<1>2. ASSUME NEW p \in Processes, Die(p)
      PROVE  [Refreshes!Next]_Refreshes!vars
    <2>1. coverageRun' = coverageRun /\ at[p].step # "idle" /\ Leave(p)
        BY <1>2 DEF Die
    <2>2. WorkingOn' = IF p \in Refreshers THEN 0 ELSE WorkingOn
        BY <2>1, WorkMoves
    <2>3. CASE WorkingOn' = WorkingOn
        BY <2>1, <2>3 DEF Refreshes!vars, WorkingOn
    <2>4. CASE WorkingOn' = 0 /\ WorkingOn # 0
        BY <2>1, <2>4 DEF Refreshes!Next, Refreshes!Cut, WorkingOn
    <2> QED BY <2>2, <2>3, <2>4
<1>3. ASSUME NEW k \in Ids, GetOld(k) \/ GetStale(k)
      PROVE  UNCHANGED Refreshes!vars
    <2>1. /\ at' = at /\ pipelineLock' = pipelineLock
          /\ \/ coverageRun' = [coverageRun EXCEPT ![k].old = TRUE]
             \/ coverageRun' = [coverageRun EXCEPT ![k].stale = TRUE]
        BY <1>3 DEF GetOld, GetStale
    <2>2. ASSUME NEW j \in Ids
          PROVE  /\ coverageRun'[j].status = coverageRun[j].status
                 /\ coverageRun'[j].maker = coverageRun[j].maker
                 /\ coverageRun'[j].inventory = coverageRun[j].inventory
                 /\ coverageRun'[j].opportunity = coverageRun[j].opportunity
        BY <1>a, <2>1 DEF CoverageRun
    <2>3. \A j \in Ids : Phase(coverageRun'[j]) = Phase(coverageRun[j])
        BY <2>2 DEF Phase
    <2> QED BY <2>1, <2>3 DEF Refreshes!vars
<1> QED BY <1>1, <1>2, <1>3

(* One refresh is at work at a time, on a run that nobody takes from it; it *)
(* publishes what is whole, and what is published stays, whoever dies and   *)
(* whatever is taken for abandoned (_pipeline_lock,                         *)
(* refresh_rds_reservations, _recover_abandoned_runs).                      *)
THEOREM RefreshesImplemented == PipelineSpec => ImplementsRefreshes
<1>1. PipelineInit => Refreshes!Init
    <2> SUFFICES ASSUME PipelineInit PROVE Refreshes!Init
        OBVIOUS
    <2>1. \A k \in Ids : coverageRun[k] = NotMade
        BY DEF PipelineInit
    <2>2. Phase(NotMade) = "none"
        BY DEF Phase, NotMade
    <2>3. Shown = [k \in Ids |-> "none"]
        BY <2>1, <2>2 DEF Shown
    <2> QED BY <2>3 DEF PipelineInit, Refreshes!Init, Shown
<1>2. ASSUME PipelineInv, [PipelineNext]_pipelineVars
      PROVE  [Refreshes!Next]_Refreshes!vars
    <2>1. ASSUME NEW p \in Routes, StartCoverage(p)
          PROVE  [Refreshes!Next]_Refreshes!vars
        BY <1>2, <2>1, StartCoverageShows DEF Refreshes!Next
    <2>2. CASE UNCHANGED pipelineVars
        BY <2>2 DEF pipelineVars, Refreshes!vars
    <2> QED BY <1>2, <2>1, <2>2, AdvanceShows, RestShows DEF PipelineNext
<1> QED BY <1>1, <1>2, PipelineHolds, PTL DEF PipelineSpec, ImplementsRefreshes, Refreshes!Spec

-----------------------------------------------------------------------------
(* The deployer (AutoDeploy). *)

Journals == [current : Commits, previous : Commits \cup {"none"},
             pending : Commits \cup {"none"}, failed : SUBSET Commits]
Jobs == [step : {"idle", "preparing", "pinned", "activating", "switched",
                 "recovering", "restored"},
         target : Commits \cup {"none"}, manual : BOOLEAN]

(* What the holder of the lock has in hand agrees with the journal.        *)
JobFits ==
    /\ job.step \in {"preparing", "pinned"} =>
          /\ journal.pending = "none" /\ running = journal.current
          /\ job.target \in Commits \ {journal.current}
    /\ job.step \in {"activating", "switched"} =>
          job.target \in Commits /\ journal.pending = job.target
    /\ job.step \in {"pinned", "switched"} => release[job.target] = "whole"
    /\ job.step \in {"recovering", "restored"} => journal.pending \in Commits
    /\ job.step = "restored" => running = journal.current

DeployInv == DeployTypeOK /\ JobFits /\ Recoverable

LEMMA DeployBegins == DeployInit => DeployInv
<1> SUFFICES ASSUME DeployInit PROVE DeployInv
    OBVIOUS
<1> USE DeployAssumption DEF DeployInit, NoJob
<1>1. DeployTypeOK
    BY DEF DeployTypeOK
<1>2. JobFits
    BY DEF JobFits
<1>3. Recoverable
    BY DEF Recoverable, JournalKnows, CurrentRestorable
<1> QED BY <1>1, <1>2, <1>3 DEF DeployInv

LEMMA DeployTypes ==
    ASSUME DeployInv, [DeployNext]_deployVars
    PROVE  DeployTypeOK'
<1> USE DeployAssumption DEF DeployTypeOK
<1>a. DeployTypeOK /\ JobFits
    BY DEF DeployInv
<1>b. /\ Trouble => troubles' \in 0..MaxTroubles
      /\ NoJob \in Jobs
    BY <1>a DEF Trouble, NoJob, Jobs
<1>c. Undo /\ journal.pending \in Commits => journal' \in Journals /\ job' \in Jobs
    BY <1>a DEF Undo, Journals, Jobs
<1>d. ASSUME journal' \in Journals, job' \in Jobs,
             release' \in [Commits -> {"absent", "partial", "whole"}],
             running' \in Commits \cup {"mixed"}, branch' \in Commits,
             pushes' \in 0..MaxPushes, troubles' \in 0..MaxTroubles
      PROVE  DeployTypeOK'
    BY <1>d DEF Journals, Jobs
<1>e. journal \in Journals /\ job \in Jobs
    BY <1>a DEF Journals, Jobs
<1>1. ASSUME NEW v \in Commits, Push(v) PROVE DeployTypeOK'
    BY <1>1, <1>a DEF Push
<1>2. CASE Resume
    BY <1>2, <1>a, <1>c, <1>d DEF Resume
<1>3. CASE Prepare
    BY <1>3, <1>a DEF Prepare
<1>4. CASE PrepareFails
    <2>1. journal' \in Journals
        BY <1>4, <1>a DEF PrepareFails, JobFits, Journals
    <2> QED BY <1>4, <1>a, <1>b, <1>d, <2>1 DEF PrepareFails
<1>5. CASE Pin
    <2>1. job' \in Jobs
        BY <1>5, <1>a DEF Pin, Jobs
    <2>2. release' \in [Commits -> {"absent", "partial", "whole"}]
        BY <1>5, <1>a DEF Pin
    <2> QED BY <1>5, <1>a, <1>d, <1>e, <2>1, <2>2 DEF Pin
<1>6. CASE JournalPending
    <2>1. journal' \in Journals
        BY <1>6, <1>a DEF JournalPending, Journals
    <2>2. job' \in Jobs
        BY <1>6, <1>a DEF JournalPending, Jobs
    <2> QED BY <1>6, <1>a, <1>d, <2>1, <2>2 DEF JournalPending
<1>7. CASE StartRollback
    <2>1. journal' \in Journals
        BY <1>7, <1>a DEF StartRollback, Journals
    <2>2. job' \in Jobs
        BY <1>7, <1>a DEF StartRollback, Jobs
    <2> QED BY <1>7, <1>a, <1>b, <1>d, <2>1, <2>2 DEF StartRollback
<1>8. CASE Retry
    <2>1. journal' \in Journals
        BY <1>8, <1>a DEF Retry, Journals
    <2> QED BY <1>8, <1>a, <1>b, <1>d, <1>e, <2>1 DEF Retry
<1>9. CASE Recreate
    <2>1. job' \in Jobs
        BY <1>9, <1>a DEF Recreate, Jobs
    <2> QED BY <1>9, <1>a, <1>d, <1>e, <2>1 DEF Recreate
<1>10. CASE Switch
    BY <1>10, <1>a DEF Switch, JobFits
<1>11. CASE Confirm
    <2>1. journal' \in Journals
        BY <1>11, <1>a DEF Confirm, JobFits, Journals
    <2> QED BY <1>11, <1>a, <1>b, <1>d, <2>1 DEF Confirm
<1>12. CASE ActivateFails
    BY <1>12, <1>a, <1>c, <1>d DEF ActivateFails, JobFits
<1>13. CASE Restore
    <2>1. job' \in Jobs
        BY <1>13, <1>a DEF Restore, Jobs
    <2> QED BY <1>13, <1>a, <1>d, <1>e, <2>1 DEF Restore
<1>14. CASE RestoreFails
    <2>1. troubles' \in 0..MaxTroubles
        BY <1>14, <1>a, <1>b DEF RestoreFails
    <2> QED BY <1>14, <1>a, <1>b, <1>d, <1>e, <2>1 DEF RestoreFails
<1>15. CASE ClearPending
    <2>1. journal' \in Journals
        BY <1>15, <1>a DEF ClearPending, Journals
    <2> QED BY <1>15, <1>a, <1>b, <1>d, <2>1 DEF ClearPending
<1>16. CASE Stop
    BY <1>16, <1>a, <1>b, <1>d, <1>e DEF Stop
<1>17. CASE UNCHANGED deployVars
    BY <1>17, <1>a DEF deployVars
<1> QED
    BY <1>1, <1>2, <1>3, <1>4, <1>5, <1>6, <1>7, <1>8, <1>9, <1>10, <1>11, <1>12, <1>13, <1>14,
       <1>15, <1>16, <1>17 DEF DeployNext, Deploying

(* The journal is written before what it names is touched, and the release *)
(* that runs is never the one that is prepared (check, activate, recover). *)
LEMMA RecoverableKept ==
    ASSUME DeployInv, [DeployNext]_deployVars
    PROVE  JobFits' /\ Recoverable'
<1> USE DeployAssumption DEF JobFits, Recoverable, JournalKnows, CurrentRestorable
<1>a. DeployTypeOK /\ JobFits /\ Recoverable
    BY DEF DeployInv
<1>b. /\ journal.current \in Commits /\ journal.pending \in Commits \cup {"none"}
      /\ journal.previous \in Commits \cup {"none"} /\ journal.failed \in SUBSET Commits
      /\ journal = [current |-> journal.current, previous |-> journal.previous,
                    pending |-> journal.pending, failed |-> journal.failed]
      /\ job = [step |-> job.step, target |-> job.target, manual |-> job.manual]
      /\ release \in [Commits -> {"absent", "partial", "whole"}] /\ branch \in Commits
    BY <1>a DEF DeployTypeOK
<1>1. ASSUME NEW v \in Commits, Push(v) PROVE JobFits' /\ Recoverable'
    BY <1>1, <1>a DEF Push
<1>2. CASE Resume
    BY <1>2, <1>a, <1>b DEF Resume, Undo
<1>3. CASE Prepare
    BY <1>3, <1>a, <1>b DEF Prepare
<1>4. CASE PrepareFails
    BY <1>4, <1>a, <1>b DEF PrepareFails, NoJob
<1>5. CASE Pin
    BY <1>5, <1>a, <1>b DEF Pin
<1>6. CASE JournalPending
    BY <1>6, <1>a, <1>b DEF JournalPending
<1>7. CASE StartRollback
    BY <1>7, <1>a, <1>b DEF StartRollback
<1>8. CASE Retry
    BY <1>8, <1>a, <1>b DEF Retry
<1>9. CASE Recreate
    BY <1>9, <1>a, <1>b DEF Recreate
<1>10. CASE Switch
    BY <1>10, <1>a, <1>b DEF Switch
<1>11. CASE Confirm
    BY <1>11, <1>a, <1>b DEF Confirm, NoJob
<1>12. CASE ActivateFails
    BY <1>12, <1>a, <1>b DEF ActivateFails, Undo
<1>13. CASE Restore
    BY <1>13, <1>a, <1>b DEF Restore
<1>14. CASE RestoreFails
    BY <1>14, <1>a, <1>b DEF RestoreFails, NoJob
<1>15. CASE ClearPending
    BY <1>15, <1>a, <1>b DEF ClearPending, NoJob
<1>16. CASE Stop
    BY <1>16, <1>a, <1>b DEF Stop, NoJob, DeployTypeOK
<1>17. CASE UNCHANGED deployVars
    BY <1>17, <1>a DEF deployVars
<1> QED
    BY <1>1, <1>2, <1>3, <1>4, <1>5, <1>6, <1>7, <1>8, <1>9, <1>10, <1>11, <1>12, <1>13, <1>14,
       <1>15, <1>16, <1>17 DEF DeployNext, Deploying

LEMMA DeployHolds == DeploySpec => []DeployInv
<1>1. DeployInv /\ [DeployNext]_deployVars => DeployInv'
    BY DeployTypes, RecoverableKept DEF DeployInv
<1> QED BY <1>1, DeployBegins, PTL DEF DeploySpec

(* Every reachable state of the deployer is well typed.                    *)
THEOREM DeployTypeCorrect == DeploySpec => []DeployTypeOK
<1>1. DeployInv => DeployTypeOK
    BY DEF DeployInv
<1> QED BY <1>1, DeployHolds, PTL

(* Wherever the machine stops, in a deploy, a rollback or a recovery, the  *)
(* next check finds a journal that knows what runs, and a release to go    *)
(* back to; for any commits and any number of stops.                       *)
THEOREM DeployRecoverable == DeploySpec => []Recoverable
<1>1. DeployInv => Recoverable
    BY DEF DeployInv
<1> QED BY <1>1, DeployHolds, PTL

(* What the deployer is careful about beyond that: what it prepares is not *)
(* blocked, what it undoes is, and it does not try what runs already.      *)
Careful ==
    /\ job.step \in {"preparing", "pinned"} => job.target \notin journal.failed
    /\ job.step \in {"recovering", "restored"} => journal.pending \in journal.failed
    /\ journal.previous # journal.current /\ journal.pending # journal.current

LEMMA CarefulKept ==
    ASSUME DeployInv, Careful, [DeployNext]_deployVars
    PROVE  Careful'
<1> USE DeployAssumption DEF Careful
<1>a. DeployTypeOK /\ JobFits
    BY DEF DeployInv
<1>b. /\ journal.current \in Commits /\ journal.failed \in SUBSET Commits
      /\ journal = [current |-> journal.current, previous |-> journal.previous,
                    pending |-> journal.pending, failed |-> journal.failed]
      /\ job = [step |-> job.step, target |-> job.target, manual |-> job.manual]
    BY <1>a DEF DeployTypeOK
<1>1. ASSUME NEW v \in Commits, Push(v) PROVE Careful'
    BY <1>1 DEF Push
<1>2. CASE Resume \/ ActivateFails
    BY <1>2, <1>b DEF Resume, ActivateFails, Undo
<1>3. CASE Prepare
    BY <1>3 DEF Prepare
<1>4. CASE PrepareFails
    BY <1>4, <1>b DEF PrepareFails, NoJob
<1>5. CASE Pin \/ Recreate \/ Switch \/ Restore
    BY <1>5, <1>b DEF Pin, Recreate, Switch, Restore
<1>6. CASE JournalPending
    BY <1>6, <1>a, <1>b DEF JournalPending, JobFits
<1>7. CASE StartRollback
    BY <1>7, <1>b DEF StartRollback
<1>8. CASE Retry
    BY <1>8, <1>b DEF Retry
<1>9. CASE Confirm
    BY <1>9, <1>a, <1>b DEF Confirm, NoJob, JobFits
<1>10. CASE RestoreFails \/ Stop
    BY <1>10, <1>b DEF RestoreFails, Stop, NoJob
<1>11. CASE ClearPending
    BY <1>11, <1>b DEF ClearPending, NoJob
<1>12. CASE UNCHANGED deployVars
    BY <1>12 DEF deployVars
<1> QED
    BY <1>1, <1>2, <1>3, <1>4, <1>5, <1>6, <1>7, <1>8, <1>9, <1>10, <1>11, <1>12
       DEF DeployNext, Deploying

(* Each step of the deployer is one of the contract, or none.              *)
LEMMA DeploymentStep ==
    ASSUME DeployInv, Careful, [DeployNext]_deployVars
    PROVE  [Deployment!Next]_Deployment!vars
<1> USE DeployAssumption DEF Careful
<1>a. DeployTypeOK /\ JobFits /\ JournalKnows
    BY DEF DeployInv, Recoverable
<1>b. /\ journal.current \in Commits /\ journal.previous \in Commits \cup {"none"}
      /\ journal.pending \in Commits \cup {"none"} /\ journal.failed \in SUBSET Commits
      /\ journal = [current |-> journal.current, previous |-> journal.previous,
                    pending |-> journal.pending, failed |-> journal.failed]
    BY <1>a DEF DeployTypeOK
<1>c. ASSUME UNCHANGED <<journal, running>> PROVE UNCHANGED Deployment!vars
    BY <1>c DEF Deployment!vars
<1>1. ASSUME NEW v \in Commits, Push(v) PROVE UNCHANGED Deployment!vars
    BY <1>1, <1>c DEF Push
<1>2. CASE Resume \/ ActivateFails
    <2>1. journal.pending \in Commits /\ Undo /\ UNCHANGED running
        BY <1>2, <1>a, <1>b DEF Resume, ActivateFails, JobFits
    <2>2. Deployment!Block
        BY <2>1, <1>b DEF Undo, Deployment!Block
    <2> QED BY <2>2 DEF Deployment!Next
<1>3. CASE Prepare \/ Pin \/ Stop
    BY <1>3, <1>c DEF Prepare, Pin, Stop
<1>4. CASE PrepareFails
    <2>1. Deployment!Refuse(job.target) /\ job.target \in Commits
        BY <1>4, <1>a, <1>b DEF PrepareFails, JobFits, Deployment!Refuse
    <2> QED BY <2>1 DEF Deployment!Next
<1>5. CASE JournalPending
    <2>1. Deployment!Begin(job.target) /\ job.target \in Commits
        BY <1>5, <1>a, <1>b DEF JournalPending, JobFits, Deployment!Begin
    <2> QED BY <2>1 DEF Deployment!Next
<1>6. CASE StartRollback
    <2>1. Deployment!Begin(journal.previous) /\ journal.previous \in Commits
        BY <1>6, <1>a, <1>b DEF StartRollback, JournalKnows, Deployment!Begin
    <2> QED BY <2>1 DEF Deployment!Next
<1>7. CASE Retry
    <2>1. Deployment!Unblock
        BY <1>7, <1>b DEF Retry, Deployment!Unblock
    <2> QED BY <2>1 DEF Deployment!Next
<1>8. CASE Recreate \/ Switch
    <2>1. journal.pending = job.target /\ job.target \in Commits
        BY <1>8, <1>a DEF Recreate, Switch, JobFits
    <2>2. Deployment!Disturb
        BY <1>8, <2>1 DEF Recreate, Switch, Deployment!Disturb
    <2> QED BY <2>2 DEF Deployment!Next
<1>9. CASE Confirm
    <2>1. journal.pending = job.target /\ job.target \in Commits
        BY <1>9, <1>a DEF Confirm, JobFits
    <2>2. Deployment!Accept
        BY <1>9, <2>1 DEF Confirm, Deployment!Accept
    <2> QED BY <2>2 DEF Deployment!Next
<1>10. CASE Restore
    <2>1. Deployment!BringBack
        BY <1>10 DEF Restore, Deployment!BringBack
    <2> QED BY <2>1 DEF Deployment!Next
<1>11. CASE RestoreFails
    <2>1. CASE running' = running
        BY <1>11, <2>1, <1>c DEF RestoreFails
    <2>2. CASE running' = "mixed"
        <3>1. Deployment!Disturb
            BY <1>11, <2>2, <1>a DEF RestoreFails, JobFits, Deployment!Disturb
        <3> QED BY <3>1 DEF Deployment!Next
    <2> QED BY <1>11, <2>1, <2>2 DEF RestoreFails
<1>12. CASE ClearPending
    <2>1. Deployment!GiveUp
        BY <1>12, <1>a, <1>b DEF ClearPending, JobFits, Deployment!GiveUp
    <2> QED BY <2>1 DEF Deployment!Next
<1>13. CASE UNCHANGED deployVars
    BY <1>13, <1>c DEF deployVars
<1> QED
    BY <1>1, <1>2, <1>3, <1>4, <1>5, <1>6, <1>7, <1>8, <1>9, <1>10, <1>11, <1>12, <1>13
       DEF DeployNext, Deploying

(* Whatever stops the deployer and wherever, versions are accepted only as *)
(* they run, containers are touched only under an attempt on record, what  *)
(* is undone is blocked first, and what is blocked stays so until it is    *)
(* unblocked: AutoDeploy implements DeployContract (auto-deploy.md).       *)
THEOREM DeploymentImplemented == DeploySpec => ImplementsDeployment
<1>1. DeployInit => Deployment!Init /\ Careful
    BY DeployAssumption DEF DeployInit, NoJob, Deployment!Init, Careful
<1>2. DeployInv /\ Careful /\ [DeployNext]_deployVars => Careful'
    BY CarefulKept
<1>3. DeployInv /\ Careful /\ [DeployNext]_deployVars => [Deployment!Next]_Deployment!vars
    BY DeploymentStep
<1> QED
    BY <1>1, <1>2, <1>3, DeployHolds, PTL DEF DeploySpec, ImplementsDeployment, Deployment!Spec

-----------------------------------------------------------------------------
(* The queue of scans (CollectionQueue). *)

(* A held scan is not one that may still be claimed, and is in the state    *)
(* its worker's step says. The part HeldOnce and RunFollowsScan stand on.   *)
HeldAs(w) ==
    /\ worker[w].step = "collect" =>
         /\ scan[worker[w].scan].state \in {"running", "deleted"}
         /\ run[worker[w].scan] = "RUNNING"
         /\ worker[w].scan \notin lost
    /\ worker[w].step = "report" =>
         /\ scan[worker[w].scan].state \in {"completed", "deleted"}
         /\ run[worker[w].scan] = "SUCCESS"

HeldState == \A w \in Workers : HeldAs(w)

HeldApart ==
    \A v, w \in Workers :
        v # w /\ worker[w].scan # NoScan => worker[v].scan # worker[w].scan

LostRuns == \A s \in lost : run[s] = "RUNNING"

RunAgrees ==
    \A s \in Scans :
        /\ scan[s].state \in {"none", "pending"} => run[s] = "none"
        /\ scan[s].state = "running" => run[s] = "RUNNING"
        /\ scan[s].state = "completed" => run[s] = "SUCCESS"
        /\ scan[s].state = "failed" => run[s] \in {"none", "FAILED"}

RunHeld ==
    \A s \in Scans :
        run[s] = "RUNNING" => \/ s \in lost
                              \/ scan[s].state = "deleted"
                              \/ \E w \in Workers : /\ worker[w].step = "collect"
                                                    /\ worker[w].scan = s

QueueInv == TypeOK /\ HeldState /\ HeldApart /\ LostRuns /\ RunAgrees /\ RunHeld

-----------------------------------------------------------------------------
(* What Insert does to the scans: some that were unused become pending, for *)
(* the accounts of A, at most one for each (queue_manual_collection,        *)
(* enqueue_due_scans).                                                      *)
LEMMA InsertEffect ==
    ASSUME TypeOK, NEW A \in SUBSET Accounts, Insert(A)
    PROVE  /\ scan' \in [Scans -> ScanRow]
           /\ \E place \in [A -> Unused] : \A s \in Scans :
                \/ scan'[s] = scan[s]
                \/ /\ scan[s].state = "none"
                   /\ scan'[s].state = "pending"
                   /\ scan'[s].account \in A
                   /\ place[scan'[s].account] = s
<1>1. PICK place \in [A -> Unused] :
        scan' = [s \in Scans |->
                      IF \E a \in A : place[a] = s
                      THEN [state |-> "pending",
                            account |-> CHOOSE a \in A : place[a] = s]
                      ELSE scan[s]]
    BY DEF Insert
<1>2. ASSUME NEW s \in Scans
      PROVE  /\ scan'[s] \in ScanRow
             /\ \/ scan'[s] = scan[s]
                \/ /\ scan[s].state = "none"
                   /\ scan'[s].state = "pending"
                   /\ scan'[s].account \in A
                   /\ place[scan'[s].account] = s
    <2>1. CASE \E a \in A : place[a] = s
        <3> DEFINE b == CHOOSE a \in A : place[a] = s
        <3>1. b \in A /\ place[b] = s
            BY <2>1
        <3>2. scan'[s] = [state |-> "pending", account |-> b]
            BY <1>1, <2>1
        <3> HIDE DEF b
        <3>3. scan[s].state = "none"
            BY <3>1 DEF Unused
        <3> QED BY <3>1, <3>2, <3>3 DEF ScanRow, ScanStates
    <2>2. CASE ~ \E a \in A : place[a] = s
        <3>1. scan'[s] = scan[s]
            BY <1>1, <2>2
        <3> QED BY <3>1 DEF TypeOK
    <2> QED BY <2>1, <2>2
<1>3. scan' \in [Scans -> ScanRow]
    <2>1. DOMAIN scan' = Scans /\ scan' = [s \in DOMAIN scan' |-> scan'[s]]
        BY <1>1
    <2> QED BY <2>1, <1>2
<1> QED BY <1>1, <1>2, <1>3

(* One scan takes a new state, and keeps its account (claim_scan,           *)
(* execute_scan, fail_scan).                                                *)
LEMMA ScanType ==
    ASSUME TypeOK, NEW x \in Scans, NEW st \in ScanStates,
           scan' = [scan EXCEPT ![x].state = st]
    PROVE  /\ scan' \in [Scans -> ScanRow]
           /\ scan'[x] = [state |-> st, account |-> scan[x].account]
           /\ \A t \in Scans : t # x => scan'[t] = scan[t]
<1>1. scan \in [Scans -> ScanRow] /\ scan[x] \in ScanRow
    BY DEF TypeOK
<1>2. [scan[x] EXCEPT !.state = st] = [state |-> st, account |-> scan[x].account]
    BY <1>1 DEF ScanRow
<1>3. [state |-> st, account |-> scan[x].account] \in ScanRow
    BY <1>1 DEF ScanRow
<1>4. scan' = [scan EXCEPT ![x] = [state |-> st, account |-> scan[x].account]]
    BY <1>1, <1>2
<1> QED BY <1>1, <1>3, <1>4

(* What a worker writes to the scan it holds, or to none, has the types of  *)
(* a scan and of a run (execute_scan, fail_scan).                           *)
LEMMA HeldType ==
    ASSUME TypeOK, NEW x \in Scans \cup {NoScan},
           NEW st \in ScanStates, NEW rs \in RunStates
    PROVE  /\ [scan EXCEPT ![x].state = st] \in [Scans -> ScanRow]
           /\ [run EXCEPT ![x] = rs] \in [Scans -> RunStates]
<1>1. scan \in [Scans -> ScanRow] /\ run \in [Scans -> RunStates]
    BY DEF TypeOK
<1>2. CASE x \in Scans
    <2>1. [scan[x] EXCEPT !.state = st] \in ScanRow
        BY <1>1, <1>2 DEF ScanRow
    <2>2. [scan EXCEPT ![x].state = st] = [scan EXCEPT ![x] = [scan[x] EXCEPT !.state = st]]
        BY <1>1
    <2> QED BY <1>1, <1>2, <2>1, <2>2
<1>3. CASE x \notin Scans
    BY <1>1, <1>3
<1> QED BY <1>2, <1>3

(* The typed form of one worker's new row. *)
LEMMA WorkerType ==
    ASSUME TypeOK, NEW w \in Workers, NEW row \in WorkerRow,
           worker' = [worker EXCEPT ![w] = row]
    PROVE  /\ worker' \in [Workers -> WorkerRow]
           /\ worker'[w] = row
           /\ \A v \in Workers : v # w => worker'[v] = worker[v]
    BY DEF TypeOK

LEMMA IdleIsRow == Idle \in WorkerRow /\ Down \in WorkerRow
    BY DEF Idle, Down, WorkerRow, NoScan

(* What the scheduler's commit and the end of a collection leave in the     *)
(* worker's row.                                                            *)
LEMMA RowChanges ==
    ASSUME TypeOK, NEW w \in Workers
    PROVE  /\ worker[w] \in WorkerRow
           /\ worker[w].due \in SUBSET Accounts /\ worker[w].free \in SUBSET Accounts
           /\ [step |-> "claim", due |-> worker[w].due,
               free |-> {}, scan |-> NoScan] \in WorkerRow
           /\ worker[w].step \in {"collect", "report"} =>
                /\ worker[w].scan \in Scans
                /\ [step |-> "report", due |-> {}, free |-> {},
                    scan |-> worker[w].scan] \in WorkerRow
                /\ [worker EXCEPT ![w].step = "report"] =
                     [worker EXCEPT ![w] = [step |-> "report", due |-> {}, free |-> {},
                                            scan |-> worker[w].scan]]
<1>1. worker[w] \in WorkerRow /\ worker \in [Workers -> WorkerRow]
    BY DEF TypeOK
<1>2. worker[w].due \in SUBSET Accounts /\ worker[w].free \in SUBSET Accounts
    BY <1>1 DEF WorkerRow
<1>3. ASSUME worker[w].step \in {"collect", "report"}
      PROVE  /\ worker[w].scan \in Scans
             /\ [worker EXCEPT ![w].step = "report"] =
                  [worker EXCEPT ![w] = [step |-> "report", due |-> {}, free |-> {},
                                         scan |-> worker[w].scan]]
    <2>1. worker[w] \in [step : {"collect", "report"}, due : {{}}, free : {{}}, scan : Scans]
        BY <1>1, <1>3 DEF WorkerRow
    <2>2. [worker[w] EXCEPT !.step = "report"] =
            [step |-> "report", due |-> {}, free |-> {}, scan |-> worker[w].scan]
        BY <2>1
    <2>3. [worker EXCEPT ![w].step = "report"] =
            [worker EXCEPT ![w] = [worker[w] EXCEPT !.step = "report"]]
        BY <1>1
    <2> QED BY <2>1, <2>2, <2>3
<1> QED BY <1>1, <1>2, <1>3 DEF WorkerRow

(* One account row is changed, or none (update_cloud_account and            *)
(* delete_cloud_account).                                                   *)
LEMMA AccountType ==
    ASSUME TypeOK, NEW a \in Accounts, NEW row \in AccountRow,
           account' = [account EXCEPT ![a] = row]
    PROVE  account' \in [Accounts -> AccountRow]
    BY DEF TypeOK

LEMMA AccountRows ==
    ASSUME TypeOK, NEW a \in Accounts
    PROVE  /\ [account[a] EXCEPT !.enabled = TRUE] \in AccountRow
           /\ [account[a] EXCEPT !.enabled = FALSE] \in AccountRow
           /\ [account[a] EXCEPT !.scheduled = TRUE,
                                 !.next = IF @ = "null" THEN "due" ELSE @] \in AccountRow
           /\ [account[a] EXCEPT !.scheduled = FALSE, !.next = "null"] \in AccountRow
           /\ [account[a] EXCEPT !.next = "later"] \in AccountRow
           /\ [account[a] EXCEPT !.next = "due"] \in AccountRow
           /\ [present |-> FALSE, enabled |-> FALSE,
               scheduled |-> FALSE, next |-> "null"] \in AccountRow
<1>1. account[a] \in AccountRow
    BY DEF TypeOK
<1> QED BY <1>1 DEF AccountRow

-----------------------------------------------------------------------------
(* Every step of operators, requests and workers keeps the types.           *)
LEMMA TypeStep ==
    ASSUME TypeOK, [Next]_vars
    PROVE  TypeOK'
<1> USE BoundAssumption
<1>1. CASE Operate \/ \E a \in Accounts : TimePasses(a)
    <2>1. PICK a \in Accounts :
            \/ Enable(a) \/ Disable(a) \/ Delete(a)
            \/ ScheduleOn(a) \/ ScheduleOff(a) \/ ChangeInterval(a) \/ TimePasses(a)
        BY <1>1 DEF Operate
    <2>2. CASE Delete(a)
        <3>1. account' \in [Accounts -> AccountRow]
            BY <2>2, AccountType, AccountRows DEF Delete
        <3>2. \A s \in Scans : [scan[s] EXCEPT !.state = "deleted"] \in ScanRow
            BY DEF TypeOK, ScanRow, ScanStates
        <3>3. scan' \in [Scans -> ScanRow]
            BY <2>2, <3>2 DEF Delete, TypeOK
        <3> QED BY <2>2, <3>1, <3>3 DEF Delete, TypeOK
    <2>3. CASE ~Delete(a)
        <3>1. PICK row \in AccountRow : SetAccount(a, row)
            <4> USE AccountRows
            <4>1. CASE Enable(a) BY <4>1 DEF Enable
            <4>2. CASE Disable(a) BY <4>2 DEF Disable
            <4>3. CASE ScheduleOn(a) BY <4>3 DEF ScheduleOn
            <4>4. CASE ScheduleOff(a) BY <4>4 DEF ScheduleOff
            <4>5. CASE ChangeInterval(a) BY <4>5 DEF ChangeInterval
            <4>6. CASE TimePasses(a) BY <4>6 DEF TimePasses
            <4> QED BY <2>1, <2>3, <4>1, <4>2, <4>3, <4>4, <4>5, <4>6
        <3> QED BY <3>1, AccountType DEF SetAccount, TypeOK
    <2> QED BY <2>2, <2>3
<1>2. CASE Request
    <2>1. PICK q \in Requests :
            InsertRequest(q) \/ \E a \in Accounts : CheckRequest(q, a)
        BY <1>2 DEF Request
    <2>2. CASE InsertRequest(q)
        <3>1. request' \in [Requests -> Accounts \cup {NoAccount}]
            BY <2>2 DEF InsertRequest, TypeOK
        <3>2. scan' \in [Scans -> ScanRow]
            <4>1. CASE account[request[q]].present
                <5>1. request[q] \in Accounts
                    BY <2>2 DEF InsertRequest, TypeOK
                <5>2. Insert({request[q]})
                    BY <2>2, <4>1 DEF InsertRequest
                <5> QED BY <5>1, <5>2, InsertEffect
            <4>2. CASE ~account[request[q]].present
                BY <2>2, <4>2 DEF InsertRequest, TypeOK
            <4> QED BY <4>1, <4>2
        <3> QED BY <2>2, <3>1, <3>2 DEF InsertRequest, TypeOK
    <2>3. CASE \E a \in Accounts : CheckRequest(q, a)
        BY <2>3 DEF CheckRequest, TypeOK
    <2> QED BY <2>1, <2>2, <2>3
<1>3. CASE \E w \in Workers : Work(w) \/ Crash(w)
    <2>1. PICK w \in Workers : Work(w) \/ Crash(w)
        BY <1>3
    <2>2. CASE LookForDue(w)
        <3>1. [step |-> "enqueue", due |-> Due,
               free |-> {a \in Due : ~HasActive(a)}, scan |-> NoScan] \in WorkerRow
            BY DEF Due, WorkerRow
        <3> QED BY <2>2, <3>1, WorkerType DEF LookForDue, TypeOK
    <2>3. CASE Enqueue(w)
        <3>1. CASE \A a \in worker[w].due : account[a].present
            <4>1. worker[w].free \in SUBSET Accounts
                BY DEF TypeOK, WorkerRow
            <4>2. scan' \in [Scans -> ScanRow]
                BY <2>3, <3>1, <4>1, InsertEffect DEF Enqueue
            <4>3. worker' \in [Workers -> WorkerRow]
                <5>1. worker' = [worker EXCEPT ![w] =
                                   [step |-> "claim", due |-> worker[w].due,
                                    free |-> {}, scan |-> NoScan]]
                    BY <2>3, <3>1 DEF Enqueue
                <5> QED BY <5>1, RowChanges, WorkerType
            <4>4. account' \in [Accounts -> AccountRow]
                <5>1. \A a \in Accounts : [account[a] EXCEPT !.next = "later"] \in AccountRow
                    BY AccountRows
                <5>2. account' = [a \in Accounts |->
                                    IF a \in worker[w].due
                                    THEN [account[a] EXCEPT !.next = "later"]
                                    ELSE account[a]]
                    BY <2>3, <3>1 DEF Enqueue
                <5> QED BY <5>1, <5>2 DEF TypeOK
            <4> QED BY <2>3, <4>2, <4>3, <4>4 DEF Enqueue, TypeOK
        <3>2. CASE ~ \A a \in worker[w].due : account[a].present
            BY <2>3, <3>2, IdleIsRow, WorkerType DEF Enqueue, TypeOK
        <3> QED BY <3>1, <3>2
    <2>4. CASE Claim(w)
        <3>1. CASE NothingToClaim(w)
            BY <3>1, IdleIsRow, WorkerType DEF NothingToClaim, TypeOK
        <3>2. ASSUME NEW s \in Scans, ClaimScan(w, s)
              PROVE  TypeOK'
            <4>1. [step |-> "collect", due |-> {}, free |-> {}, scan |-> s] \in WorkerRow
                BY DEF WorkerRow
            <4>2. scan' \in [Scans -> ScanRow] /\ run' \in [Scans -> RunStates]
                BY <3>2, ScanType DEF ClaimScan, TypeOK, ScanStates, RunStates
            <4> QED BY <3>2, <4>1, <4>2, WorkerType DEF ClaimScan, TypeOK
        <3>3. ASSUME NEW s \in Scans, RefuseScan(w, s)
              PROVE  TypeOK'
            <4>1. scan' \in [Scans -> ScanRow]
                BY <3>3, ScanType DEF RefuseScan, ScanStates
            <4> QED BY <3>3, <4>1, IdleIsRow, WorkerType DEF RefuseScan, TypeOK
        <3> QED BY <2>4, <3>1, <3>2, <3>3 DEF Claim
    <2>5. CASE Persist(w)
        <3>1. scan' \in [Scans -> ScanRow] /\ run' \in [Scans -> RunStates]
            BY <2>5, RowChanges, HeldType DEF Persist, ScanStates, RunStates
        <3> QED BY <2>5, <3>1, RowChanges, WorkerType DEF Persist, TypeOK
    <2>6. CASE Report(w)
        BY <2>6, IdleIsRow, WorkerType DEF Report, TypeOK
    <2>7. CASE FailScan(w)
        <3>1. scan' \in [Scans -> ScanRow] /\ run' \in [Scans -> RunStates]
            <4>1. CASE scan[worker[w].scan].state = "deleted"
                BY <2>7, <4>1 DEF FailScan, TypeOK
            <4>2. CASE scan[worker[w].scan].state # "deleted"
                <5>1. /\ scan' = [scan EXCEPT ![worker[w].scan].state = "failed"]
                      /\ run' = [run EXCEPT ![worker[w].scan] = "FAILED"]
                    BY <2>7, <4>2 DEF FailScan
                <5> QED BY <2>7, <5>1, RowChanges, HeldType DEF FailScan, ScanStates, RunStates
            <4> QED BY <4>1, <4>2
        <3> QED BY <2>7, <3>1, IdleIsRow, WorkerType DEF FailScan, TypeOK
    <2>8. CASE Restart(w)
        BY <2>8, IdleIsRow, WorkerType DEF Restart, TypeOK
    <2>9. CASE Crash(w)
        <3>1. crashes' \in 0..MaxCrashes
            BY <2>9 DEF Crash, TypeOK
        <3>2. lost' \in SUBSET Scans
            BY <2>9, RowChanges DEF Crash, TypeOK
        <3> QED BY <2>9, <3>1, <3>2, IdleIsRow, WorkerType DEF Crash, TypeOK
    <2> QED BY <2>1, <2>2, <2>3, <2>4, <2>5, <2>6, <2>7, <2>8, <2>9 DEF Work
<1>4. CASE UNCHANGED vars
    BY <1>4 DEF vars, TypeOK
<1> QED BY <1>1, <1>2, <1>3, <1>4 DEF Next

(* Every reachable state has the types of the rows and of the workers'      *)
(* local state, whatever the operators, requests and workers did.           *)
THEOREM QueueTypeCorrect == Spec => []TypeOK
<1>1. Init => TypeOK
    <2> SUFFICES ASSUME Init PROVE TypeOK
        OBVIOUS
    <2>1. \A s \in Scans : [state |-> "none", account |-> NoAccount] \in ScanRow
        BY DEF ScanRow, ScanStates
    <2>2. account \in [Accounts -> AccountRow]
        BY DEF Init
    <2> QED BY <2>1, <2>2, IdleIsRow, BoundAssumption DEF Init, TypeOK, RunStates
<1>2. TypeOK /\ [Next]_vars => TypeOK'
    BY TypeStep
<1> QED BY <1>1, <1>2, PTL DEF Spec

-----------------------------------------------------------------------------
(* A worker that holds no scan is at none of the steps that have one.       *)
LEMMA HoldsAtStep ==
    ASSUME TypeOK, NEW w \in Workers
    PROVE  /\ worker[w].scan \in Scans \cup {NoScan}
           /\ worker[w].step \in {"collect", "report"} <=> worker[w].scan # NoScan
           /\ worker[w].scan # NoScan => worker[w].scan \in Scans
<1>1. worker[w] \in WorkerRow
    BY DEF TypeOK
<1>2. NoScan \notin Scans
    BY BoundAssumption DEF Scans, NoScan
<1> QED BY <1>1, <1>2 DEF WorkerRow

(* The steps that leave the held scans, the runs and the lost alone: a scan *)
(* is inserted, refused or deleted, or none changes.                        *)
LEMMA Quiet ==
    ASSUME QueueInv, TypeOK', run' = run, lost' = lost,
           \A v \in Workers : /\ worker'[v].scan = worker[v].scan
                              /\ worker'[v].step = worker[v].step \/ worker[v].scan = NoScan,
           \A s \in Scans : \/ scan'[s] = scan[s]
                            \/ scan[s].state = "none" /\ scan'[s].state = "pending"
                            \/ scan[s].state = "pending" /\ scan'[s].state = "failed"
                            \/ scan'[s].state = "deleted"
    PROVE  QueueInv'
<1>1. TypeOK
    BY DEF QueueInv
<1>2. \A v \in Workers :
        /\ worker'[v].step \in {"collect", "report"} => /\ worker'[v].step = worker[v].step
                                                        /\ worker[v].scan \in Scans
        /\ worker[v].step \in {"collect", "report"} => worker'[v].step = worker[v].step
    <2> TAKE v \in Workers
    <2>1. worker'[v].step \in {"collect", "report"} <=> worker'[v].scan # NoScan
        <3>1. worker'[v] \in WorkerRow /\ NoScan \notin Scans
            BY BoundAssumption DEF TypeOK, Scans, NoScan
        <3> QED BY <3>1 DEF WorkerRow
    <2> QED BY <1>1, <2>1, HoldsAtStep
<1>3. HeldState'
    <2> SUFFICES ASSUME NEW v \in Workers PROVE HeldAs(v)'
        BY DEF HeldState
    <2> QED BY <1>2 DEF QueueInv, HeldState, HeldAs
<1>4. HeldApart'
    BY DEF QueueInv, HeldApart
<1>5. LostRuns' /\ RunAgrees'
    BY DEF QueueInv, LostRuns, RunAgrees
<1>6. RunHeld'
    <2> SUFFICES ASSUME NEW s \in Scans, run[s] = "RUNNING", s \notin lost,
                        scan'[s].state # "deleted"
                 PROVE  \E v \in Workers : worker'[v].step = "collect" /\ worker'[v].scan = s
        BY DEF RunHeld
    <2>1. scan[s].state # "deleted"
        BY DEF QueueInv, RunAgrees
    <2>2. PICK v \in Workers : worker[v].step = "collect" /\ worker[v].scan = s
        BY <2>1 DEF QueueInv, RunHeld
    <2> QED BY <1>2, <2>2
<1> QED BY <1>3, <1>4, <1>5, <1>6 DEF QueueInv

(* Claiming is the step that makes a scan held: it was pending, so without  *)
(* a run, and every held or lost scan has one (claim_scan).                 *)
LEMMA ClaimKeeps ==
    ASSUME QueueInv, TypeOK', NEW w \in Workers, NEW s \in Scans, ClaimScan(w, s)
    PROVE  QueueInv'
<1>1. TypeOK
    BY DEF QueueInv
<1>2. scan[s].state = "pending" /\ run[s] = "none" /\ s \notin lost
    BY DEF QueueInv, ClaimScan, Oldest, Pending, RunAgrees, LostRuns
<1>3. /\ scan'[s].state = "running"
      /\ \A t \in Scans : t # s => scan'[t] = scan[t]
    <2>1. scan' = [scan EXCEPT ![s].state = "running"]
        BY DEF ClaimScan
    <2> QED BY <1>1, <2>1 DEF TypeOK, ScanRow
<1>4. run'[s] = "RUNNING" /\ \A t \in Scans : t # s => run'[t] = run[t]
    BY <1>1 DEF ClaimScan, TypeOK
<1>5. /\ worker[w].step = "claim"
      /\ worker'[w].step = "collect" /\ worker'[w].scan = s
      /\ \A v \in Workers : v # w => worker'[v] = worker[v]
    BY <1>1 DEF ClaimScan, TypeOK
<1>6. \A v \in Workers : worker[v].step \in {"collect", "report"} =>
                            worker[v].scan # s /\ worker[v].scan \in Scans
    BY <1>1, <1>2, HoldsAtStep DEF QueueInv, HeldState, HeldAs
<1>7. lost' = lost
    BY DEF ClaimScan
<1>8. HeldState'
    <2> SUFFICES ASSUME NEW v \in Workers PROVE HeldAs(v)'
        BY DEF HeldState
    <2>1. CASE v = w
        BY <2>1, <1>2, <1>3, <1>4, <1>5, <1>7 DEF HeldAs
    <2>2. CASE v # w
        BY <2>2, <1>3, <1>4, <1>5, <1>6, <1>7 DEF QueueInv, HeldState, HeldAs
    <2> QED BY <2>1, <2>2
<1>9. HeldApart'
    BY <1>1, <1>5, <1>6, HoldsAtStep DEF QueueInv, HeldApart
<1>10. LostRuns' /\ RunAgrees'
    BY <1>1, <1>2, <1>3, <1>4, <1>7 DEF QueueInv, LostRuns, RunAgrees, TypeOK
<1>11. RunHeld'
    BY <1>3, <1>4, <1>5, <1>7 DEF QueueInv, RunHeld
<1> QED BY <1>8, <1>9, <1>10, <1>11 DEF QueueInv

(* Persisting ends the run of the scan the worker holds (execute_scan).     *)
LEMMA PersistKeeps ==
    ASSUME QueueInv, TypeOK', NEW w \in Workers, Persist(w)
    PROVE  QueueInv'
<1> DEFINE s == worker[w].scan
<1>1. TypeOK /\ s \in Scans /\ worker[w].step = "collect"
    BY RowChanges DEF QueueInv, Persist
<1>2. scan[s].state = "running" /\ run[s] = "RUNNING" /\ s \notin lost
    BY <1>1 DEF QueueInv, HeldState, HeldAs, Persist
<1>3. /\ scan'[s].state = "completed"
      /\ \A t \in Scans : t # s => scan'[t] = scan[t]
    <2>1. scan' = [scan EXCEPT ![worker[w].scan].state = "completed"]
        BY DEF Persist
    <2> QED BY <1>1, <2>1 DEF TypeOK, ScanRow
<1>4. run'[s] = "SUCCESS" /\ \A t \in Scans : t # s => run'[t] = run[t]
    BY <1>1 DEF Persist, TypeOK
<1>5. /\ worker'[w].step = "report" /\ worker'[w].scan = s
      /\ \A v \in Workers : v # w => worker'[v] = worker[v]
    BY <1>1, RowChanges DEF Persist, TypeOK
<1>6. \A v \in Workers \ {w} : worker[v].step \in {"collect", "report"} =>
                            worker[v].scan # s /\ worker[v].scan \in Scans
    BY <1>1, HoldsAtStep DEF QueueInv, HeldApart
<1>7. lost' = lost
    BY DEF Persist
<1> HIDE DEF s
<1>8. HeldState'
    <2> SUFFICES ASSUME NEW v \in Workers PROVE HeldAs(v)'
        BY DEF HeldState
    <2>1. CASE v = w
        BY <2>1, <1>3, <1>4, <1>5 DEF HeldAs
    <2>2. CASE v # w
        BY <2>2, <1>3, <1>4, <1>5, <1>6, <1>7 DEF QueueInv, HeldState, HeldAs
    <2> QED BY <2>1, <2>2
<1>9. HeldApart'
    BY <1>1, <1>5 DEF QueueInv, HeldApart, s
<1>10. LostRuns' /\ RunAgrees'
    BY <1>1, <1>2, <1>3, <1>4, <1>7 DEF QueueInv, LostRuns, RunAgrees, TypeOK
<1>11. RunHeld'
    <2> SUFFICES ASSUME NEW t \in Scans, run'[t] = "RUNNING", t \notin lost',
                        scan'[t].state # "deleted"
                 PROVE  \E v \in Workers : worker'[v].step = "collect" /\ worker'[v].scan = t
        BY DEF RunHeld
    <2>1. t # s
        BY <1>4
    <2>2. PICK v \in Workers : worker[v].step = "collect" /\ worker[v].scan = t
        BY <2>1, <1>3, <1>4, <1>7 DEF QueueInv, RunHeld
    <2>3. v # w
        BY <2>1, <2>2 DEF s
    <2> QED BY <1>5, <2>2, <2>3
<1> QED BY <1>8, <1>9, <1>10, <1>11 DEF QueueInv

(* A worker that is done with its scan, or dies, leaves it behind in a      *)
(* state that agrees with its run; only a scan still being collected is     *)
(* lost (process_once, fail_scan).                                          *)
LEMMA LetsGo ==
    ASSUME QueueInv, TypeOK', NEW w \in Workers,
           worker'[w].scan = NoScan,
           \A v \in Workers : v # w => worker'[v] = worker[v],
           lost \subseteq lost', lost' \subseteq lost \cup {worker[w].scan},
           \A t \in Scans : t # worker[w].scan => scan'[t] = scan[t] /\ run'[t] = run[t],
           \A s \in Scans : s = worker[w].scan =>
               \/ /\ scan'[s] = scan[s] /\ run'[s] = run[s]
                  /\ worker[w].step = "collect" => scan[s].state = "deleted" \/ s \in lost'
                  /\ worker[w].step # "collect" => lost' = lost
               \/ scan'[s].state = "failed" /\ run'[s] = "FAILED" /\ lost' = lost
    PROVE  QueueInv'
<1>1. TypeOK
    BY DEF QueueInv
<1>2. worker'[w].step \notin {"collect", "report"}
    <2>1. worker'[w] \in WorkerRow /\ NoScan \notin Scans
        BY BoundAssumption DEF TypeOK, Scans, NoScan
    <2> QED BY <2>1 DEF WorkerRow
<1>3. \A v \in Workers : v # w /\ worker[v].step \in {"collect", "report"} =>
                            worker[v].scan \in Scans /\ worker[v].scan # worker[w].scan
    BY <1>1, HoldsAtStep DEF QueueInv, HeldApart
<1>4. \A s \in Scans : s = worker[w].scan /\ s \in lost => FALSE
    BY <1>1, HoldsAtStep, BoundAssumption
       DEF QueueInv, HeldState, HeldAs, LostRuns, Scans, NoScan
<1>5. HeldState'
    <2> SUFFICES ASSUME NEW v \in Workers PROVE HeldAs(v)'
        BY DEF HeldState
    <2>1. CASE v = w
        BY <2>1, <1>2 DEF HeldAs
    <2>2. CASE v # w
        BY <2>2, <1>3 DEF QueueInv, HeldState, HeldAs
    <2> QED BY <2>1, <2>2
<1>6. HeldApart'
    BY <1>1 DEF QueueInv, HeldApart
<1>7. LostRuns'
    <2> SUFFICES ASSUME NEW s \in lost' PROVE run'[s] = "RUNNING"
        BY DEF LostRuns
    <2>1. s \in Scans
        BY DEF TypeOK
    <2>2. CASE s = worker[w].scan
        <3>1. s \notin lost
            BY <2>1, <2>2, <1>4
        <3>2. run'[s] = run[s] /\ worker[w].step = "collect"
            BY <2>1, <2>2, <3>1
        <3> QED BY <2>2, <3>2 DEF QueueInv, HeldState, HeldAs
    <2>3. CASE s # worker[w].scan
        BY <2>1, <2>3 DEF QueueInv, LostRuns
    <2> QED BY <2>2, <2>3
<1>8. RunAgrees'
    <2> SUFFICES ASSUME NEW s \in Scans
                 PROVE  /\ scan'[s].state \in {"none", "pending"} => run'[s] = "none"
                        /\ scan'[s].state = "running" => run'[s] = "RUNNING"
                        /\ scan'[s].state = "completed" => run'[s] = "SUCCESS"
                        /\ scan'[s].state = "failed" => run'[s] \in {"none", "FAILED"}
        BY DEF RunAgrees
    <2>1. CASE scan'[s] = scan[s] /\ run'[s] = run[s]
        BY <2>1 DEF QueueInv, RunAgrees
    <2>2. CASE ~(scan'[s] = scan[s] /\ run'[s] = run[s])
        <3>1. scan'[s].state = "failed" /\ run'[s] = "FAILED"
            BY <2>2
        <3> QED BY <3>1
    <2> QED BY <2>1, <2>2
<1>9. RunHeld'
    <2> SUFFICES ASSUME NEW s \in Scans, run'[s] = "RUNNING", s \notin lost',
                        scan'[s].state # "deleted"
                 PROVE  \E v \in Workers : worker'[v].step = "collect" /\ worker'[v].scan = s
        BY DEF RunHeld
    <2>1. scan'[s] = scan[s] /\ run'[s] = run[s] /\ s \notin lost
        OBVIOUS
    <2>2. PICK v \in Workers : worker[v].step = "collect" /\ worker[v].scan = s
        BY <2>1 DEF QueueInv, RunHeld
    <2>3. v # w
        BY <2>1, <2>2
    <2> QED BY <2>2, <2>3
<1> QED BY <1>5, <1>6, <1>7, <1>8, <1>9 DEF QueueInv

(* Each step of operators, requests, the clock and the scheduler is quiet.  *)
LEMMA OperateKeeps ==
    ASSUME QueueInv, TypeOK', Operate \/ Request \/ \E a \in Accounts : TimePasses(a)
    PROVE  QueueInv'
<1>1. TypeOK
    BY DEF QueueInv
<1>2. CASE \E a \in Accounts : Delete(a)
    <2>1. PICK a \in Accounts : Delete(a)
        BY <1>2
    <2>2. ASSUME NEW s \in Scans
          PROVE  scan'[s] = scan[s] \/ scan'[s].state = "deleted"
        <3>1. [scan[s] EXCEPT !.state = "deleted"].state = "deleted"
            BY <1>1 DEF TypeOK, ScanRow
        <3> QED BY <2>1, <3>1 DEF Delete
    <2> QED BY <2>1, <2>2, Quiet DEF Delete
<1>3. CASE \E q \in Requests : InsertRequest(q)
    <2>1. PICK q \in Requests : InsertRequest(q)
        BY <1>3
    <2>2. CASE account[request[q]].present
        <3>1. {request[q]} \in SUBSET Accounts /\ Insert({request[q]})
            BY <1>1, <2>1, <2>2 DEF InsertRequest, TypeOK
        <3>2. \A s \in Scans : \/ scan'[s] = scan[s]
                               \/ scan[s].state = "none" /\ scan'[s].state = "pending"
            BY <1>1, <3>1, InsertEffect
        <3> QED BY <2>1, <3>2, Quiet DEF InsertRequest
    <2>3. CASE ~account[request[q]].present
        BY <2>1, <2>3, Quiet DEF InsertRequest
    <2> QED BY <2>2, <2>3
<1>4. CASE ~(\E a \in Accounts : Delete(a)) /\ ~(\E q \in Requests : InsertRequest(q))
    <2>1. /\ scan' = scan /\ run' = run /\ worker' = worker /\ lost' = lost
        BY <1>4 DEF Operate, Request, Enable, Disable, ScheduleOn, ScheduleOff,
                    ChangeInterval, TimePasses, SetAccount, CheckRequest
    <2> QED BY <2>1, Quiet
<1> QED BY <1>2, <1>3, <1>4

(* So is each step of a worker that neither takes a scan nor leaves one.    *)
LEMMA QuietWork ==
    ASSUME QueueInv, TypeOK', NEW w \in Workers,
           \/ LookForDue(w) \/ Enqueue(w) \/ NothingToClaim(w) \/ Restart(w)
           \/ \E s \in Scans : RefuseScan(w, s)
    PROVE  QueueInv'
<1>1. TypeOK
    BY DEF QueueInv
<1>2. worker[w].scan = NoScan
    BY <1>1, HoldsAtStep DEF LookForDue, Enqueue, NothingToClaim, Restart, RefuseScan
<1>3. /\ worker'[w].scan = NoScan
      /\ \A v \in Workers : v # w => worker'[v] = worker[v]
    BY <1>1 DEF LookForDue, Enqueue, NothingToClaim, Restart, RefuseScan, TypeOK, Idle, Down
<1>4. run' = run /\ lost' = lost
    BY DEF LookForDue, Enqueue, NothingToClaim, Restart, RefuseScan
<1>5. \A s \in Scans : \/ scan'[s] = scan[s]
                       \/ scan[s].state = "none" /\ scan'[s].state = "pending"
                       \/ scan[s].state = "pending" /\ scan'[s].state = "failed"
    <2>1. CASE scan' = scan
        BY <2>1
    <2>2. CASE Insert(worker[w].free)
        BY <1>1, <2>2, InsertEffect, RowChanges
    <2>3. CASE \E s \in Scans : RefuseScan(w, s)
        BY <1>1, <2>3 DEF RefuseScan, Oldest, Pending, TypeOK, ScanRow
    <2> QED BY <2>1, <2>2, <2>3 DEF LookForDue, Enqueue, NothingToClaim, Restart
<1> QED BY <1>2, <1>3, <1>4, <1>5, Quiet

(* The end of an execution, and a death, let the scan go.                   *)
LEMMA LetGoWork ==
    ASSUME QueueInv, TypeOK', NEW w \in Workers, Report(w) \/ FailScan(w) \/ Crash(w)
    PROVE  QueueInv'
<1>1. TypeOK
    BY DEF QueueInv
<1>2. /\ worker'[w].scan = NoScan
      /\ \A v \in Workers : v # w => worker'[v] = worker[v]
    BY <1>1 DEF Report, FailScan, Crash, TypeOK, Idle, Down
<1>3. CASE Report(w)
    BY <1>2, <1>3, LetsGo DEF Report
<1>4. CASE Crash(w)
    BY <1>2, <1>4, LetsGo DEF Crash
<1>5. CASE FailScan(w)
    <2>1. CASE scan[worker[w].scan].state = "deleted"
        BY <1>2, <1>5, <2>1, LetsGo DEF FailScan
    <2>2. CASE scan[worker[w].scan].state # "deleted"
        <3>1. /\ scan' = [scan EXCEPT ![worker[w].scan].state = "failed"]
              /\ run' = [run EXCEPT ![worker[w].scan] = "FAILED"]
              /\ lost' = lost
            BY <1>5, <2>2 DEF FailScan
        <3>2. worker[w].scan \in Scans
            BY <1>1, <1>5, RowChanges DEF FailScan
        <3>3. /\ scan'[worker[w].scan].state = "failed"
              /\ run'[worker[w].scan] = "FAILED"
              /\ \A t \in Scans : t # worker[w].scan => scan'[t] = scan[t] /\ run'[t] = run[t]
            BY <1>1, <3>1, <3>2 DEF TypeOK, ScanRow
        <3> QED BY <1>2, <3>1, <3>3, LetsGo
    <2> QED BY <2>1, <2>2
<1> QED BY <1>3, <1>4, <1>5

(* Together: every step keeps the invariant.                                *)
LEMMA QueueStep ==
    ASSUME QueueInv, [Next]_vars
    PROVE  QueueInv'
<1>1. TypeOK'
    BY TypeStep DEF QueueInv
<1>2. CASE Operate \/ Request \/ \E a \in Accounts : TimePasses(a)
    BY <1>1, <1>2, OperateKeeps
<1>3. ASSUME NEW w \in Workers, Work(w) \/ Crash(w)
      PROVE  QueueInv'
    <2>1. CASE Report(w) \/ FailScan(w) \/ Crash(w)
        BY <1>1, <2>1, LetGoWork
    <2>2. CASE Persist(w)
        BY <1>1, <2>2, PersistKeeps
    <2>3. CASE \E s \in Scans : ClaimScan(w, s)
        BY <1>1, <2>3, ClaimKeeps
    <2>4. CASE \/ LookForDue(w) \/ Enqueue(w) \/ NothingToClaim(w) \/ Restart(w)
               \/ \E s \in Scans : RefuseScan(w, s)
        BY <1>1, <2>4, QuietWork
    <2> QED BY <1>3, <2>1, <2>2, <2>3, <2>4 DEF Work, Claim
<1>4. CASE UNCHANGED vars
    BY <1>1, <1>4, Quiet DEF vars
<1> QED BY <1>2, <1>3, <1>4 DEF Next

(* Every reachable state satisfies the invariant that the two theorems      *)
(* below read off.                                                          *)
LEMMA QueueInductive == Spec => []QueueInv
<1>1. Init => QueueInv
    <2> SUFFICES ASSUME Init PROVE QueueInv
        OBVIOUS
    <2>1. TypeOK
        <3>1. \A s \in Scans : [state |-> "none", account |-> NoAccount] \in ScanRow
            BY DEF ScanRow, ScanStates
        <3>2. account \in [Accounts -> AccountRow]
            BY DEF Init
        <3> QED BY <3>1, <3>2, IdleIsRow, BoundAssumption DEF Init, TypeOK, RunStates
    <2>2. HeldState /\ HeldApart /\ LostRuns /\ RunAgrees /\ RunHeld
        BY DEF Init, HeldState, HeldAs, HeldApart, LostRuns, RunAgrees, RunHeld, Idle
    <2> QED BY <2>1, <2>2 DEF QueueInv
<1>2. QueueInv /\ [Next]_vars => QueueInv'
    BY QueueStep
<1> QED BY <1>1, <1>2, PTL DEF Spec

(* No scan is executed by two workers, claimed again while it is executed,  *)
(* or left in a state its worker does not know of (claim_scan,              *)
(* process_once).                                                           *)
THEOREM ScansHeldOnce == Spec => []HeldOnce
<1>1. QueueInv => HeldOnce
    <2> SUFFICES ASSUME QueueInv, NEW w \in Workers, worker[w].step = "collect"
                 PROVE  /\ scan[worker[w].scan].state \in {"running", "deleted"}
                        /\ worker[w].scan \notin lost
                        /\ \A v \in Workers \ {w} : worker[v].scan # worker[w].scan
        BY DEF HeldOnce
    <2>1. worker[w].scan # NoScan
        BY HoldsAtStep DEF QueueInv
    <2> QED BY <2>1 DEF QueueInv, HeldState, HeldAs, HeldApart
<1> QED BY <1>1, QueueInductive, PTL

(* A scan and its run agree at every commit, and a RUNNING run is held by a *)
(* worker, or was left by a death or a deletion (execute_scan, fail_scan).  *)
THEOREM RunsFollowScans == Spec => []RunFollowsScan
<1>1. QueueInv => RunFollowsScan
    <2> SUFFICES ASSUME QueueInv, NEW s \in Scans
                 PROVE  scan[s].state = "running" <=>
                          run[s] = "RUNNING" /\ scan[s].state # "deleted"
        BY DEF QueueInv, RunAgrees, RunHeld, RunFollowsScan
    <2>1. scan[s].state \in ScanStates
        BY DEF QueueInv, TypeOK, ScanRow
    <2> QED BY <2>1 DEF QueueInv, RunAgrees, ScanStates
<1> QED BY <1>1, QueueInductive, PTL

-----------------------------------------------------------------------------
(* The sets whose sizes BoundedDuplicates adds up are finite.               *)
LEMMA BoundSets ==
    ASSUME NEW A \in SUBSET Scans, NEW E \in SUBSET (Workers \cup Requests)
    PROVE  /\ IsFiniteSet(A) /\ Cardinality(A) \in Nat
           /\ IsFiniteSet(E) /\ Cardinality(E) \in Nat
           /\ Cardinality(E) <= Cardinality(Workers) + Cardinality(Requests)
           /\ Cardinality(Workers) + Cardinality(Requests) \in Nat
<1>1. IsFiniteSet(Scans)
    <2>1. MaxScans \in Int /\ 1 \in Int
        BY BoundAssumption
    <2> QED BY <2>1, FS_Interval DEF Scans
<1>2. IsFiniteSet(A)
    BY <1>1, FS_Subset
<1>3. Cardinality(Workers) \in Nat /\ Cardinality(Requests) \in Nat
    BY ActorAssumption, FS_CardinalityType
<1>4. Cardinality(Workers \cap Requests) = 0
    BY ActorAssumption, FS_EmptySet
<1>5. /\ IsFiniteSet(Workers \cup Requests)
      /\ Cardinality(Workers \cup Requests) = Cardinality(Workers) + Cardinality(Requests)
    <2>1. /\ IsFiniteSet(Workers \cup Requests)
          /\ Cardinality(Workers \cup Requests) =
               Cardinality(Workers) + Cardinality(Requests) - Cardinality(Workers \cap Requests)
        BY ActorAssumption, FS_Union
    <2> QED BY <2>1, <1>3, <1>4
<1>6. IsFiniteSet(E) /\ Cardinality(E) <= Cardinality(Workers \cup Requests)
    BY <1>5, FS_Subset
<1>7. Cardinality(A) \in Nat /\ Cardinality(E) \in Nat
    BY <1>2, <1>6, FS_CardinalityType
<1> QED BY <1>2, <1>3, <1>5, <1>6, <1>7

LEMMA ActorSets ==
    ASSUME NEW a \in Accounts
    PROVE  /\ Active(a) \in SUBSET Scans /\ Active(a)' \in SUBSET Scans
           /\ Enqueuers(a) \in SUBSET (Workers \cup Requests)
           /\ Enqueuers(a)' \in SUBSET (Workers \cup Requests)
    BY DEF Active, Enqueuers

(* An account's scans may grow only by the insert of one that was between   *)
(* its check and its insert, and those between the two only while the       *)
(* account has no active scan (queue_manual_collection, enqueue_due_scans). *)
Traded(a) ==
    \/ Active(a)' \subseteq Active(a) /\ Enqueuers(a)' \subseteq Enqueuers(a)
    \/ Active(a)' = {}
    \/ \E e \in Enqueuers(a), s \in Scans :
         /\ Active(a)' \subseteq Active(a) \cup {s}
         /\ Enqueuers(a)' \subseteq Enqueuers(a) \ {e}

(* Each of these keeps the bound.                                           *)
LEMMA TradedBound ==
    ASSUME NEW a \in Accounts, Traded(a),
           Cardinality(Active(a)) + Cardinality(Enqueuers(a)) <=
               Cardinality(Workers) + Cardinality(Requests)
    PROVE  Cardinality(Active(a)') + Cardinality(Enqueuers(a)') <=
               Cardinality(Workers) + Cardinality(Requests)
<1>0. /\ IsFiniteSet(Active(a)) /\ Cardinality(Active(a)) \in Nat
      /\ IsFiniteSet(Enqueuers(a)) /\ Cardinality(Enqueuers(a)) \in Nat
      /\ Cardinality(Workers) + Cardinality(Requests) \in Nat
    BY ActorSets, BoundSets
<1>1. /\ IsFiniteSet(Active(a)') /\ Cardinality(Active(a)') \in Nat
      /\ IsFiniteSet(Enqueuers(a)') /\ Cardinality(Enqueuers(a)') \in Nat
      /\ Cardinality(Enqueuers(a)') <= Cardinality(Workers) + Cardinality(Requests)
    BY ActorSets, BoundSets
<1>2. CASE Active(a)' \subseteq Active(a) /\ Enqueuers(a)' \subseteq Enqueuers(a)
    <2>1. /\ Cardinality(Active(a)') <= Cardinality(Active(a))
          /\ Cardinality(Enqueuers(a)') <= Cardinality(Enqueuers(a))
        BY <1>0, <1>2, FS_Subset
    <2> QED BY <1>0, <1>1, <2>1
<1>3. CASE Active(a)' = {}
    <2>1. Cardinality(Active(a)') = 0
        BY <1>3, FS_EmptySet
    <2> QED BY <1>1, <1>0, <2>1
<1>4. ASSUME NEW e \in Enqueuers(a), NEW s \in Scans,
             Active(a)' \subseteq Active(a) \cup {s},
             Enqueuers(a)' \subseteq Enqueuers(a) \ {e}
      PROVE  Cardinality(Active(a)') + Cardinality(Enqueuers(a)') <=
                 Cardinality(Workers) + Cardinality(Requests)
    <2>1. /\ IsFiniteSet(Active(a) \cup {s})
          /\ Cardinality(Active(a) \cup {s}) <= Cardinality(Active(a)) + 1
          /\ Cardinality(Active(a) \cup {s}) \in Nat
        <3>1. /\ IsFiniteSet(Active(a) \cup {s})
              /\ Cardinality(Active(a) \cup {s}) =
                   IF s \in Active(a) THEN Cardinality(Active(a)) ELSE Cardinality(Active(a)) + 1
            BY <1>0, FS_AddElement
        <3>2. Cardinality(Active(a) \cup {s}) \in Nat
            BY <1>0, <3>1
        <3> QED BY <1>0, <3>1, <3>2
    <2>2. /\ IsFiniteSet(Enqueuers(a) \ {e})
          /\ Cardinality(Enqueuers(a) \ {e}) = Cardinality(Enqueuers(a)) - 1
        BY <1>0, FS_RemoveElement
    <2>3. /\ Cardinality(Active(a)') <= Cardinality(Active(a) \cup {s})
          /\ Cardinality(Enqueuers(a)') <= Cardinality(Enqueuers(a) \ {e})
        BY <1>4, <2>1, <2>2, FS_Subset
    <2> QED BY <1>1, <2>1, <2>2, <2>3, <1>0
<1> QED BY <1>2, <1>3, <1>4 DEF Traded

(* A step that inserts nothing and enters nobody between check and insert.  *)
LEMMA NoTrade ==
    ASSUME NEW a \in Accounts,
           \A s \in Scans : \/ scan'[s] = scan[s]
                            \/ scan'[s].state \notin {"pending", "running"}
                            \/ /\ scan'[s].account = scan[s].account
                               /\ scan[s].state \in {"pending", "running"},
           \A w \in Workers : worker'[w].free \subseteq worker[w].free,
           \A q \in Requests : request'[q] \in {request[q], NoAccount}
    PROVE  Traded(a)
<1>1. Active(a)' \subseteq Active(a)
    BY DEF Active
<1>2. Enqueuers(a)' \subseteq Enqueuers(a)
    BY ActorAssumption DEF Enqueuers, NoAccount
<1> QED BY <1>1, <1>2 DEF Traded

(* What every action does to the scans and the enqueuers of one account.    *)
LEMMA StepTrades ==
    ASSUME TypeOK, NEW a \in Accounts, [Next]_vars
    PROVE  Traded(a)
<1>1. CASE \E q \in Requests : InsertRequest(q)
    <2>1. PICK q \in Requests : InsertRequest(q)
        BY <1>1
    <2>2. /\ worker' = worker /\ request[q] \in Accounts /\ request'[q] = NoAccount
          /\ \A p \in Requests : p # q => request'[p] = request[p]
        BY <2>1 DEF InsertRequest, TypeOK
    <2>3. CASE ~account[request[q]].present
        BY <2>1, <2>2, <2>3, NoTrade DEF InsertRequest
    <2>4. CASE account[request[q]].present
        <3>1. Insert({request[q]}) /\ {request[q]} \in SUBSET Accounts
            BY <2>1, <2>2, <2>4 DEF InsertRequest
        <3>2. PICK place \in [{request[q]} -> Unused] : \A s \in Scans :
                \/ scan'[s] = scan[s]
                \/ /\ scan[s].state = "none"
                   /\ scan'[s].state = "pending"
                   /\ scan'[s].account \in {request[q]}
                   /\ place[scan'[s].account] = s
            BY <3>1, InsertEffect
        <3>3. CASE request[q] = a
            <4>1. place[a] \in Scans
                BY <3>3 DEF Unused
            <4>2. Active(a)' \subseteq Active(a) \cup {place[a]}
                BY <3>2, <3>3 DEF Active
            <4>3. q \in Enqueuers(a) /\ Enqueuers(a)' \subseteq Enqueuers(a) \ {q}
                BY <2>2, <3>3, ActorAssumption DEF Enqueuers, NoAccount
            <4> QED BY <4>1, <4>2, <4>3 DEF Traded
        <3>4. CASE request[q] # a
            <4>1. Active(a)' \subseteq Active(a)
                BY <3>2, <3>4 DEF Active
            <4>2. Enqueuers(a)' \subseteq Enqueuers(a)
                BY <2>2, ActorAssumption DEF Enqueuers, NoAccount
            <4> QED BY <4>1, <4>2 DEF Traded
        <3> QED BY <3>3, <3>4
    <2> QED BY <2>3, <2>4
<1>2. ASSUME NEW q \in Requests, NEW b \in Accounts, CheckRequest(q, b)
      PROVE  Traded(a)
    <2>1. /\ scan' = scan /\ worker' = worker /\ request'[q] = b
          /\ \A p \in Requests : p # q => request'[p] = request[p]
        BY <1>2 DEF CheckRequest, TypeOK
    <2>2. CASE a = b
        BY <2>1, <2>2, <1>2 DEF CheckRequest, HasActive, Active, Traded
    <2>3. CASE a # b
        BY <2>1, <2>3 DEF Active, Enqueuers, Traded
    <2> QED BY <2>2, <2>3
<1>3. ASSUME NEW w \in Workers, LookForDue(w)
      PROVE  Traded(a)
    <2>1. /\ scan' = scan /\ request' = request
          /\ worker'[w].free = {b \in Due : ~HasActive(b)}
          /\ \A v \in Workers : v # w => worker'[v] = worker[v]
        BY <1>3 DEF LookForDue, TypeOK
    <2>2. CASE HasActive(a)
        BY <2>1, <2>2 DEF Active, Enqueuers, Traded
    <2>3. CASE ~HasActive(a)
        BY <2>1, <2>3 DEF HasActive, Active, Traded
    <2> QED BY <2>2, <2>3
<1>4. ASSUME NEW w \in Workers, Enqueue(w)
      PROVE  Traded(a)
    <2>1. /\ request' = request /\ worker'[w].free = {}
          /\ \A v \in Workers : v # w => worker'[v] = worker[v]
        BY <1>4 DEF Enqueue, TypeOK, Down
    <2>2. CASE scan' = scan
        BY <2>1, <2>2 DEF Active, Enqueuers, Traded
    <2>3. CASE Insert(worker[w].free)
        <3>1. PICK place \in [worker[w].free -> Unused] : \A s \in Scans :
                \/ scan'[s] = scan[s]
                \/ /\ scan[s].state = "none"
                   /\ scan'[s].state = "pending"
                   /\ scan'[s].account \in worker[w].free
                   /\ place[scan'[s].account] = s
            BY <2>3, RowChanges, InsertEffect
        <3>2. CASE a \in worker[w].free
            <4>1. place[a] \in Scans
                BY <3>2 DEF Unused
            <4>2. Active(a)' \subseteq Active(a) \cup {place[a]}
                BY <3>1 DEF Active
            <4>3. w \in Enqueuers(a) /\ Enqueuers(a)' \subseteq Enqueuers(a) \ {w}
                BY <2>1, <3>2, ActorAssumption DEF Enqueuers
            <4> QED BY <4>1, <4>2, <4>3 DEF Traded
        <3>3. CASE a \notin worker[w].free
            <4>1. Active(a)' \subseteq Active(a)
                BY <3>1, <3>3 DEF Active
            <4>2. Enqueuers(a)' \subseteq Enqueuers(a)
                BY <2>1 DEF Enqueuers
            <4> QED BY <4>1, <4>2 DEF Traded
        <3> QED BY <3>2, <3>3
    <2> QED BY <1>4, <2>2, <2>3 DEF Enqueue
<1>5. CASE Operate \/ (\E b \in Accounts : TimePasses(b)) \/ UNCHANGED vars
    <2>1. worker' = worker /\ request' = request
        BY <1>5 DEF Operate, Enable, Disable, Delete, ScheduleOn, ScheduleOff,
                    ChangeInterval, TimePasses, SetAccount, vars
    <2>2. ASSUME NEW s \in Scans
          PROVE  scan'[s] = scan[s] \/ scan'[s].state = "deleted"
        <3>1. [scan[s] EXCEPT !.state = "deleted"].state = "deleted"
            BY DEF TypeOK, ScanRow
        <3> QED BY <1>5, <3>1 DEF Operate, Enable, Disable, Delete, ScheduleOn, ScheduleOff,
                                  ChangeInterval, TimePasses, SetAccount, vars
    <2> QED BY <2>1, <2>2, NoTrade
<1>6. ASSUME NEW w \in Workers,
             \/ Claim(w) \/ Persist(w) \/ Report(w) \/ FailScan(w) \/ Restart(w) \/ Crash(w)
      PROVE  Traded(a)
    <2>1. request' = request
        BY <1>6 DEF Claim, NothingToClaim, ClaimScan, RefuseScan, Persist, Report,
                    FailScan, Restart, Crash
    <2>2. ASSUME NEW v \in Workers PROVE worker'[v].free \subseteq worker[v].free
        <3>1. CASE Persist(w)
            BY <3>1, RowChanges DEF Persist, TypeOK
        <3>2. CASE ~Persist(w)
            <4>1. PICK row \in WorkerRow : row.free = {} /\ worker' = [worker EXCEPT ![w] = row]
                <5>1. Idle.free = {} /\ Down.free = {}
                    BY DEF Idle, Down
                <5>2. CASE \E s \in Scans : ClaimScan(w, s)
                    <6>1. PICK s \in Scans : ClaimScan(w, s)
                        BY <5>2
                    <6>2. [step |-> "collect", due |-> {}, free |-> {}, scan |-> s] \in WorkerRow
                        BY DEF WorkerRow
                    <6> QED BY <6>1, <6>2 DEF ClaimScan
                <5> QED BY <1>6, <3>2, <5>1, <5>2, IdleIsRow
                        DEF Claim, NothingToClaim, RefuseScan, Report, FailScan, Restart, Crash
            <4> QED BY <4>1 DEF TypeOK
        <3> QED BY <3>1, <3>2
    <2>3. ASSUME NEW s \in Scans
          PROVE  \/ scan'[s] = scan[s]
                 \/ scan'[s].state \notin {"pending", "running"}
                 \/ /\ scan'[s].account = scan[s].account
                    /\ scan[s].state \in {"pending", "running"}
        <3>1. CASE scan' = scan
            BY <3>1
        <3>2. CASE \E t \in Scans : ClaimScan(w, t)
            BY <3>2 DEF ClaimScan, Oldest, Pending, TypeOK, ScanRow
        <3>3. CASE \E t \in Scans : RefuseScan(w, t)
            BY <3>3 DEF RefuseScan, TypeOK, ScanRow
        <3>4. CASE Persist(w)
            BY <3>4 DEF Persist, TypeOK, ScanRow
        <3>5. CASE FailScan(w)
            BY <3>5 DEF FailScan, TypeOK, ScanRow
        <3> QED BY <1>6, <3>1, <3>2, <3>3, <3>4, <3>5 DEF Claim, NothingToClaim, Report,
                    Restart, Crash
    <2> QED BY <2>1, <2>2, <2>3, NoTrade
<1> QED BY <1>1, <1>2, <1>3, <1>4, <1>5, <1>6 DEF Next, Request, Work

(* The check-then-insert race of queue_manual_collection and                *)
(* enqueue_due_scans leaves an account with at most as many active scans as *)
(* there are workers and requests, whatever their number.                   *)
THEOREM DuplicatesBounded == Spec => []BoundedDuplicates
<1>1. Init => BoundedDuplicates
    <2> SUFFICES ASSUME Init, NEW a \in Accounts
                 PROVE  Cardinality(Active(a)) + Cardinality(Enqueuers(a)) <=
                            Cardinality(Workers) + Cardinality(Requests)
        BY DEF BoundedDuplicates
    <2>1. Active(a) = {}
        BY DEF Init, Active
    <2>2. Cardinality(Active(a)) = 0
        BY <2>1, FS_EmptySet
    <2> QED BY <2>2, ActorSets, BoundSets
<1>2. TypeOK /\ BoundedDuplicates /\ [Next]_vars => BoundedDuplicates'
    BY StepTrades, TradedBound DEF BoundedDuplicates
<1> QED BY <1>1, <1>2, QueueTypeCorrect, PTL DEF Spec

-----------------------------------------------------------------------------
(* The life of scans (ScanContract).                                        *)

(* A scan that was not asked for is of no account, and goes with none.      *)
Unasked == \A s \in Scans : scan[s].state = "none" => scan[s].account = NoAccount

(* Scan s goes from one state to another.                                   *)
Passes(s, from, to) ==
    /\ scan[s].state = from /\ scan'[s].state = to
    /\ scan'[s].account = scan[s].account

(* What a step may do to scan s and its run.                                *)
Lives(s) ==
    \/ scan'[s] = scan[s] /\ run'[s] = run[s]
    \/ scan[s].state = "none" /\ scan'[s].state = "pending" /\ run'[s] = run[s]
    \/ Oldest(s) /\ Passes(s, "pending", "running") /\ run'[s] = "RUNNING"
    \/ Oldest(s) /\ Passes(s, "pending", "failed") /\ run'[s] = run[s]
    \/ Passes(s, "running", "completed") /\ run'[s] = "SUCCESS"
    \/ Passes(s, "running", "failed") /\ run'[s] = "FAILED"
    \/ Passes(s, "completed", "failed") /\ run'[s] = "FAILED"
    \/ /\ scan[s].state # "none" /\ scan'[s].state = "deleted"
       /\ scan'[s].account = scan[s].account /\ run'[s] = run[s]

(* One scan takes a new state; the others rest (claim_scan, execute_scan,   *)
(* fail_scan).                                                              *)
LEMMA OnePasses ==
    ASSUME TypeOK, NEW x \in Scans, NEW st \in ScanStates, NEW rs \in RunStates,
           scan' = [scan EXCEPT ![x].state = st],
           run' = run \/ run' = [run EXCEPT ![x] = rs]
    PROVE  /\ Passes(x, scan[x].state, st)
           /\ run' = [run EXCEPT ![x] = rs] => run'[x] = rs
           /\ \A s \in Scans : s # x => scan'[s] = scan[s] /\ run'[s] = run[s]
<1>1. /\ scan'[x] = [state |-> st, account |-> scan[x].account]
      /\ \A t \in Scans : t # x => scan'[t] = scan[t]
    BY ScanType
<1>2. run \in [Scans -> RunStates]
    BY DEF TypeOK
<1> QED BY <1>1, <1>2 DEF Passes

(* Each scan, in each step.                                                 *)
LEMMA ScansLive ==
    ASSUME QueueInv, Unasked, [Next]_vars
    PROVE  \A s \in Scans : Lives(s)
<1>1. TypeOK /\ HeldState
    BY DEF QueueInv
<1>2. ASSUME scan' = scan, run' = run
      PROVE  \A s \in Scans : Lives(s)
    BY <1>2 DEF Lives
<1>3. ASSUME NEW A \in SUBSET Accounts, Insert(A), run' = run
      PROVE  \A s \in Scans : Lives(s)
    BY <1>1, <1>3, InsertEffect DEF Lives
<1>4. CASE Operate
    <2>1. ASSUME NEW a \in Accounts, Delete(a)
          PROVE  \A s \in Scans : Lives(s)
        <3> SUFFICES ASSUME NEW s \in Scans PROVE Lives(s)
            OBVIOUS
        <3>1. scan[s] \in ScanRow /\ run' = run
            BY <1>1, <2>1 DEF TypeOK, Delete
        <3>2. CASE scan[s].account = a
            <4>1. scan'[s] = [scan[s] EXCEPT !.state = "deleted"]
                BY <2>1, <3>2 DEF Delete
            <4>2. scan'[s].state = "deleted" /\ scan'[s].account = scan[s].account
                BY <3>1, <4>1 DEF ScanRow
            <4>3. scan[s].state # "none"
                BY <2>1, <3>2, ActorAssumption DEF Unasked, NoAccount
            <4> QED BY <3>1, <4>2, <4>3 DEF Lives
        <3>3. CASE scan[s].account # a
            BY <2>1, <3>1, <3>3 DEF Delete, Lives
        <3> QED BY <3>2, <3>3
    <2>2. CASE ~ \E a \in Accounts : Delete(a)
        <3>1. scan' = scan /\ run' = run
            BY <1>4, <2>2 DEF Operate, Enable, Disable, ScheduleOn, ScheduleOff,
                              ChangeInterval, SetAccount
        <3> QED BY <1>2, <3>1
    <2> QED BY <2>1, <2>2
<1>5. CASE Request
    <2>1. ASSUME NEW q \in Requests, InsertRequest(q)
          PROVE  \A s \in Scans : Lives(s)
        <3>1. CASE account[request[q]].present
            <4>1. {request[q]} \in SUBSET Accounts /\ Insert({request[q]}) /\ run' = run
                BY <1>1, <2>1, <3>1 DEF InsertRequest, TypeOK
            <4> QED BY <1>3, <4>1
        <3>2. CASE ~account[request[q]].present
            BY <1>2, <2>1, <3>2 DEF InsertRequest
        <3> QED BY <3>1, <3>2
    <2>2. ASSUME NEW q \in Requests, NEW a \in Accounts, CheckRequest(q, a)
          PROVE  \A s \in Scans : Lives(s)
        BY <1>2, <2>2 DEF CheckRequest
    <2> QED BY <1>5, <2>1, <2>2 DEF Request
<1>6. ASSUME NEW w \in Workers, Work(w) \/ Crash(w)
      PROVE  \A s \in Scans : Lives(s)
    <2>1. CASE LookForDue(w) \/ NothingToClaim(w) \/ Report(w) \/ Restart(w) \/ Crash(w)
        BY <1>2, <2>1 DEF LookForDue, NothingToClaim, Report, Restart, Crash
    <2>2. CASE Enqueue(w)
        <3>1. worker[w].free \in SUBSET Accounts
            BY <1>1, RowChanges
        <3> QED BY <1>2, <1>3, <2>2, <3>1 DEF Enqueue
    <2>3. ASSUME NEW x \in Scans, ClaimScan(w, x)
          PROVE  \A s \in Scans : Lives(s)
        <3>1. /\ Oldest(x) /\ scan[x].state = "pending"
              /\ scan' = [scan EXCEPT ![x].state = "running"]
              /\ run' = [run EXCEPT ![x] = "RUNNING"]
            BY <2>3 DEF ClaimScan, Oldest, Pending
        <3>2. "running" \in ScanStates /\ "RUNNING" \in RunStates
            BY DEF ScanStates, RunStates
        <3>3. /\ Passes(x, "pending", "running") /\ run'[x] = "RUNNING"
              /\ \A s \in Scans : s # x => scan'[s] = scan[s] /\ run'[s] = run[s]
            BY <1>1, <3>1, <3>2, OnePasses DEF Passes
        <3> QED BY <3>1, <3>3 DEF Lives
    <2>4. ASSUME NEW x \in Scans, RefuseScan(w, x)
          PROVE  \A s \in Scans : Lives(s)
        <3>1. /\ Oldest(x) /\ scan[x].state = "pending"
              /\ scan' = [scan EXCEPT ![x].state = "failed"] /\ run' = run
            BY <2>4 DEF RefuseScan, Oldest, Pending
        <3>2. "failed" \in ScanStates /\ "FAILED" \in RunStates
            BY DEF ScanStates, RunStates
        <3>3. /\ Passes(x, "pending", "failed")
              /\ \A s \in Scans : s # x => scan'[s] = scan[s] /\ run'[s] = run[s]
            BY <1>1, <3>1, <3>2, OnePasses DEF Passes
        <3> QED BY <3>1, <3>3 DEF Lives
    <2>5. CASE Persist(w)
        <3> DEFINE x == worker[w].scan
        <3>1. x \in Scans /\ scan[x].state = "running"
            BY <1>1, <2>5, RowChanges DEF Persist, HeldState, HeldAs
        <3>2. scan' = [scan EXCEPT ![x].state = "completed"] /\ run' = [run EXCEPT ![x] = "SUCCESS"]
            BY <2>5 DEF Persist
        <3>3. "completed" \in ScanStates /\ "SUCCESS" \in RunStates
            BY DEF ScanStates, RunStates
        <3> HIDE DEF x
        <3>4. /\ Passes(x, "running", "completed") /\ run'[x] = "SUCCESS"
              /\ \A s \in Scans : s # x => scan'[s] = scan[s] /\ run'[s] = run[s]
            BY <1>1, <3>1, <3>2, <3>3, OnePasses DEF Passes
        <3> QED BY <3>4 DEF Lives
    <2>6. CASE FailScan(w)
        <3> DEFINE x == worker[w].scan
        <3>1. CASE scan[x].state = "deleted"
            BY <1>2, <2>6, <3>1 DEF FailScan
        <3>2. CASE scan[x].state # "deleted"
            <4>1. x \in Scans /\ scan[x].state \in {"running", "completed"}
                BY <1>1, <2>6, <3>2, RowChanges DEF FailScan, HeldState, HeldAs
            <4>2. scan' = [scan EXCEPT ![x].state = "failed"] /\ run' = [run EXCEPT ![x] = "FAILED"]
                BY <2>6, <3>2 DEF FailScan
            <4>3. "failed" \in ScanStates /\ "FAILED" \in RunStates
                BY DEF ScanStates, RunStates
            <4> HIDE DEF x
            <4>4. /\ Passes(x, scan[x].state, "failed") /\ run'[x] = "FAILED"
                  /\ \A s \in Scans : s # x => scan'[s] = scan[s] /\ run'[s] = run[s]
                BY <1>1, <4>1, <4>2, <4>3, OnePasses
            <4> QED BY <4>1, <4>4 DEF Lives
        <3> QED BY <3>1, <3>2
    <2> QED BY <1>6, <2>1, <2>2, <2>3, <2>4, <2>5, <2>6 DEF Work, Claim
<1>7. ASSUME NEW a \in Accounts, TimePasses(a)
      PROVE  \A s \in Scans : Lives(s)
    BY <1>2, <1>7 DEF TimePasses, SetAccount
<1>8. CASE UNCHANGED vars
    BY <1>2, <1>8 DEF vars
<1> QED BY <1>4, <1>5, <1>6, <1>7, <1>8 DEF Next

(* A scan is taken up at most once and in turn, and its run begins and ends *)
(* with it, whichever workers take it, die or come back, and whatever is    *)
(* deleted meanwhile (queue_manual_collection, claim_scan, execute_scan,    *)
(* fail_scan).                                                              *)
THEOREM ScanLifeImplemented == Spec => ImplementsScanLife
<1>1. Init => ScanLife!Init /\ Unasked
    BY DEF Init, ScanLife!Init, Unasked
<1>2. ASSUME QueueInv, Unasked, [Next]_vars
      PROVE  Unasked'
    <2>1. \A s \in Scans : Lives(s)
        BY <1>2, ScansLive
    <2>2. ASSUME NEW s \in Scans, scan'[s].state = "none"
          PROVE  scan'[s].account = NoAccount
        BY <1>2, <2>1, <2>2 DEF Lives, Passes, Unasked
    <2> QED BY <2>2 DEF Unasked
<1>3. ASSUME QueueInv, Unasked, [Next]_vars
      PROVE  ScanLife!Next
    <2> SUFFICES ASSUME NEW s \in Scans
                 PROVE  \/ ScanLife!Ask(s) \/ ScanLife!Start(s) \/ ScanLife!Refuse(s)
                        \/ ScanLife!Succeed(s) \/ ScanLife!Fail(s)
                        \/ ScanLife!Delete(s) \/ ScanLife!Rests(s)
        BY DEF ScanLife!Next
    <2>1. Lives(s)
        BY <1>3, ScansLive
    <2>2. /\ scan[s].state \in {"none", "pending"} => run[s] = "none"
          /\ scan[s].state = "running" => run[s] = "RUNNING"
          /\ scan[s].state = "completed" => run[s] = "SUCCESS"
        BY <1>3 DEF QueueInv, RunAgrees
    <2>3. Oldest(s) => ScanLife!FirstWaiting(s)
        BY DEF Oldest, Pending, ScanLife!FirstWaiting
    <2> QED
        BY <2>1, <2>2, <2>3
           DEF Lives, Passes, ScanLife!Ask, ScanLife!Start, ScanLife!Refuse, ScanLife!Succeed,
               ScanLife!Fail, ScanLife!Delete, ScanLife!Rests, ScanLife!Goes
<1> QED
    BY <1>1, <1>2, <1>3, QueueInductive, PTL DEF Spec, ImplementsScanLife, ScanLife!Spec

=============================================================================
