------------------------------ MODULE HistoryCycles ------------------------------
(***************************************************************************)
(* The periods of opportunity history (opportunity_history.py,             *)
(* opportunity_policy.py): cycles are created when somebody asks for the   *)
(* current one, closed by hand or by the schedule with a snapshot of what  *)
(* was observed in them, and followed by a next cycle; an administrator    *)
(* changes the policy that says where cycles begin. A cycle is inserted    *)
(* after checks that lock nothing; closing locks the cycle's own row and   *)
(* is atomic at its commit.                                                *)
(***************************************************************************)
EXTENDS Integers, FiniteSets

CONSTANTS
    Findings,
    Runs,           \* CollectionRuns
    Clients,        \* requests for the current cycle
    Grids,          \* the modes of policy that are used
    MaxTime,        \* bound on the clock, for model checking
    MaxVersion,     \* bound on the versions of the policy, for model checking
    MaxAhead        \* bound on how far ahead of the clock a cycle begins that
                    \* is closed by hand, for model checking

(* A grid is a cycle_mode with its length and anchor; the months of a       *)
(* CALENDAR_MONTH are of one length.                                        *)
ASSUME CyclesAssumption ==
    /\ MaxTime \in Nat /\ MaxVersion \in Nat \ {0} /\ MaxAhead \in Nat
    /\ Grids \subseteq [mode : {"CALENDAR_MONTH", "FIXED_DAYS"},
                        length : Nat \ {0}, anchor : Int]

VARIABLES
    now,
    policy,     \* the OpportunityManagementPolicy row
    cycles,     \* the OpportunityHistoryCycle rows, with their snapshots
    run,        \* run[r]: a CollectionRun, and when its claim was committed
    obs,        \* the OpportunityObservation rows
    draft       \* draft[c]: the cycle a request is about to insert

vars == <<now, policy, cycles, run, obs, draft>>

Time == 0..MaxTime
None == [start |-> 0, end |-> 0, version |-> 0]

Policy == [version : 1..MaxVersion, grid : Grids, automatic : BOOLEAN]
RunRow == [state : {"none", "RUNNING", "ended"}, startedAt : Time, since : Time]
Observation == [finding : Findings, run : Runs, at : Time]
Snapshot == [finding : Findings, at : Time, runs : SUBSET Runs]
Cycle == [start : Int, end : Int, version : 1..MaxVersion,
          reason : {"OPEN", "MANUAL", "SCHEDULED"},      \* of its closing
          closedAt : Time, snapshots : SUBSET Snapshot]
Draft == [start : Int, end : Int, version : 0..MaxVersion]

Init ==
    /\ now = 0
    /\ policy \in [version : {1}, grid : Grids, automatic : BOOLEAN]
    /\ cycles = {}
    /\ run = [r \in Runs |-> [state |-> "none", startedAt |-> 0, since |-> 0]]
    /\ obs = {}
    /\ draft = [c \in Clients |-> None]

Tick ==
    /\ now < MaxTime
    /\ now' = now + 1
    /\ UNCHANGED <<policy, cycles, run, obs, draft>>

-----------------------------------------------------------------------------
(* Collections, as far as history sees them. *)

(* claim_scan reads the clock, and commits later.                           *)
Claim(r, at) ==
    /\ run[r].state = "none"
    /\ at <= now
    /\ run' = [run EXCEPT ![r] = [state |-> "RUNNING", startedAt |-> at, since |-> now]]
    /\ UNCHANGED <<now, policy, cycles, obs, draft>>

(* persist_findings reads the clock, waits for the rows of the findings and *)
(* commits with the end of the run.                                         *)
Persist(r, at, F) ==
    /\ run[r].state = "RUNNING"
    /\ run[r].since <= at /\ at <= now
    /\ run' = [run EXCEPT ![r].state = "ended"]
    /\ obs' = obs \cup [finding : F, run : {r}, at : {at}]
    /\ UNCHANGED <<now, policy, cycles, draft>>

Fail(r) ==
    /\ run[r].state = "RUNNING"
    /\ run' = [run EXCEPT ![r].state = "ended"]
    /\ UNCHANGED <<now, policy, cycles, obs, draft>>

-----------------------------------------------------------------------------
(* Creating cycles. *)

Within(t, c) == c.start <= t /\ t < c.end

Overlap(c, d) == c.start < d.end /\ d.start < c.end

Open(start, end, version) ==
    [start |-> start, end |-> end, version |-> version, reason |-> "OPEN",
     closedAt |-> 0, snapshots |-> {}]

(* cycle_bounds: the cell of the grid the time is in.                       *)
Start(g, t) == t - ((t - g.anchor) % g.length)
End(g, t) == Start(g, t) + g.length

(* Nothing covers the present, and the policy's cycle for it may be made.   *)
Creatable(p) ==
    /\ \A c \in cycles : ~Within(now, c)
    /\ \A c \in cycles : ~Overlap(c, [start |-> Start(p.grid, now), end |-> End(p.grid, now)])

(* get_or_create_cycle_for decides what to insert; a cycle that overlaps    *)
(* another is refused (409).                                                *)
Prepare(c) ==
    /\ draft[c] = None
    /\ Creatable(policy)
    /\ draft' = [draft EXCEPT ![c] = [start |-> Start(policy.grid, now),
                                      end |-> End(policy.grid, now),
                                      version |-> policy.version]]
    /\ UNCHANGED <<now, policy, cycles, run, obs>>

(* Mutant: the period is not unique. *)
MutantInsert(c) ==
    /\ draft[c] # None
    /\ LET d == draft[c]
       IN  cycles' = cycles \cup {Open(d.start, d.end, d.version)}
    /\ draft' = [draft EXCEPT ![c] = None]
    /\ UNCHANGED <<now, policy, run, obs>>

(* It is inserted, unless there is one of the same period by now.           *)
Insert(c) ==
    /\ draft[c] # None
    /\ LET d == draft[c]
           same == {x \in cycles : x.start = d.start /\ x.end = d.end}
       IN  cycles' = IF same # {} THEN cycles
                     ELSE cycles \cup {Open(d.start, d.end, d.version)}
    /\ draft' = [draft EXCEPT ![c] = None]
    /\ UNCHANGED <<now, policy, run, obs>>

(* The PUT of a policy also makes the current cycle, and fails with it. An  *)
(* update that expected another version is refused before.                  *)
UpdatePolicy(grid, automatic) ==
    /\ policy.version < MaxVersion
    /\ policy' = [version |-> policy.version + 1, grid |-> grid, automatic |-> automatic]
    /\ IF \E c \in cycles : Within(now, c)
       THEN UNCHANGED cycles
       ELSE /\ Creatable(policy')
            /\ cycles' = cycles \cup {Open(Start(grid, now), End(grid, now),
                                           policy.version + 1)}
    /\ UNCHANGED <<now, run, obs, draft>>

-----------------------------------------------------------------------------
(* Closing cycles. *)

Running(c) == \E r \in Runs : run[r].state = "RUNNING" /\ Within(run[r].startedAt, c)

SeenIn(c) == {o \in obs : Within(o.at, c)}

(* One snapshot for each finding seen in the period: with its latest        *)
(* observation and the runs that saw it.                                    *)
SnapshotsOf(c) ==
    {[finding |-> o.finding, at |-> o.at,
      runs |-> {p.run : p \in {q \in SeenIn(c) : q.finding = o.finding}}] :
        o \in {o \in SeenIn(c) :
                 \A p \in SeenIn(c) : p.finding = o.finding => p.at <= o.at}}

Closed(c, reason) ==
    [c EXCEPT !.reason = reason, !.closedAt = now, !.snapshots = SnapshotsOf(c)]

(* Mutant: the runs of the period may still be running. *)
MutantMayClose(c) == c.reason = "OPEN"

(* Mutant: a run of any period keeps all from closing. *)
MutantQuietMayClose(c) == c.reason = "OPEN" /\ \A r \in Runs : run[r].state # "RUNNING"

(* close_cycle: the runs of the period have ended.                          *)
MayClose(c) == c.reason = "OPEN" /\ ~Running(c)

(* Mutant: any later cycle will do as the next. *)
MutantNextOf(c) ==
    IF \E d \in cycles : d.start >= c.end THEN {}
    ELSE {Open(c.end,
               IF policy.grid.mode = "CALENDAR_MONTH" THEN End(policy.grid, c.end)
               ELSE c.end + policy.grid.length,
               policy.version)}

(* ensure_next_cycle: what is to follow c, if nothing starts where it ends. *)
NextOf(c) ==
    IF \E d \in cycles : d.start = c.end THEN {}
    ELSE {Open(c.end,
               IF policy.grid.mode = "CALENDAR_MONTH" THEN End(policy.grid, c.end)
               ELSE c.end + policy.grid.length,
               policy.version)}

(* A new cycle that overlaps another is refused, and the transaction with   *)
(* it.                                                                      *)
Insertable(N) ==
    \A d \in N : \A c \in (cycles \cup N) \ {d} : ~Overlap(c, d)

(* POST /cycles/{id}/close: a cycle that is closed stays as it is, but is   *)
(* still followed.                                                          *)
CloseByHand(c) ==
    /\ c \in cycles /\ c.start <= now + MaxAhead
    /\ c.reason = "OPEN" => ~Running(c)
    /\ Insertable(NextOf(c))
    /\ LET closed == IF c.reason = "OPEN" THEN Closed(c, "MANUAL") ELSE c
       IN  cycles' = (cycles \ {c}) \cup {closed} \cup NextOf(c)
    /\ UNCHANGED <<now, policy, run, obs, draft>>

(* close_period_and_archive: nothing follows yet.                           *)
CloseAndArchive(c) ==
    /\ c \in cycles /\ c.start <= now + MaxAhead
    /\ MayClose(c)
    /\ cycles' = (cycles \ {c}) \cup {Closed(c, "MANUAL")}
    /\ UNCHANGED <<now, policy, run, obs, draft>>

Due == {c \in cycles : c.reason = "OPEN" /\ c.end <= now}

(* auto_close_due_cycles: all cycles due whose runs have ended, or none     *)
(* when one cannot be followed.                                             *)
AutoClose ==
    /\ policy.automatic
    /\ LET ready == {c \in Due : MayClose(c)}
           next == UNION {NextOf(c) : c \in ready}
       IN  /\ ready # {}
           /\ Insertable(next)
           /\ cycles' = (cycles \ ready) \cup {Closed(c, "SCHEDULED") : c \in ready}
                          \cup next
    /\ UNCHANGED <<now, policy, run, obs, draft>>

-----------------------------------------------------------------------------
Collect ==
    \E r \in Runs :
        \/ \E at \in Time : Claim(r, at)
        \/ \E at \in Time : \E F \in SUBSET Findings : Persist(r, at, F)
        \/ Fail(r)

Create ==
    \/ \E c \in Clients : Prepare(c) \/ Insert(c)
    \/ \E grid \in Grids, automatic \in BOOLEAN : UpdatePolicy(grid, automatic)

Close ==
    \/ \E c \in cycles : CloseByHand(c) \/ CloseAndArchive(c)
    \/ AutoClose

Next == Tick \/ Collect \/ Create \/ Close

Spec == Init /\ [][Next]_vars

(* The worker comes back to the schedule every quarter of an hour.          *)
FairSpec == Spec /\ WF_vars(AutoClose)

-----------------------------------------------------------------------------
(* Type invariant. *)
TypeOK ==
    /\ now \in Time
    /\ policy \in Policy
    /\ cycles \subseteq Cycle
    /\ run \in [Runs -> RunRow]
    /\ obs \subseteq Observation
    /\ draft \in [Clients -> Draft]

(* A cycle closed when its period was over holds what was observed in it by *)
(* the runs that belong to it: no finding is missing, no later observation  *)
(* comes to light, although runs commit what they saw long after they read  *)
(* the clock (close_cycle refuses while a run of the period is running).    *)
ClosedComplete ==
    \A c \in cycles : c.reason # "OPEN" /\ c.closedAt >= c.end =>
        \A o \in SeenIn(c) : Within(run[o.run].startedAt, c) =>
            \E s \in c.snapshots : /\ s.finding = o.finding
                                   /\ s.at >= o.at
                                   /\ o.run \in s.runs

(* Until the policy changes cycles do not overlap, whoever creates them and *)
(* in whatever order they are inserted (create_cycle checks without a lock; *)
(* the unique period decides).                                              *)
SteadyDisjoint ==
    policy.version = 1 => \A c, d \in cycles : c # d => ~Overlap(c, d)

(* A cycle that the schedule closed is followed by one that starts where it *)
(* ended, under whatever policy (ensure_next_cycle).                        *)
ScheduleContinues ==
    \A c \in cycles : c.reason = "SCHEDULED" => \E d \in cycles : d.start = c.end

Overdue == IF policy.automatic THEN {c \in Due : ~Running(c)} ELSE {}

(* With automatic closing on, no cycle stays open for ever once its period  *)
(* is over and its runs have ended: as long as the policy is the first one. *)
SteadyCloses == []<>(policy.version = 1 => Overdue = {})

(* The same under any policy (docs/opportunity-management-policy.md: a new  *)
(* policy holds from the next cycle on, cycles follow without gaps or       *)
(* overlaps).                                                               *)
OverdueCloses == []<>(Overdue = {})

(* The periods of CyclesContract: a cycle is open, or it is closed and all  *)
(* of it is its record.                                                     *)
Period(c) == <<c.start, c.end>>

History == INSTANCE CyclesContract WITH
    open <- {Period(c) : c \in {x \in cycles : x.reason = "OPEN"}},
    closed <- {[period |-> Period(c), record |-> c] : c \in {x \in cycles : x.reason # "OPEN"}}

ImplementsHistory == History!Spec

=============================================================================
