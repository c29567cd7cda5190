--------------------------- MODULE HistoryCycles_proofs ---------------------------
(***************************************************************************)
(* Proofs about HistoryCycles: what a closed cycle holds, how cycles lie   *)
(* beside one another, and that the schedule leaves no gap, for any number *)
(* of runs, requests and findings and any grid.                            *)
(***************************************************************************)
EXTENDS HistoryCycles, WellFoundedInduction, TLAPS

-----------------------------------------------------------------------------
(* Arithmetic of grids. *)

(* A multiple of the length that lies in one cell is none of it.            *)
LEMMA SmallMultiple ==
    ASSUME NEW len \in Nat \ {0}, NEW k \in Int, 0 <= k * len, k * len < len
    PROVE  k = 0
<1>1. CASE k >= 1
  <2>1. k * len = (k - 1) * len + len
    OBVIOUS
  <2>2. (k - 1) * len >= 0
    BY <1>1
  <2>3. QED
    BY <2>1, <2>2
<1>2. CASE k <= -1
  <2>1. (-k) * len > 0
    BY <1>2
  <2>2. (-k) * len = -(k * len)
    OBVIOUS
  <2>3. QED
    BY <2>1, <2>2
<1>3. QED
  BY <1>1, <1>2

(* What division leaves (_fixed_bounds rounds down).                        *)
LEMMA Division ==
    ASSUME NEW len \in Nat \ {0}, NEW a \in Int
    PROVE  /\ a \div len \in Int
           /\ a = (a \div len) * len + (a % len)
           /\ a % len \in 0..(len - 1)
<1>1. a \div len \in Int /\ a % len \in 0..(len - 1)
  OBVIOUS
<1>2. a = len * (a \div len) + (a % len)
  OBVIOUS
<1>3. QED
  BY <1>1, <1>2

LEMMA MultipleMod ==
    ASSUME NEW len \in Nat \ {0}, NEW k \in Int
    PROVE  (k * len) % len = 0
<1> DEFINE q == (k * len) \div len
           r == (k * len) % len
<1>1. k * len \in Int
  OBVIOUS
<1>2. q \in Int /\ r \in 0..(len - 1) /\ k * len = q * len + r
  BY <1>1, Division
<1> HIDE DEF q, r
<1>3. (k - q) * len = r
  BY <1>2
<1>4. k - q = 0
  BY <1>2, <1>3, SmallMultiple
<1>5. r = 0
  BY <1>2, <1>3, <1>4
<1>6. QED
  BY <1>5 DEF r


(* The cell k of a grid: where it starts and ends.                          *)
Cell(g, k, s, e) == s = g.anchor + k * g.length /\ e = s + g.length

OnGrid(g, s, e) == \E k \in Int : Cell(g, k, s, e)

(* Cells that overlap are one.                                              *)
LEMMA CellsApart ==
    ASSUME NEW g \in [mode : {"CALENDAR_MONTH", "FIXED_DAYS"},
                      length : Nat \ {0}, anchor : Int],
           NEW s \in Int, NEW e \in Int, NEW t \in Int, NEW f \in Int,
           OnGrid(g, s, e), OnGrid(g, t, f), s < f, t < e
    PROVE  s = t /\ e = f
<1> DEFINE len == g.length
           a == g.anchor
<1>1. len \in Nat \ {0} /\ a \in Int
  OBVIOUS
<1>2. PICK j \in Int : s = a + j * len /\ e = s + len
  BY DEF OnGrid, Cell
<1>3. PICK k \in Int : t = a + k * len /\ f = t + len
  BY DEF OnGrid, Cell
<1> HIDE DEF len, a
<1>4. (j - k) * len < len /\ (k - j) * len < len
  BY <1>1, <1>2, <1>3
<1>5. (j - k) * len >= 0 \/ (k - j) * len >= 0
  <2>1. (j - k) * len = -((k - j) * len)
    BY <1>1
  <2>2. (j - k) * len \in Int /\ (k - j) * len \in Int
    BY <1>1
  <2>3. QED
    BY <2>1, <2>2
<1>6. j = k
  <2>1. CASE (j - k) * len >= 0
    <3>1. j - k = 0
      BY <1>1, <1>4, <2>1, SmallMultiple
    <3>2. QED
      BY <3>1
  <2>2. CASE (k - j) * len >= 0
    <3>1. k - j = 0
      BY <1>1, <1>4, <2>2, SmallMultiple
    <3>2. QED
      BY <3>1
  <2>3. QED
    BY <1>5, <2>1, <2>2
<1>7. QED
  BY <1>2, <1>3, <1>6

(* cycle_bounds yields a cell of the grid with the time in it.              *)
LEMMA BoundsOnGrid ==
    ASSUME NEW g \in [mode : {"CALENDAR_MONTH", "FIXED_DAYS"},
                      length : Nat \ {0}, anchor : Int],
           NEW t \in Int
    PROVE  /\ Start(g, t) \in Int /\ End(g, t) \in Int
           /\ OnGrid(g, Start(g, t), End(g, t))
<1>1. g.length \in Nat \ {0} /\ t - g.anchor \in Int /\ g.anchor \in Int
  OBVIOUS
<1> DEFINE q == (t - g.anchor) \div g.length
           r == (t - g.anchor) % g.length
<1>2. q \in Int /\ r \in Int /\ t - g.anchor = q * g.length + r
  <2>1. /\ q \in Int
        /\ t - g.anchor = q * g.length + r
        /\ r \in 0..(g.length - 1)
    BY <1>1, Division
  <2>2. QED
    BY <2>1, <1>1
<1>3. Start(g, t) = t - r
  BY DEF Start
<1> HIDE DEF q, r
<1>4. q * g.length \in Int
  BY <1>1, <1>2
<1>5. t - r = g.anchor + q * g.length
  BY <1>1, <1>2, <1>4
<1>6. End(g, t) = Start(g, t) + g.length
  BY DEF End
<1>7. Cell(g, q, Start(g, t), End(g, t))
  BY <1>3, <1>5, <1>6 DEF Cell
<1>8. Start(g, t) \in Int /\ End(g, t) \in Int
  <2>1. t - r \in Int
    BY <1>2
  <2>2. QED
    BY <2>1, <1>1, <1>3, <1>6
<1>9. QED
  BY <1>2, <1>7, <1>8 DEF OnGrid

(* What follows a cell is the next one (ensure_next_cycle).                 *)
LEMMA NextOnGrid ==
    ASSUME NEW g \in [mode : {"CALENDAR_MONTH", "FIXED_DAYS"},
                      length : Nat \ {0}, anchor : Int],
           NEW s \in Int, NEW e \in Int, OnGrid(g, s, e)
    PROVE  OnGrid(g, e, e + g.length) /\ End(g, e) = e + g.length
<1>1. g.length \in Nat \ {0} /\ g.anchor \in Int
  OBVIOUS
<1>2. PICK k \in Int : s = g.anchor + k * g.length /\ e = s + g.length
  BY DEF OnGrid, Cell
<1>3. (k + 1) * g.length = k * g.length + g.length /\ k * g.length \in Int
  BY <1>1
<1>4. e = g.anchor + (k + 1) * g.length
  BY <1>1, <1>2, <1>3
<1>5. Cell(g, k + 1, e, e + g.length)
  BY <1>4 DEF Cell
<1>6. e - g.anchor = (k + 1) * g.length
  BY <1>1, <1>3, <1>4
<1>7. (e - g.anchor) % g.length = 0
  BY <1>1, <1>6, MultipleMod
<1>8. Start(g, e) = e
  BY <1>7 DEF Start
<1>9. QED
  BY <1>5, <1>8 DEF OnGrid, End

-----------------------------------------------------------------------------
(* A finding seen in a period has a latest observation in it.               *)
LEMMA LatestExists ==
    ASSUME NEW S \in SUBSET Observation, S # {}
    PROVE  \E o \in S : \A p \in S : p.at <= o.at
<1> DEFINE T == {MaxTime - o.at : o \in S}
<1>1. \A o \in S : o.at \in Time
  BY DEF Observation
<1>2. MaxTime \in Nat
  BY CyclesAssumption
<1>3. T \subseteq Nat /\ T # {}
  BY <1>1, <1>2 DEF Time
<1>4. PICK x \in T : \A y \in T : ~ (<<y, x>> \in OpToRel(<, Nat))
  BY <1>3, NatLessThanWellFounded, WFMin
<1>5. \A y \in T : ~ (y < x)
  BY <1>3, <1>4 DEF OpToRel
<1>6. PICK o \in S : x = MaxTime - o.at
  BY <1>4
<1>7. ASSUME NEW p \in S PROVE p.at <= o.at
  <2>1. ~ (MaxTime - p.at < MaxTime - o.at)
    BY <1>5, <1>6, <1>7
  <2>2. QED
    BY <2>1, <1>1, <1>2 DEF Time
<1>8. QED
  BY <1>7


-----------------------------------------------------------------------------
(* Types, and the one form of every step on cycles. *)

(* A cycle about to be inserted is of a version of the policy.              *)
Drafted == \A c \in Clients : draft[c] = None \/ draft[c].version \in 1..MaxVersion

TypeInv == TypeOK /\ Drafted

LEMMA GridType ==
    ASSUME TypeOK
    PROVE  /\ policy.grid \in [mode : {"CALENDAR_MONTH", "FIXED_DAYS"},
                               length : Nat \ {0}, anchor : Int]
           /\ policy.version \in 1..MaxVersion /\ policy.grid \in Grids
BY CyclesAssumption DEF TypeOK, Policy

LEMMA NowType ==
    ASSUME TypeOK
    PROVE  now \in Int /\ now \in Time /\ 0 \in Time
BY CyclesAssumption DEF TypeOK, Time

LEMMA OpenType ==
    ASSUME TypeOK, NEW s \in Int, NEW e \in Int, NEW v \in 1..MaxVersion
    PROVE  /\ Open(s, e, v) \in Cycle
           /\ Open(s, e, v).start = s /\ Open(s, e, v).end = e
           /\ Open(s, e, v).reason = "OPEN"
BY NowType DEF Open, Cycle

LEMMA SnapshotType ==
    ASSUME TypeOK, NEW c \in Cycle
    PROVE  SnapshotsOf(c) \subseteq Snapshot
<1> SUFFICES ASSUME NEW s \in SnapshotsOf(c) PROVE s \in Snapshot
  OBVIOUS
<1>1. PICK o \in SeenIn(c) :
        s = [finding |-> o.finding, at |-> o.at,
             runs |-> {p.run : p \in {q \in SeenIn(c) : q.finding = o.finding}}]
  BY DEF SnapshotsOf
<1>2. SeenIn(c) \subseteq Observation
  BY DEF SeenIn, TypeOK
<1>3. {p.run : p \in {q \in SeenIn(c) : q.finding = o.finding}} \in SUBSET Runs
  BY <1>2 DEF Observation
<1>4. o.finding \in Findings /\ o.at \in Time
  BY <1>1, <1>2 DEF Observation
<1>5. QED
  BY <1>1, <1>3, <1>4 DEF Snapshot

(* Closing leaves the period of a cycle.                                    *)
LEMMA ClosedType ==
    ASSUME TypeOK, NEW c \in Cycle, NEW reason \in {"MANUAL", "SCHEDULED"}
    PROVE  /\ Closed(c, reason) \in Cycle
           /\ Closed(c, reason).start = c.start /\ Closed(c, reason).end = c.end
           /\ Closed(c, reason).reason = reason
           /\ Closed(c, reason).closedAt = now
           /\ Closed(c, reason).snapshots = SnapshotsOf(c)
BY SnapshotType, NowType DEF Closed, Cycle

LEMMA NextOfType ==
    ASSUME TypeOK, NEW c \in Cycle, NEW d \in NextOf(c)
    PROVE  /\ d \in Cycle /\ d.reason = "OPEN" /\ d.start = c.end
           /\ d = Open(d.start, d.end, policy.version)
           /\ \A x \in cycles : x.start # c.end
           /\ \/ d.end = End(policy.grid, c.end)
              \/ d.end = c.end + policy.grid.length
<1> DEFINE e == IF policy.grid.mode = "CALENDAR_MONTH" THEN End(policy.grid, c.end)
                ELSE c.end + policy.grid.length
<1>1. ~ \E x \in cycles : x.start = c.end
  BY DEF NextOf
<1>2. d = Open(c.end, e, policy.version)
  BY <1>1 DEF NextOf
<1>3. c.end \in Int
  BY DEF Cycle
<1>4. End(policy.grid, c.end) \in Int /\ policy.grid.length \in Int
  BY <1>3, GridType, BoundsOnGrid
<1>5. e \in Int
  BY <1>3, <1>4
<1>6. e = End(policy.grid, c.end) \/ e = c.end + policy.grid.length
  OBVIOUS
<1> HIDE DEF e
<1>7. /\ d \in Cycle /\ d.reason = "OPEN" /\ d.start = c.end /\ d.end = e
      /\ d = Open(d.start, d.end, policy.version)
  BY <1>2, <1>3, <1>5, GridType, OpenType
<1>8. QED
  BY <1>1, <1>6, <1>7

LEMMA NextOfFollows ==
    ASSUME NEW c
    PROVE  \E d \in cycles \cup NextOf(c) : d.start = c.end
<1>1. CASE \E d \in cycles : d.start = c.end
  BY <1>1
<1>2. CASE ~ \E d \in cycles : d.start = c.end
  <2>1. PICK e, v : NextOf(c) = {Open(c.end, e, v)}
    BY <1>2, Zenon DEF NextOf
  <2>2. Open(c.end, e, v).start = c.end
    BY DEF Open
  <2>3. QED
    BY <2>1, <2>2
<1>3. QED
  BY <1>1, <1>2

(* Cycles of N are of periods of their own. *)
Fresh(N) ==
    /\ \A d \in N : \A c \in cycles : Period(c) # Period(d)
    /\ \A c, d \in N : Period(c) = Period(d) => c = d

(* What a step does to the cycles: those in K are closed, those in N added. *)
Reshape(K, reason, N) ==
    /\ K \subseteq cycles /\ \A c \in K : MayClose(c)
    /\ reason \in {"MANUAL", "SCHEDULED"}
    /\ N \subseteq Cycle /\ (\A d \in N : d.reason = "OPEN") /\ Fresh(N)
    /\ reason = "SCHEDULED" => \A c \in K : \E d \in cycles \cup N : d.start = c.end
    /\ cycles' = (cycles \ K) \cup {Closed(c, reason) : c \in K} \cup N
    /\ UNCHANGED <<now, run, obs>>

Reshaped == \E K, N \in SUBSET (cycles \cup Cycle), reason \in {"MANUAL", "SCHEDULED"} :
                Reshape(K, reason, N)

(* A closing adds only what follows cycles.                                 *)
Closes == \E K, N \in SUBSET (cycles \cup Cycle), reason \in {"MANUAL", "SCHEDULED"} :
              /\ Reshape(K, reason, N)
              /\ N \subseteq UNION {NextOf(c) : c \in cycles}

(* What follows some cycles is of periods of its own, for nothing starts    *)
(* where they end (ensure_next_cycle).                                      *)
LEMMA NextOfFresh ==
    ASSUME TypeInv, NEW K \in SUBSET cycles
    PROVE  Fresh(UNION {NextOf(c) : c \in K})
<1> DEFINE N == UNION {NextOf(c) : c \in K}
<1>1. ASSUME NEW d \in N
      PROVE  /\ d = Open(d.start, d.end, policy.version)
             /\ \A x \in cycles : x.start # d.start
  <2>1. PICK c \in K : d \in NextOf(c)
    OBVIOUS
  <2>2. c \in Cycle
    BY DEF TypeInv, TypeOK
  <2>3. QED
    BY <2>1, <2>2, NextOfType DEF TypeInv
<1> HIDE DEF N
<1>2. \A d \in N : \A c \in cycles : Period(c) # Period(d)
  BY <1>1 DEF Period
<1>3. ASSUME NEW c \in N, NEW d \in N, Period(c) = Period(d)
      PROVE  c = d
  <2>1. c.start = d.start /\ c.end = d.end
    BY <1>3 DEF Period
  <2>2. QED
    BY <1>1, <2>1
<1>4. Fresh(N)
  BY <1>2, <1>3 DEF Fresh
<1>5. QED
  BY <1>4 DEF N

LEMMA InsertReshapes ==
    ASSUME TypeInv, NEW c \in Clients, Insert(c)
    PROVE  Reshaped
<1> DEFINE d == draft[c]
           same == {x \in cycles : x.start = d.start /\ x.end = d.end}
           N == IF same # {} THEN {} ELSE {Open(d.start, d.end, d.version)}
<1>1. d.start \in Int /\ d.end \in Int /\ d.version \in 1..MaxVersion
  BY DEF TypeInv, TypeOK, Drafted, Draft, Insert
<1>2. Open(d.start, d.end, d.version) \in Cycle
      /\ Open(d.start, d.end, d.version).reason = "OPEN"
  BY <1>1, OpenType DEF TypeInv
<1>3. N \subseteq Cycle /\ \A x \in N : x.reason = "OPEN"
  BY <1>2
<1>4. cycles' = cycles \cup N /\ UNCHANGED <<now, run, obs>>
  BY DEF Insert
<1>7. Fresh(N)
  <2>1. Open(d.start, d.end, d.version).start = d.start
        /\ Open(d.start, d.end, d.version).end = d.end
    BY DEF Open
  <2>2. QED
    BY <2>1 DEF Fresh, Period
<1> HIDE DEF N
<1>5. Reshape({}, "MANUAL", N)
  BY <1>3, <1>4, <1>7 DEF Reshape
<1>6. QED
  BY <1>3, <1>5 DEF Reshaped

LEMMA UpdateReshapes ==
    ASSUME TypeInv, NEW grid \in Grids, NEW automatic \in BOOLEAN,
           UpdatePolicy(grid, automatic)
    PROVE  Reshaped
<1> DEFINE new == Open(Start(grid, now), End(grid, now), policy.version + 1)
           N == IF \E c \in cycles : Within(now, c) THEN {} ELSE {new}
<1>1. policy.version + 1 \in 1..MaxVersion
  BY GridType, CyclesAssumption DEF TypeInv, UpdatePolicy
<1>2. Start(grid, now) \in Int /\ End(grid, now) \in Int
  BY CyclesAssumption, NowType, BoundsOnGrid DEF TypeInv
<1>3. new \in Cycle /\ new.reason = "OPEN"
  BY <1>1, <1>2, OpenType DEF TypeInv
<1>4. cycles' = cycles \cup N /\ UNCHANGED <<now, run, obs>>
  BY DEF UpdatePolicy
<1>8. Fresh(N)
  <2>1. CASE \E c \in cycles : Within(now, c)
    BY <2>1 DEF Fresh
  <2>2. CASE ~ \E c \in cycles : Within(now, c)
    <3>1. new.start = Start(grid, now) /\ new.end = End(grid, now)
      BY DEF Open
    <3>2. new.start < new.end /\ new.start \in Int /\ new.end \in Int
      <4>1. grid.length \in Nat \ {0}
        BY CyclesAssumption
      <4>2. QED
        BY <1>2, <3>1, <4>1 DEF End
    <3>3. \A c \in cycles :
            ~Overlap(c, [start |-> Start(grid, now), end |-> End(grid, now)])
      <4>1. policy'.grid = grid /\ Creatable(policy')
        BY <2>2 DEF UpdatePolicy
      <4>2. QED
        BY <4>1 DEF Creatable
    <3>4. ASSUME NEW c \in cycles PROVE Period(c) # Period(new)
      <4>1. ~(c.start < new.end /\ new.start < c.end)
        BY <3>1, <3>3 DEF Overlap
      <4>2. QED
        BY <3>2, <4>1 DEF Period
    <3>5. N = {new}
      BY <2>2
    <3> HIDE DEF N, new
    <3>6. QED
      BY <3>4, <3>5 DEF Fresh
  <2>3. QED
    BY <2>1, <2>2
<1> HIDE DEF new
<1>5. N \subseteq Cycle /\ \A x \in N : x.reason = "OPEN"
  BY <1>3
<1> HIDE DEF N
<1>6. Reshape({}, "MANUAL", N)
  BY <1>4, <1>5, <1>8 DEF Reshape
<1>7. QED
  BY <1>5, <1>6 DEF Reshaped

LEMMA HandReshapes ==
    ASSUME TypeInv, NEW c \in cycles, CloseByHand(c)
    PROVE  Closes
<1>1. c \in Cycle
  BY DEF TypeInv, TypeOK
<1>2. NextOf(c) \subseteq Cycle /\ \A d \in NextOf(c) : d.reason = "OPEN"
  BY <1>1, NextOfType DEF TypeInv
<1>6. Fresh(NextOf(c))
  <2>1. UNION {NextOf(x) : x \in {c}} = NextOf(c)
    OBVIOUS
  <2>2. QED
    BY <2>1, NextOfFresh
<1>3. CASE c.reason = "OPEN"
  <2>1. MayClose(c)
    BY <1>3 DEF CloseByHand, MayClose
  <2>2. cycles' = (cycles \ {c}) \cup {Closed(c, "MANUAL")} \cup NextOf(c)
        /\ UNCHANGED <<now, run, obs>>
    BY <1>3 DEF CloseByHand
  <2>3. {Closed(x, "MANUAL") : x \in {c}} = {Closed(c, "MANUAL")}
    OBVIOUS
  <2>4. Reshape({c}, "MANUAL", NextOf(c))
    BY <1>2, <1>6, <2>1, <2>2, <2>3 DEF Reshape
  <2>5. QED
    BY <1>2, <2>4 DEF Closes
<1>4. CASE c.reason # "OPEN"
  <2>1. cycles' = cycles \cup NextOf(c) /\ UNCHANGED <<now, run, obs>>
    BY <1>4 DEF CloseByHand
  <2>2. Reshape({}, "MANUAL", NextOf(c))
    BY <1>2, <1>6, <2>1 DEF Reshape
  <2>3. QED
    BY <1>2, <2>2 DEF Closes
<1>5. QED
  BY <1>3, <1>4

LEMMA ArchiveReshapes ==
    ASSUME TypeInv, NEW c \in cycles, CloseAndArchive(c)
    PROVE  Closes
<1>1. {Closed(x, "MANUAL") : x \in {c}} = {Closed(c, "MANUAL")}
  OBVIOUS
<1>2. Reshape({c}, "MANUAL", {})
  BY <1>1 DEF CloseAndArchive, Reshape, Fresh
<1>3. QED
  BY <1>2 DEF Closes

LEMMA AutoReshapes ==
    ASSUME TypeInv, AutoClose
    PROVE  Closes
<1> DEFINE ready == {c \in Due : MayClose(c)}
           N == UNION {NextOf(c) : c \in ready}
<1>1. ready \subseteq cycles /\ cycles \subseteq Cycle
  BY DEF Due, TypeInv, TypeOK
<1>2. N \subseteq Cycle /\ \A d \in N : d.reason = "OPEN"
  BY <1>1, NextOfType DEF TypeInv
<1>3. cycles' = (cycles \ ready) \cup {Closed(c, "SCHEDULED") : c \in ready} \cup N
      /\ UNCHANGED <<now, run, obs>>
  BY DEF AutoClose
<1>4. \A c \in ready : MayClose(c)
  OBVIOUS
<1>5. \A c \in ready : \E d \in cycles \cup N : d.start = c.end
  BY NextOfFollows
<1>8. N \subseteq UNION {NextOf(c) : c \in cycles}
  BY <1>1
<1>9. Fresh(N)
  BY <1>1, NextOfFresh
<1> HIDE DEF ready, N
<1>6. Reshape(ready, "SCHEDULED", N)
  BY <1>1, <1>2, <1>3, <1>4, <1>5, <1>9 DEF Reshape
<1>7. QED
  BY <1>1, <1>2, <1>6, <1>8 DEF Closes

(* No other step changes the cycles.                                        *)
LEMMA CyclesStep == TypeInv /\ [Next]_vars => Reshaped \/ UNCHANGED cycles
<1> SUFFICES ASSUME TypeInv, [Next]_vars PROVE Reshaped \/ UNCHANGED cycles
  OBVIOUS
<1>1. CASE Tick
  BY <1>1 DEF Tick
<1>2. CASE Collect
  BY <1>2 DEF Collect, Claim, Persist, Fail
<1>3. CASE Create
  <2>1. ASSUME NEW c \in Clients, Prepare(c) PROVE UNCHANGED cycles
    BY <2>1 DEF Prepare
  <2>2. QED
    BY <1>3, <2>1, InsertReshapes, UpdateReshapes DEF Create
<1>4. CASE Close
  <2>1. Closes
    BY <1>4, HandReshapes, ArchiveReshapes, AutoReshapes DEF Close
  <2>2. QED
    BY <2>1 DEF Closes, Reshaped
<1>5. CASE UNCHANGED vars
  BY <1>5 DEF vars
<1>6. QED
  BY <1>1, <1>2, <1>3, <1>4, <1>5 DEF Next

-----------------------------------------------------------------------------
(* Every state is of its type, whatever requests, workers and              *)
(* administrators do (opportunity_history.py, opportunity_policy.py).       *)
LEMMA InitType == Init => TypeInv
<1> SUFFICES ASSUME Init PROVE TypeInv
  OBVIOUS
<1>1. now \in Time /\ 0 \in Time /\ 1 \in 1..MaxVersion
  BY CyclesAssumption DEF Init, Time
<1>2. policy \in Policy
  BY <1>1 DEF Init, Policy
<1>3. draft \in [Clients -> Draft]
  BY CyclesAssumption DEF Init, None, Draft
<1>4. run \in [Runs -> RunRow]
  BY <1>1 DEF Init, RunRow
<1>5. QED
  BY <1>1, <1>2, <1>3, <1>4 DEF Init, TypeInv, TypeOK, Drafted

LEMMA ReshapeType ==
    ASSUME TypeOK, NEW K, NEW N, NEW reason, Reshape(K, reason, N)
    PROVE  cycles' \subseteq Cycle
<1>1. cycles \subseteq Cycle /\ K \subseteq Cycle /\ N \subseteq Cycle
  BY DEF TypeOK, Reshape
<1>2. \A c \in K : Closed(c, reason) \in Cycle
  BY <1>1, ClosedType DEF Reshape
<1>3. cycles' = (cycles \ K) \cup {Closed(c, reason) : c \in K} \cup N
  BY DEF Reshape
<1>4. QED
  BY <1>1, <1>2, <1>3

LEMMA NextType == TypeInv /\ [Next]_vars => TypeInv'
<1> SUFFICES ASSUME TypeInv, [Next]_vars PROVE TypeInv'
  OBVIOUS
<1>1. cycles' \subseteq Cycle
  <2>1. CASE Reshaped
    BY <2>1, ReshapeType DEF Reshaped, TypeInv
  <2>2. CASE UNCHANGED cycles
    BY <2>2 DEF TypeInv, TypeOK
  <2>3. QED
    BY <2>1, <2>2, CyclesStep
<1>2. CASE Tick
  <2>1. now' \in Time
    BY <1>2, CyclesAssumption DEF Tick, TypeInv, TypeOK, Time
  <2>2. QED
    BY <1>1, <1>2, <2>1 DEF Tick, TypeInv, TypeOK, Drafted
<1>3. CASE Collect
  <2>1. ASSUME NEW r \in Runs, NEW at \in Time, Claim(r, at) PROVE TypeInv'
    <3>1. run' \in [Runs -> RunRow]
      BY <2>1 DEF Claim, RunRow, TypeInv, TypeOK
    <3>2. QED
      BY <1>1, <2>1, <3>1 DEF Claim, TypeInv, TypeOK, Drafted
  <2>2. ASSUME NEW r \in Runs, NEW at \in Time, NEW F \in SUBSET Findings,
               Persist(r, at, F)
        PROVE  TypeInv'
    <3>1. run' \in [Runs -> RunRow]
      BY <2>2 DEF Persist, RunRow, TypeInv, TypeOK
    <3>2. obs' \subseteq Observation
      BY <2>2 DEF Persist, Observation, TypeInv, TypeOK
    <3>3. QED
      BY <1>1, <2>2, <3>1, <3>2 DEF Persist, TypeInv, TypeOK, Drafted
  <2>3. ASSUME NEW r \in Runs, Fail(r) PROVE TypeInv'
    <3>1. run' \in [Runs -> RunRow]
      BY <2>3 DEF Fail, RunRow, TypeInv, TypeOK
    <3>2. QED
      BY <1>1, <2>3, <3>1 DEF Fail, TypeInv, TypeOK, Drafted
  <2>4. QED
    BY <1>3, <2>1, <2>2, <2>3 DEF Collect
<1>4. CASE Create
  <2>1. ASSUME NEW c \in Clients, Prepare(c) PROVE TypeInv'
    <3> DEFINE d == [start |-> Start(policy.grid, now), end |-> End(policy.grid, now),
                     version |-> policy.version]
    <3>1. d \in Draft /\ d.version \in 1..MaxVersion
      BY GridType, NowType, BoundsOnGrid DEF Draft, TypeInv
    <3>2. draft' = [draft EXCEPT ![c] = d]
      BY <2>1 DEF Prepare
    <3> HIDE DEF d
    <3>3. draft' \in [Clients -> Draft] /\ Drafted'
      BY <3>1, <3>2 DEF TypeInv, TypeOK, Drafted
    <3>4. QED
      BY <1>1, <2>1, <3>3 DEF Prepare, TypeInv, TypeOK
  <2>2. ASSUME NEW c \in Clients, Insert(c) PROVE TypeInv'
    <3>1. None \in Draft
      BY CyclesAssumption DEF None, Draft
    <3>2. draft' \in [Clients -> Draft] /\ Drafted'
      BY <2>2, <3>1 DEF Insert, TypeInv, TypeOK, Drafted
    <3>3. QED
      BY <1>1, <2>2, <3>2 DEF Insert, TypeInv, TypeOK
  <2>3. ASSUME NEW grid \in Grids, NEW automatic \in BOOLEAN,
               UpdatePolicy(grid, automatic)
        PROVE  TypeInv'
    <3>1. policy.version + 1 \in 1..MaxVersion
      BY <2>3, GridType, CyclesAssumption DEF TypeInv, UpdatePolicy
    <3>2. policy' \in Policy
      BY <2>3, <3>1 DEF UpdatePolicy, Policy
    <3>3. QED
      BY <1>1, <2>3, <3>2 DEF UpdatePolicy, TypeInv, TypeOK, Drafted
  <2>4. QED
    BY <1>4, <2>1, <2>2, <2>3 DEF Create
<1>5. CASE Close
  <2>1. UNCHANGED <<now, policy, run, obs, draft>>
    BY <1>5 DEF Close, CloseByHand, CloseAndArchive, AutoClose
  <2>2. QED
    BY <1>1, <2>1 DEF TypeInv, TypeOK, Drafted
<1>6. CASE UNCHANGED vars
  BY <1>6 DEF vars, TypeInv, TypeOK, Drafted
<1>7. QED
  BY <1>2, <1>3, <1>4, <1>5, <1>6 DEF Next

LEMMA TypeInvariant == Spec => []TypeInv
BY InitType, NextType, PTL DEF Spec

(* The state is of its type (TypeOK) in every behaviour of requests,        *)
(* workers and administrators (opportunity_policy.py,                       *)
(* opportunity_history.py).                                                 *)
THEOREM TypeCorrect == Spec => []TypeOK
<1>1. TypeInv => TypeOK
  BY DEF TypeInv
<1>2. QED
  BY <1>1, TypeInvariant, PTL

-----------------------------------------------------------------------------
(* A cycle that the schedule closed is followed by one that starts where it *)
(* ended, under whatever policy and whoever else closes cycles              *)
(* (auto_close_due_cycles, ensure_next_cycle).                              *)
THEOREM NoGapAfterSchedule == Spec => []ScheduleContinues
<1>1. Init => ScheduleContinues
  BY DEF Init, ScheduleContinues
<1>2. TypeInv /\ ScheduleContinues /\ [Next]_vars => ScheduleContinues'
  <2> SUFFICES ASSUME TypeInv, ScheduleContinues, [Next]_vars
               PROVE  ScheduleContinues'
    OBVIOUS
  <2>1. CASE UNCHANGED cycles
    BY <2>1 DEF ScheduleContinues
  <2>2. CASE Reshaped
    <3>1. PICK K, N, reason : Reshape(K, reason, N)
      BY <2>2 DEF Reshaped
    <3>2. cycles' = (cycles \ K) \cup {Closed(c, reason) : c \in K} \cup N
          /\ cycles \subseteq Cycle /\ K \subseteq Cycle /\ K \subseteq cycles
      BY <3>1 DEF Reshape, TypeInv, TypeOK
    <3>3. \A c \in K : /\ Closed(c, reason).start = c.start
                      /\ Closed(c, reason).end = c.end
                      /\ Closed(c, reason).reason = reason
      BY <3>1, <3>2, ClosedType DEF Reshape, TypeInv
    <3>4. \A d \in cycles \cup N : \E e \in cycles' : e.start = d.start
      <4> SUFFICES ASSUME NEW d \in cycles \cup N PROVE \E e \in cycles' : e.start = d.start
        OBVIOUS
      <4>1. CASE d \in K
        <5>1. Closed(d, reason) \in cycles'
          BY <3>2, <4>1
        <5>2. QED
          BY <3>3, <4>1, <5>1
      <4>2. CASE d \notin K
        BY <3>2, <4>2
      <4>3. QED
        BY <4>1, <4>2
    <3>5. SUFFICES ASSUME NEW c \in cycles', c.reason = "SCHEDULED"
                   PROVE  \E d \in cycles' : d.start = c.end
      BY DEF ScheduleContinues
    <3>6. CASE c \in cycles \ K
      <4>1. \E d \in cycles : d.start = c.end
        BY <3>5, <3>6 DEF ScheduleContinues
      <4>2. QED
        BY <3>4, <4>1
    <3>7. CASE c \in N
      BY <3>1, <3>5, <3>7 DEF Reshape
    <3>8. ASSUME NEW k \in K, c = Closed(k, reason)
          PROVE  \E d \in cycles' : d.start = c.end
      <4>1. reason = "SCHEDULED" /\ c.end = k.end
        BY <3>3, <3>5, <3>8
      <4>2. \E d \in cycles \cup N : d.start = k.end
        BY <3>1, <4>1 DEF Reshape
      <4>3. QED
        BY <3>4, <4>1, <4>2
    <3>9. QED
      BY <3>2, <3>5, <3>6, <3>7, <3>8
  <2>3. QED
    BY <2>1, <2>2, CyclesStep
<1>3. QED
  BY <1>1, <1>2, TypeInvariant, PTL DEF Spec


-----------------------------------------------------------------------------
(* What a closed cycle holds. *)

(* An observation is committed with the end of its run.                     *)
Ended == \A o \in obs : run[o.run].state = "ended"

(* A run of a period that was closed after it was over began later than     *)
(* that: all it observes is later than the period.                          *)
Quiet ==
    \A c \in cycles : c.reason # "OPEN" =>
        /\ c.closedAt <= now
        /\ c.closedAt >= c.end =>
             \A r \in Runs : run[r].state = "RUNNING" /\ Within(run[r].startedAt, c)
                               => run[r].since >= c.closedAt

HoldInv == TypeInv /\ Ended /\ Quiet /\ ClosedComplete

LEMMA InitHold == Init => HoldInv
<1> SUFFICES ASSUME Init PROVE HoldInv
  OBVIOUS
<1>1. TypeInv
  BY InitType
<1>2. Ended /\ Quiet /\ ClosedComplete
  BY DEF Init, Ended, Quiet, ClosedComplete
<1>3. QED
  BY <1>1, <1>2 DEF HoldInv

(* Closing takes a snapshot of each finding seen, as it was last seen       *)
(* (_snapshot_source_rows).                                                 *)
LEMMA SnapshotsHold ==
    ASSUME TypeOK, NEW c \in Cycle, NEW o \in SeenIn(c)
    PROVE  \E s \in SnapshotsOf(c) :
              s.finding = o.finding /\ s.at >= o.at /\ o.run \in s.runs
<1> DEFINE S == {q \in SeenIn(c) : q.finding = o.finding}
<1>1. S \in SUBSET Observation /\ o \in S
  BY DEF SeenIn, TypeOK
<1>2. PICK l \in S : \A p \in S : p.at <= l.at
  BY <1>1, LatestExists
<1>3. l \in {x \in SeenIn(c) : \A p \in SeenIn(c) : p.finding = x.finding => p.at <= x.at}
  BY <1>2
<1> DEFINE s == [finding |-> l.finding, at |-> l.at,
                 runs |-> {p.run : p \in {q \in SeenIn(c) : q.finding = l.finding}}]
<1>4. s \in SnapshotsOf(c)
  BY <1>3 DEF SnapshotsOf
<1>5. l.finding = o.finding /\ l.at >= o.at
  BY <1>1, <1>2 DEF Observation, Time
<1>6. o.run \in s.runs
  BY <1>1, <1>5
<1>7. QED
  BY <1>4, <1>5, <1>6

(* Collections leave the cycles: what is observed now by a run of a closed  *)
(* period is no longer in it.                                               *)
LEMMA CollectHolds ==
    ASSUME HoldInv, Collect
    PROVE  Ended' /\ Quiet' /\ ClosedComplete'
<1>1. UNCHANGED <<now, cycles>>
  BY DEF Collect, Claim, Persist, Fail
<1>2. cycles \subseteq Cycle /\ obs \subseteq Observation /\ run \in [Runs -> RunRow]
  BY DEF HoldInv, TypeInv, TypeOK
<1>3. ASSUME NEW r \in Runs, NEW at \in Time, Claim(r, at)
      PROVE  Ended' /\ Quiet' /\ ClosedComplete'
  <2>1. run' = [run EXCEPT ![r] = [state |-> "RUNNING", startedAt |-> at, since |-> now]]
        /\ obs' = obs
    BY <1>3 DEF Claim
  <2>2. \A o \in obs : o.run \in Runs /\ o.run # r
    BY <1>2, <1>3 DEF Claim, HoldInv, Ended, Observation
  <2>3. \A q \in Runs \ {r} : run'[q] = run[q]
    BY <1>2, <2>1
  <2>4. run'[r].since = now
    BY <1>2, <2>1
  <2>5. Ended'
    BY <2>1, <2>2, <2>3 DEF HoldInv, Ended
  <2>6. Quiet'
    BY <1>1, <2>3, <2>4 DEF HoldInv, Quiet, Within
  <2>7. ClosedComplete'
    <3> SUFFICES ASSUME NEW c \in cycles, c.reason # "OPEN", c.closedAt >= c.end,
                        NEW o \in SeenIn(c), Within(run'[o.run].startedAt, c)
                 PROVE  \E s \in c.snapshots :
                           s.finding = o.finding /\ s.at >= o.at /\ o.run \in s.runs
      BY <1>1, <2>1 DEF ClosedComplete, SeenIn, Within
    <3>1. run'[o.run] = run[o.run]
      BY <2>2, <2>3 DEF SeenIn
    <3>2. QED
      BY <3>1 DEF HoldInv, ClosedComplete
  <2>8. QED
    BY <2>5, <2>6, <2>7
<1>4. ASSUME NEW r \in Runs, NEW at \in Time, NEW F \in SUBSET Findings,
             Persist(r, at, F)
      PROVE  Ended' /\ Quiet' /\ ClosedComplete'
  <2>1. run' = [run EXCEPT ![r].state = "ended"]
        /\ obs' = obs \cup [finding : F, run : {r}, at : {at}]
        /\ run[r].state = "RUNNING" /\ run[r].since <= at
    BY <1>4 DEF Persist
  <2>2. \A q \in Runs : /\ run'[q].startedAt = run[q].startedAt
                        /\ run'[q].since = run[q].since
                        /\ run'[q].state = IF q = r THEN "ended" ELSE run[q].state
    BY <1>2, <2>1 DEF RunRow
  <2>3. \A o \in obs' : o \in obs \/ (o.run = r /\ o.at = at)
    BY <2>1
  <2>4. \A o \in obs : o.run \in Runs
    BY <1>2 DEF Observation
  <2>5. Ended'
    BY <2>2, <2>3, <2>4 DEF HoldInv, Ended
  <2>6. Quiet'
    BY <1>1, <2>2 DEF HoldInv, Quiet, Within
  <2>7. ClosedComplete'
    <3> SUFFICES ASSUME NEW c \in cycles, c.reason # "OPEN", c.closedAt >= c.end,
                        NEW o \in obs', Within(o.at, c), Within(run'[o.run].startedAt, c)
                 PROVE  \E s \in c.snapshots :
                           s.finding = o.finding /\ s.at >= o.at /\ o.run \in s.runs
      BY <1>1 DEF ClosedComplete, SeenIn, Within
    <3>1. CASE o \in obs
      <4>1. Within(run[o.run].startedAt, c) /\ o \in SeenIn(c)
        BY <2>2, <2>4, <3>1 DEF SeenIn
      <4>2. QED
        BY <4>1 DEF HoldInv, ClosedComplete
    <3>2. CASE o.run = r /\ o.at = at
      <4>1. run[r].since >= c.closedAt
        BY <2>1, <2>2, <3>2 DEF HoldInv, Quiet
      <4>2. c.end \in Int /\ c.closedAt \in Int /\ at \in Int /\ run[r].since \in Int
        BY <1>2 DEF Cycle, Time, RunRow
      <4>3. at >= c.end
        BY <2>1, <4>1, <4>2
      <4>4. QED
        BY <3>2, <4>2, <4>3 DEF Within
    <3>3. QED
      BY <2>3, <3>1, <3>2
  <2>8. QED
    BY <2>5, <2>6, <2>7
<1>5. ASSUME NEW r \in Runs, Fail(r)
      PROVE  Ended' /\ Quiet' /\ ClosedComplete'
  <2>1. run' = [run EXCEPT ![r].state = "ended"] /\ obs' = obs
    BY <1>5 DEF Fail
  <2>2. \A q \in Runs : /\ run'[q].startedAt = run[q].startedAt
                        /\ run'[q].since = run[q].since
                        /\ run'[q].state = IF q = r THEN "ended" ELSE run[q].state
    BY <1>2, <2>1 DEF RunRow
  <2>3. \A o \in obs : o.run \in Runs
    BY <1>2 DEF Observation
  <2>4. Ended'
    BY <2>1, <2>2, <2>3 DEF HoldInv, Ended
  <2>5. Quiet'
    BY <1>1, <2>2 DEF HoldInv, Quiet, Within
  <2>6. ClosedComplete'
    <3> SUFFICES ASSUME NEW c \in cycles, c.reason # "OPEN", c.closedAt >= c.end,
                        NEW o \in SeenIn(c), Within(run'[o.run].startedAt, c)
                 PROVE  \E s \in c.snapshots :
                           s.finding = o.finding /\ s.at >= o.at /\ o.run \in s.runs
      BY <1>1, <2>1 DEF ClosedComplete, SeenIn, Within
    <3>1. run'[o.run].startedAt = run[o.run].startedAt
      BY <2>2, <2>3 DEF SeenIn
    <3>2. QED
      BY <3>1 DEF HoldInv, ClosedComplete
  <2>7. QED
    BY <2>4, <2>5, <2>6
<1>6. QED
  BY <1>3, <1>4, <1>5 DEF Collect

(* A cycle is closed when none of its runs is running, with all they saw.   *)
LEMMA ReshapeHolds ==
    ASSUME HoldInv, NEW K, NEW N, NEW reason, Reshape(K, reason, N)
    PROVE  Quiet' /\ ClosedComplete'
<1>1. /\ cycles' = (cycles \ K) \cup {Closed(c, reason) : c \in K} \cup N
      /\ K \subseteq cycles /\ cycles \subseteq Cycle
      /\ \A d \in N : d.reason = "OPEN"
      /\ UNCHANGED <<now, run, obs>>
  BY DEF Reshape, HoldInv, TypeInv, TypeOK
<1>2. ASSUME NEW k \in K
      PROVE  /\ Closed(k, reason).start = k.start /\ Closed(k, reason).end = k.end
             /\ Closed(k, reason).closedAt = now
             /\ Closed(k, reason).snapshots = SnapshotsOf(k)
  BY <1>1, ClosedType DEF Reshape, HoldInv, TypeInv
<1>3. \A k \in K : ~Running(k)
  BY DEF Reshape, MayClose
<1>4. Quiet'
  <2> SUFFICES ASSUME NEW c \in cycles', c.reason # "OPEN"
               PROVE  /\ c.closedAt <= now
                      /\ c.closedAt >= c.end =>
                           \A r \in Runs : run[r].state = "RUNNING"
                                             /\ Within(run[r].startedAt, c)
                                               => run[r].since >= c.closedAt
    BY <1>1 DEF Quiet, Within
  <2>1. CASE c \in cycles
    BY <2>1 DEF HoldInv, Quiet
  <2>2. ASSUME NEW k \in K, c = Closed(k, reason)
        PROVE  /\ c.closedAt <= now
               /\ \A r \in Runs : ~(run[r].state = "RUNNING" /\ Within(run[r].startedAt, c))
    <3>1. c.closedAt = now /\ now \in Int
      BY <1>2, <2>2, NowType DEF HoldInv, TypeInv
    <3>2. \A r \in Runs : Within(run[r].startedAt, c) => Within(run[r].startedAt, k)
      BY <1>2, <2>2 DEF Within
    <3>3. QED
      BY <1>3, <3>1, <3>2 DEF Running
  <2>3. QED
    BY <1>1, <2>1, <2>2
<1>5. ClosedComplete'
  <2> SUFFICES ASSUME NEW c \in cycles', c.reason # "OPEN", c.closedAt >= c.end,
                      NEW o \in obs, Within(o.at, c), Within(run[o.run].startedAt, c)
               PROVE  \E s \in c.snapshots :
                         s.finding = o.finding /\ s.at >= o.at /\ o.run \in s.runs
    BY <1>1 DEF ClosedComplete, SeenIn, Within
  <2>1. CASE c \in cycles
    BY <2>1 DEF HoldInv, ClosedComplete, SeenIn
  <2>2. ASSUME NEW k \in K, c = Closed(k, reason)
        PROVE  \E s \in c.snapshots :
                  s.finding = o.finding /\ s.at >= o.at /\ o.run \in s.runs
    <3>1. o \in SeenIn(k)
      BY <1>2, <2>2 DEF SeenIn, Within
    <3>2. c.snapshots = SnapshotsOf(k)
      BY <1>2, <2>2
    <3>3. QED
      BY <1>1, <3>1, <3>2, SnapshotsHold DEF HoldInv, TypeInv
  <2>3. QED
    BY <1>1, <2>1, <2>2
<1>6. QED
  BY <1>4, <1>5

LEMMA NextHold == HoldInv /\ [Next]_vars => HoldInv'
<1> SUFFICES ASSUME HoldInv, [Next]_vars PROVE HoldInv'
  OBVIOUS
<1>1. TypeInv'
  BY NextType DEF HoldInv
<1>2. CASE Tick
  <2>1. now \in Int /\ now' = now + 1 /\ UNCHANGED <<cycles, run, obs>>
    BY <1>2, NowType DEF Tick, HoldInv, TypeInv
  <2>2. \A c \in cycles : c.closedAt \in Int
    BY DEF HoldInv, TypeInv, TypeOK, Cycle, Time
  <2>3. Quiet'
    BY <2>1, <2>2 DEF HoldInv, Quiet, Within
  <2>4. Ended' /\ ClosedComplete'
    BY <2>1 DEF HoldInv, Ended, ClosedComplete, SeenIn, Within
  <2>5. QED
    BY <1>1, <2>3, <2>4 DEF HoldInv
<1>3. CASE Collect
  BY <1>1, <1>3, CollectHolds DEF HoldInv
<1>4. CASE UNCHANGED <<now, run, obs>>
  <2>1. Ended'
    BY <1>4 DEF HoldInv, Ended
  <2>2. CASE UNCHANGED cycles
    <3>1. Quiet' /\ ClosedComplete'
      BY <1>4, <2>2 DEF HoldInv, Quiet, ClosedComplete, SeenIn, Within
    <3>2. QED
      BY <1>1, <2>1, <3>1 DEF HoldInv
  <2>3. CASE Reshaped
    <3>1. Quiet' /\ ClosedComplete'
      BY <2>3, ReshapeHolds DEF Reshaped
    <3>2. QED
      BY <1>1, <2>1, <3>1 DEF HoldInv
  <2>4. QED
    BY <2>2, <2>3, CyclesStep DEF HoldInv
<1>5. Create => UNCHANGED <<now, run, obs>>
  BY DEF Create, Prepare, Insert, UpdatePolicy
<1>6. Close => UNCHANGED <<now, run, obs>>
  BY DEF Close, CloseByHand, CloseAndArchive, AutoClose
<1>7. QED
  BY <1>2, <1>3, <1>4, <1>5, <1>6 DEF Next, vars

(* A cycle closed when its period was over holds all that its runs observed *)
(* in it, the latest of each finding, however late the runs commit          *)
(* (close_cycle, _snapshot_source_rows, claim_scan, persist_findings).      *)
THEOREM ClosedCyclesComplete == Spec => []ClosedComplete
<1>1. HoldInv => ClosedComplete
  BY DEF HoldInv
<1>2. QED
  BY <1>1, InitHold, NextHold, PTL DEF Spec

-----------------------------------------------------------------------------
(* How cycles lie beside one another under the first policy. *)

(* Cycles and drafts are cells of the grid, and a cell has one cycle.       *)
Gridded(g) ==
    /\ \A c \in cycles : OnGrid(g, c.start, c.end)
    /\ \A c \in Clients : draft[c] # None => OnGrid(g, draft[c].start, draft[c].end)
    /\ \A c, d \in cycles : c.start = d.start => c = d

SteadyInv == TypeInv /\ (policy.version = 1 => Gridded(policy.grid))

(* A step that adds new cells, one cycle for each.                          *)
LEMMA ReshapeGridded ==
    ASSUME TypeOK, NEW g, Gridded(g), NEW K, NEW N, NEW reason, Reshape(K, reason, N),
           \A c \in Clients : draft'[c] # None =>
               OnGrid(g, draft'[c].start, draft'[c].end),
           \A d \in N : OnGrid(g, d.start, d.end),
           \A d \in N : \A c \in cycles : d.start # c.start,
           \A d, e \in N : d.start = e.start => d = e
    PROVE  Gridded(g)'
<1>1. /\ cycles' = (cycles \ K) \cup {Closed(c, reason) : c \in K} \cup N
      /\ K \subseteq cycles /\ cycles \subseteq Cycle
  BY DEF Reshape, TypeOK
<1>2. \A k \in K : /\ Closed(k, reason).start = k.start
                  /\ Closed(k, reason).end = k.end
  BY <1>1, ClosedType DEF Reshape
<1>3. \A c \in cycles' : OnGrid(g, c.start, c.end)
  <2> SUFFICES ASSUME NEW c \in cycles' PROVE OnGrid(g, c.start, c.end)
    OBVIOUS
  <2>1. CASE c \in cycles \cup N
    BY <2>1 DEF Gridded
  <2>2. ASSUME NEW k \in K, c = Closed(k, reason) PROVE OnGrid(g, c.start, c.end)
    BY <1>1, <1>2, <2>2 DEF Gridded
  <2>3. QED
    BY <1>1, <2>1, <2>2
<1>4. ASSUME NEW c \in cycles', NEW d \in cycles', c.start = d.start PROVE c = d
  <2>1. \A x \in cycles' : \/ x \in N
                          \/ x \in cycles \ K
                          \/ \E k \in K : x = Closed(k, reason) /\ x.start = k.start
    BY <1>1, <1>2
  <2>2. \A x \in cycles' : x \in N \/ \E y \in cycles : x.start = y.start
    BY <1>1, <2>1
  <2>3. CASE c \in N \/ d \in N
    BY <1>4, <2>2, <2>3
  <2>4. CASE c \notin N /\ d \notin N
    BY <1>1, <1>4, <2>1, <2>4 DEF Gridded
  <2>5. QED
    BY <2>3, <2>4
<1>5. QED
  BY <1>3, <1>4 DEF Gridded

(* The insertion of what was checked before: another may have made the same *)
(* cycle since, then nothing is added (the unique period).                  *)
LEMMA InsertGridded ==
    ASSUME TypeInv, policy.version = 1, Gridded(policy.grid),
           NEW c \in Clients, Insert(c)
    PROVE  Gridded(policy.grid)'
<1> DEFINE d == draft[c]
           same == {x \in cycles : x.start = d.start /\ x.end = d.end}
           new == Open(d.start, d.end, d.version)
<1>1. /\ cycles' = IF same # {} THEN cycles ELSE cycles \cup {new}
      /\ draft' = [draft EXCEPT ![c] = None] /\ policy' = policy /\ d # None
  BY DEF Insert
<1>2. \A b \in Clients : draft'[b] # None => draft'[b] = draft[b]
  BY <1>1 DEF TypeInv, TypeOK
<1>3. new.start = d.start /\ new.end = d.end
  BY DEF Open
<1>4. OnGrid(policy.grid, d.start, d.end)
  BY <1>1 DEF Gridded
<1>5. \A x \in cycles : x.start = d.start => x.end = d.end
  BY <1>4 DEF Gridded, OnGrid, Cell
<1>6. CASE same # {}
  BY <1>1, <1>2, <1>6 DEF Gridded
<1>7. CASE same = {}
  <2>1. \A x \in cycles : x.start # d.start
    BY <1>5, <1>7
  <2>2. cycles' = cycles \cup {new}
    BY <1>1, <1>7
  <2> HIDE DEF new, d
  <2>3. \A x \in cycles' : OnGrid(policy.grid, x.start, x.end)
    BY <1>3, <1>4, <2>2 DEF Gridded
  <2>4. \A x, y \in cycles' : x.start = y.start => x = y
    BY <1>3, <2>1, <2>2 DEF Gridded
  <2>5. QED
    BY <1>1, <1>2, <2>3, <2>4 DEF Gridded
<1>8. QED
  BY <1>6, <1>7

(* The cell that follows a cycle is free, or nothing is added.              *)
LEMMA ClosesGridded ==
    ASSUME TypeInv, Gridded(policy.grid), Closes, UNCHANGED <<policy, draft>>
    PROVE  Gridded(policy.grid)'
<1> DEFINE g == policy.grid
<1>1. PICK K, N, reason : /\ Reshape(K, reason, N)
                          /\ N \subseteq UNION {NextOf(c) : c \in cycles}
  BY DEF Closes
<1>2. cycles \subseteq Cycle
  BY DEF TypeInv, TypeOK
<1>3. ASSUME NEW d \in N
      PROVE  /\ OnGrid(g, d.start, d.end) /\ d.end = d.start + g.length
             /\ \A x \in cycles : d.start # x.start
             /\ d = Open(d.start, d.end, policy.version)
  <2>1. PICK c \in cycles : d \in NextOf(c)
    BY <1>1
  <2>2. /\ d.start = c.end /\ d = Open(d.start, d.end, policy.version)
        /\ \A x \in cycles : x.start # c.end
        /\ d.end = End(g, c.end) \/ d.end = c.end + g.length
    BY <1>2, <2>1, NextOfType DEF TypeInv
  <2>3. OnGrid(g, c.start, c.end) /\ c.start \in Int /\ c.end \in Int
    BY <1>2 DEF Gridded, Cycle
  <2>4. OnGrid(g, c.end, c.end + g.length) /\ End(g, c.end) = c.end + g.length
    BY <2>3, GridType, NextOnGrid DEF TypeInv
  <2>5. QED
    BY <2>2, <2>4
<1>4. \A d, e \in N : d.start = e.start => d = e
  BY <1>3
<1>5. Gridded(g)' = Gridded(policy.grid)'
  OBVIOUS
<1>6. policy.grid' = policy.grid /\ \A c \in Clients : draft'[c] = draft[c]
  OBVIOUS
<1>7. QED
  BY <1>1, <1>3, <1>4, <1>6, ReshapeGridded DEF Gridded, TypeInv

LEMMA InitSteady == Init => SteadyInv
<1> SUFFICES ASSUME Init PROVE SteadyInv
  OBVIOUS
<1>1. cycles = {} /\ \A c \in Clients : draft[c] = None
  BY DEF Init
<1>2. QED
  BY <1>1, InitType DEF SteadyInv, Gridded

LEMMA NextSteady == SteadyInv /\ [Next]_vars => SteadyInv'
<1> SUFFICES ASSUME SteadyInv, [Next]_vars PROVE SteadyInv'
  OBVIOUS
<1>1. TypeInv /\ TypeInv'
  BY NextType DEF SteadyInv
<1>2. SUFFICES ASSUME policy'.version = 1 PROVE Gridded(policy.grid)'
  BY <1>1 DEF SteadyInv
<1>3. CASE UNCHANGED <<policy, cycles, draft>>
  BY <1>2, <1>3 DEF SteadyInv, Gridded
<1>4. ASSUME NEW c \in Clients, Prepare(c) PROVE Gridded(policy.grid)'
  <2> DEFINE d == [start |-> Start(policy.grid, now), end |-> End(policy.grid, now),
                   version |-> policy.version]
  <2>1. draft' = [draft EXCEPT ![c] = d] /\ UNCHANGED <<policy, cycles>>
    BY <1>4 DEF Prepare
  <2>2. OnGrid(policy.grid, d.start, d.end)
    BY <1>1, GridType, NowType, BoundsOnGrid DEF TypeInv
  <2> HIDE DEF d
  <2>3. \A b \in Clients : draft'[b] = IF b = c THEN d ELSE draft[b]
    BY <1>1, <2>1 DEF TypeInv, TypeOK
  <2>4. QED
    BY <1>2, <2>1, <2>2, <2>3 DEF SteadyInv, Gridded
<1>5. ASSUME NEW c \in Clients, Insert(c) PROVE Gridded(policy.grid)'
  BY <1>1, <1>2, <1>5, InsertGridded DEF SteadyInv, Insert
<1>6. ASSUME NEW grid \in Grids, NEW automatic \in BOOLEAN,
             UpdatePolicy(grid, automatic)
      PROVE  FALSE
  <2>1. policy'.version = policy.version + 1
    BY <1>6 DEF UpdatePolicy
  <2>2. policy.version \in Nat \ {0}
    BY <1>1, GridType, CyclesAssumption DEF TypeInv
  <2>3. QED
    BY <1>2, <2>1, <2>2
<1>7. CASE Close
  <2>1. Closes
    BY <1>1, <1>7, HandReshapes, ArchiveReshapes, AutoReshapes DEF Close
  <2>2. UNCHANGED <<policy, draft>>
    BY <1>7 DEF Close, CloseByHand, CloseAndArchive, AutoClose
  <2>3. QED
    BY <1>1, <1>2, <2>1, <2>2, ClosesGridded DEF SteadyInv
<1>8. Tick \/ Collect \/ UNCHANGED vars => UNCHANGED <<policy, cycles, draft>>
  BY DEF Tick, Collect, Claim, Persist, Fail, vars
<1>9. QED
  BY <1>3, <1>4, <1>5, <1>6, <1>7, <1>8 DEF Next, Create

(* Until the policy changes no two cycles cover one moment, although those  *)
(* who create them check for others without a lock (get_or_create_cycle_for,*)
(* create_cycle, ensure_next_cycle): they all make cells of one grid, and a *)
(* cell is unique.                                                          *)
THEOREM SteadyCyclesDisjoint == Spec => []SteadyDisjoint
<1>1. SteadyInv => SteadyDisjoint
  <2> SUFFICES ASSUME SteadyInv, policy.version = 1, NEW c \in cycles, NEW d \in cycles,
                      Overlap(c, d)
               PROVE  c = d
    BY DEF SteadyDisjoint
  <2>1. c.start \in Int /\ c.end \in Int /\ d.start \in Int /\ d.end \in Int
    BY DEF SteadyInv, TypeInv, TypeOK, Cycle
  <2>2. OnGrid(policy.grid, c.start, c.end) /\ OnGrid(policy.grid, d.start, d.end)
    BY DEF SteadyInv, Gridded
  <2>3. c.start = d.start
    BY <2>1, <2>2, GridType, CellsApart DEF SteadyInv, TypeInv, Overlap
  <2>4. QED
    BY <2>3 DEF SteadyInv, Gridded
<1>2. QED
  BY <1>1, InitSteady, NextSteady, PTL DEF Spec

-----------------------------------------------------------------------------
(* The history (CyclesContract).                                            *)

(* A period has one cycle, open or closed (uq_..._period and the checks of  *)
(* ensure_next_cycle and of a new policy).                                  *)
OnePeriod == \A c, d \in cycles : Period(c) = Period(d) => c = d

(* What the refinement shows of the cycles. *)
OpenPeriods == {Period(c) : c \in {x \in cycles : x.reason = "OPEN"}}
Records == {[period |-> Period(c), record |-> c] : c \in {x \in cycles : x.reason # "OPEN"}}

(* Where the cycles after a closing come from.                              *)
LEMMA ReshapeFrom ==
    ASSUME TypeInv, NEW K, NEW N, NEW reason, Reshape(K, reason, N)
    PROVE  /\ K \subseteq cycles /\ \A c \in K : c.reason = "OPEN"
           /\ \A c \in K : /\ Closed(c, reason).reason # "OPEN"
                          /\ Period(Closed(c, reason)) = Period(c)
           /\ \A d \in N : d.reason = "OPEN"
           /\ Fresh(N)
           /\ cycles' = (cycles \ K) \cup {Closed(c, reason) : c \in K} \cup N
<1>1. \A c \in K : c \in Cycle
  BY DEF Reshape, TypeInv, TypeOK
<1>2. \A c \in K : /\ Closed(c, reason).reason = reason /\ reason # "OPEN"
                  /\ Period(Closed(c, reason)) = Period(c)
  BY <1>1, ClosedType DEF Reshape, TypeInv, Period
<1>3. QED
  BY <1>2 DEF Reshape, MayClose

(* Closing keeps the period of a cycle, and what is added has its own.      *)
LEMMA NextPeriod == TypeInv /\ OnePeriod /\ [Next]_vars => OnePeriod'
<1> SUFFICES ASSUME TypeInv, OnePeriod, [Next]_vars PROVE OnePeriod'
  OBVIOUS
<1>1. CASE UNCHANGED cycles
  BY <1>1 DEF OnePeriod
<1>2. ASSUME NEW K, NEW N, NEW reason, Reshape(K, reason, N)
      PROVE  OnePeriod'
  <2>1. /\ K \subseteq cycles
        /\ \A c \in K : Period(Closed(c, reason)) = Period(c)
        /\ cycles' = (cycles \ K) \cup {Closed(c, reason) : c \in K} \cup N
    BY <1>2, ReshapeFrom
  <2>2. /\ \A d \in N : \A c \in cycles : Period(c) # Period(d)
        /\ \A c, d \in N : Period(c) = Period(d) => c = d
    BY <1>2, ReshapeFrom DEF Fresh
  <2>3. ASSUME NEW x \in cycles', x \notin N
        PROVE  \E c \in cycles : /\ Period(c) = Period(x)
                               /\ x = IF c \in K THEN Closed(c, reason) ELSE c
    BY <2>1, <2>3
  <2>4. ASSUME NEW x \in cycles', NEW y \in cycles', Period(x) = Period(y)
        PROVE  x = y
    <3>1. CASE x \in N /\ y \in N
      BY <2>2, <2>4, <3>1
    <3>2. CASE x \in N /\ y \notin N
      BY <2>2, <2>3, <2>4, <3>2
    <3>3. CASE x \notin N /\ y \in N
      BY <2>2, <2>3, <2>4, <3>3
    <3>4. CASE x \notin N /\ y \notin N
      <4>1. PICK c \in cycles : /\ Period(c) = Period(x)
                               /\ x = IF c \in K THEN Closed(c, reason) ELSE c
        BY <2>3, <3>4
      <4>2. PICK d \in cycles : /\ Period(d) = Period(y)
                               /\ y = IF d \in K THEN Closed(d, reason) ELSE d
        BY <2>3, <3>4
      <4>3. c = d
        BY <2>4, <4>1, <4>2 DEF OnePeriod
      <4>4. QED
        BY <4>1, <4>2, <4>3
    <3>5. QED
      BY <3>1, <3>2, <3>3, <3>4
  <2>5. QED
    BY <2>4 DEF OnePeriod, Period
<1>3. QED
  BY <1>1, <1>2, CyclesStep DEF Reshaped

(* A closing moves the periods of what it closes from the open ones to the  *)
(* records, and disturbs no record.                                         *)
LEMMA ReshapeIsHistory ==
    ASSUME TypeInv, OnePeriod, NEW K, NEW N, NEW reason, Reshape(K, reason, N)
    PROVE  History!Next
<1> DEFINE ended == {Period(c) : c \in K}
           Rec(c) == [period |-> Period(c), record |-> c]
<1>1. /\ K \subseteq cycles /\ \A c \in K : c.reason = "OPEN"
      /\ \A c \in K : /\ Closed(c, reason).reason # "OPEN"
                     /\ Period(Closed(c, reason)) = Period(c)
      /\ \A d \in N : d.reason = "OPEN"
      /\ cycles' = (cycles \ K) \cup {Closed(c, reason) : c \in K} \cup N
  BY ReshapeFrom
<1>2. /\ \A d \in N : \A c \in cycles : Period(c) # Period(d)
      /\ \A c, d \in N : Period(c) = Period(d) => c = d
  BY ReshapeFrom DEF Fresh
<1>3. \A r : r \in Records <=> \E c \in cycles : c.reason # "OPEN" /\ r = Rec(c)
  BY DEF Records
<1>4. \A r : r \in Records' <=> \E c \in cycles' : c.reason # "OPEN" /\ r = Rec(c)
  BY DEF Records, Period
<1>5. \A q : q \in OpenPeriods <=> \E c \in cycles : c.reason = "OPEN" /\ q = Period(c)
  BY DEF OpenPeriods
<1>6. \A q : q \in OpenPeriods' <=> \E c \in cycles' : c.reason = "OPEN" /\ q = Period(c)
  BY DEF OpenPeriods, Period
<1>7. ended \subseteq OpenPeriods
  BY <1>1, <1>5
<1>8. Records \subseteq Records'
  <2>1. \A c \in cycles : c.reason # "OPEN" => c \in cycles'
    BY <1>1
  <2>2. QED
    BY <1>3, <1>4, <2>1
<1>9. \A r \in Records' \ Records : \E c \in K : r = Rec(Closed(c, reason))
  <2>1. \A c \in cycles' : c.reason # "OPEN" =>
           c \in cycles \/ \E d \in K : c = Closed(d, reason)
    BY <1>1
  <2>2. QED
    BY <1>3, <1>4, <2>1
<1>10. \A c \in K : Rec(Closed(c, reason)) \in Records' \ Records
  <2>1. ASSUME NEW c \in K PROVE Rec(Closed(c, reason)) \in Records'
    BY <1>1, <1>4
  <2>2. ASSUME NEW c \in K, Rec(Closed(c, reason)) \in Records PROVE FALSE
    <3>1. PICK x \in cycles : x.reason # "OPEN" /\ Rec(Closed(c, reason)) = Rec(x)
      BY <1>3, <2>2
    <3>2. Period(x) = Period(c)
      BY <1>1, <3>1
    <3>3. x = c
      BY <1>1, <3>2 DEF OnePeriod
    <3>4. QED
      BY <1>1, <3>1, <3>3
  <2>3. QED
    BY <2>1, <2>2
<1>11. \A c \in K : Rec(Closed(c, reason)).period = Period(c)
  BY <1>1
<1> HIDE DEF Rec
<1>12. {r.period : r \in Records' \ Records} = ended
  <2>1. \A r \in Records' \ Records : r.period \in ended
    BY <1>9, <1>11
  <2>2. \A q \in ended : \E r \in Records' \ Records : q = r.period
    BY <1>10, <1>11
  <2>3. QED
    BY <2>1, <2>2
<1>13. \A r, s \in Records' \ Records : r.period = s.period => r = s
  <2>1. ASSUME NEW r \in Records' \ Records, NEW s \in Records' \ Records,
               r.period = s.period
        PROVE  r = s
    <3>1. PICK c \in K : r = Rec(Closed(c, reason))
      BY <1>9
    <3>2. PICK d \in K : s = Rec(Closed(d, reason))
      BY <1>9
    <3>3. Period(c) = Period(d)
      BY <1>11, <2>1, <3>1, <3>2
    <3>4. c = d
      BY <1>1, <3>3 DEF OnePeriod
    <3>5. QED
      BY <3>1, <3>2, <3>4
  <2>2. QED
    BY <2>1
<1>14. \A x \in cycles' : x.reason = "OPEN" => x \in cycles \ K \/ x \in N
  BY <1>1
<1>15. ended \cap OpenPeriods' = {}
  <2>1. ASSUME NEW c \in K, NEW x \in cycles', x.reason = "OPEN", Period(x) = Period(c)
        PROVE  FALSE
    <3>1. CASE x \in cycles \ K
      BY <1>1, <2>1, <3>1 DEF OnePeriod
    <3>2. CASE x \in N
      BY <1>1, <1>2, <2>1, <3>2
    <3>3. QED
      BY <1>14, <2>1, <3>1, <3>2
  <2>2. QED
    BY <1>6, <2>1
<1>16. OpenPeriods \ ended \subseteq OpenPeriods'
  <2>1. \A c \in cycles : c \in K \/ c \in cycles'
    BY <1>1
  <2>2. QED
    BY <1>5, <1>6, <2>1
<1>17. \A q \in OpenPeriods' : q \in OpenPeriods \/ \A r \in Records : r.period # q
  <2>1. ASSUME NEW x \in N, NEW r \in Records PROVE r.period # Period(x)
    <3>1. PICK c \in cycles : r = Rec(c)
      BY <1>3
    <3>2. r.period = Period(c)
      BY <3>1 DEF Rec
    <3>3. QED
      BY <1>2, <3>2
  <2>2. QED
    BY <1>5, <1>6, <1>14, <2>1
<1> HIDE DEF ended
<1>18. QED
  BY <1>7, <1>8, <1>12, <1>13, <1>15, <1>16, <1>17 DEF History!Next, OpenPeriods, Records

(* Snapshots are append-only, and a cycle that is closed is not edited or   *)
(* opened again, whatever the requests, the schedule and the administrator  *)
(* do to the cycles around it (close_cycle, ensure_next_cycle,              *)
(* auto_close_due_cycles; opportunity-history-cycles.md:58).                *)
THEOREM HistoryImplemented == Spec => ImplementsHistory
<1>1. Init => History!Init /\ OnePeriod
  BY DEF Init, History!Init, OnePeriod
<1>2. TypeInv /\ OnePeriod /\ [Next]_vars => [History!Next]_History!vars
  <2>1. ASSUME cycles' = cycles PROVE UNCHANGED History!vars
    BY <2>1 DEF History!vars, Period
  <2>2. QED
    BY <2>1, CyclesStep, ReshapeIsHistory DEF Reshaped
<1>3. QED
  BY <1>1, <1>2, NextPeriod, TypeInvariant, PTL DEF Spec, ImplementsHistory, History!Spec

=============================================================================
