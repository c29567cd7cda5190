--------------------------- MODULE InventoryPresence ---------------------------
(***************************************************************************)
(* The current state of discovered resources (inventory_persistence.py),   *)
(* as the executions of collections write it. A collection asks the        *)
(* provider, reads the current rows without a lock, changes its copies and *)
(* writes what it changed when it commits. Two collections of one account  *)
(* can be at work when one of them was taken for stale and is not.         *)
(***************************************************************************)
EXTENDS Integers, FiniteSets

CONSTANTS
    Items,          \* resources of one account, by type and identifier
    Scopes,         \* resource type and region
    ScopeOf,        \* the scope of a resource
    Collections     \* the CollectionRuns of the account

ASSUME InventoryAssumption ==
    /\ ScopeOf \in [Items -> Scopes]
    /\ IsFiniteSet(Collections)

VARIABLES
    collection,     \* collection[c]: the run, what it saw and what it read
    inventory,      \* inventory[x]: the InventoryResource row
    disorder        \* "overlap": a read while another's was not yet written,
                    \* "delay": a commit after that of a run started later

inventoryVars == <<collection, inventory, disorder>>

Times == 1..Cardinality(Collections)

(* 0 in a time: there is no row. *)
Item == [presence : {"absent", "active", "missing"}, firstSeen : Times \cup {0},
         lastSeen : Times \cup {0}]

Evidence == {"COMPLETE", "INCOMPLETE"}

Collection ==
    [step : {"waiting", "started", "discovered", "read", "done", "failed"},
     startedAt : Times \cup {0}, saw : SUBSET Items,
     evidence : [Scopes -> SUBSET Evidence], rows : [Items -> Item]]

InventoryTypeOK ==
    /\ collection \in [Collections -> Collection]
    /\ inventory \in [Items -> Item]
    /\ disorder \subseteq {"overlap", "delay"}

NoRows == [x \in Items |-> [presence |-> "absent", firstSeen |-> 0, lastSeen |-> 0]]

InventoryInit ==
    /\ inventory = NoRows
    /\ collection = [c \in Collections |->
          [step |-> "waiting", startedAt |-> 0, saw |-> {},
           evidence |-> [s \in Scopes |-> {}], rows |-> NoRows]]
    /\ disorder = {}

InStep(steps) == {c \in Collections : collection[c].step \in steps}

(* claim_scan: the run's started_at is the time of its observations.        *)
StartCollection(c) ==
    /\ collection[c].step = "waiting"
    /\ collection' = [collection EXCEPT
          ![c].step = "started",
          ![c].startedAt = Cardinality(Collections \ InStep({"waiting"})) + 1]
    /\ UNCHANGED <<inventory, disorder>>

(* The provider's answers: what was seen, and for every scope the statuses  *)
(* of its pieces of evidence, none when it was not asked.                   *)
Discover(c) ==
    /\ collection[c].step = "started"
    /\ \E saw \in SUBSET Items, evidence \in [Scopes -> SUBSET Evidence] :
          collection' = [collection EXCEPT ![c].step = "discovered", ![c].saw = saw,
                                           ![c].evidence = evidence]
    /\ UNCHANGED <<inventory, disorder>>

(* Both selects of the current rows.                                        *)
ReadRows(c) ==
    /\ collection[c].step = "discovered"
    /\ collection' = [collection EXCEPT ![c].step = "read", ![c].rows = inventory]
    /\ disorder' = IF InStep({"read"}) = {} THEN disorder ELSE disorder \cup {"overlap"}
    /\ UNCHANGED inventory

(* Mutant: one complete piece of evidence makes the scope complete. *)
MutantConclusive(c, x) == "COMPLETE" \in collection[c].evidence[ScopeOf[x]]

(* complete_scopes. *)
Conclusive(c, x) == collection[c].evidence[ScopeOf[x]] = {"COMPLETE"}

(* persist_observations: the row of a resource the run saw. *)
Observed(c, x) ==
    LET now == collection[c].startedAt
        row == collection[c].rows[x]
    IN  IF row.presence = "absent"
        THEN [presence |-> "active", firstSeen |-> now, lastSeen |-> now]
        ELSE IF now >= row.lastSeen
             THEN [row EXCEPT !.presence = "active", !.lastSeen = now]
             ELSE row

(* reconcile_complete_scopes: the row of a resource it did not see. *)
Unseen(c, x) ==
    LET row == collection[c].rows[x]
    IN  IF /\ row.presence = "active" /\ Conclusive(c, x)
           /\ row.lastSeen <= collection[c].startedAt
        THEN [row EXCEPT !.presence = "missing"]
        ELSE row

Rewritten(c, x) == IF x \in collection[c].saw THEN Observed(c, x) ELSE Unseen(c, x)

(* The mapper writes the columns that differ from what was read. *)
Merged(c, x) ==
    LET Column(old, new, now) == IF new = old THEN now ELSE new
        read == collection[c].rows[x]
        row == Rewritten(c, x)
    IN  [presence |-> Column(read.presence, row.presence, inventory[x].presence),
         firstSeen |-> Column(read.firstSeen, row.firstSeen, inventory[x].firstSeen),
         lastSeen |-> Column(read.lastSeen, row.lastSeen, inventory[x].lastSeen)]

(* A row the run adds is there already: uq_inventory_resources_identity. *)
Clash(c) ==
    \E x \in collection[c].saw :
        collection[c].rows[x].presence = "absent" /\ inventory[x].presence # "absent"

(* The commit at the end of execute_scan. *)
CommitCollection(c) ==
    /\ collection[c].step = "read" /\ ~Clash(c)
    /\ inventory' = [x \in Items |-> Merged(c, x)]
    /\ collection' = [collection EXCEPT ![c].step = "done", ![c].rows = NoRows]
    /\ disorder' = IF \E d \in InStep({"done"}) :
                         collection[d].startedAt > collection[c].startedAt
                   THEN disorder \cup {"delay"} ELSE disorder

(* An error on the way, or a worker that dies: nothing was committed.       *)
FailCollection(c) ==
    /\ collection[c].step \in {"started", "discovered", "read"}
    /\ collection' = [collection EXCEPT ![c].step = "failed", ![c].rows = NoRows]
    /\ UNCHANGED <<inventory, disorder>>

InventoryNext ==
    \E c \in Collections :
        \/ StartCollection(c) \/ Discover(c) \/ ReadRows(c)
        \/ CommitCollection(c) \/ FailCollection(c)

InventorySpec == InventoryInit /\ [][InventoryNext]_inventoryVars

-----------------------------------------------------------------------------
(* Properties. *)

Saw(x) == {c \in InStep({"done"}) : x \in collection[c].saw}
Missed(x) ==
    {c \in InStep({"done"}) :
        x \notin collection[c].saw /\ collection[c].evidence[ScopeOf[x]] = {"COMPLETE"}}
StartsOf(C) == {collection[c].startedAt : c \in C}

(* A resource is only missing when a committed collection covered its whole *)
(* scope and did not see it, and is only known at all from collections that *)
(* saw it, whatever ran side by side (reconcile_complete_scopes).           *)
MissingIsProven ==
    \A x \in Items :
        /\ inventory[x].presence = "missing" => Missed(x) # {}
        /\ inventory[x].presence # "absent" =>
              {inventory[x].firstSeen, inventory[x].lastSeen} \subseteq StartsOf(Saw(x))

(* As long as no two collections persist side by side, the last observation *)
(* is the latest one in the order of starts, however late its collection    *)
(* commits, and no collection that began before it can hide the resource;   *)
(* when they commit in that order too, presence is what the newest          *)
(* conclusive collection says (_apply_current_state, :203 and :302).        *)
SerialInventoryIsExact ==
    "overlap" \notin disorder =>
        \A x \in Items :
            LET row == inventory[x] IN
            /\ (row.presence = "absent") <=> (Saw(x) = {})
            /\ Saw(x) # {} => \A t \in StartsOf(Saw(x)) : t <= row.lastSeen
            /\ row.presence = "missing" => \E t \in StartsOf(Missed(x)) : t > row.lastSeen
            /\ "delay" \notin disorder /\ Saw(x) # {} =>
                  /\ \A t \in StartsOf(Saw(x)) : row.firstSeen <= t
                  /\ (row.presence = "missing") <=>
                        \E t \in StartsOf(Missed(x)) : t > row.lastSeen

(* Both: what overlapping, late, failed and partial collections leave is    *)
(* always proven, and exact where they persist one after the other.         *)
InventoryIsProven == MissingIsProven /\ SerialInventoryIsExact

(* A delayed collection does not roll back the presence a later one         *)
(* concluded; said by the comment at inventory_persistence.py:200-202, and  *)
(* not so: only sightings are ordered, conclusions of absence are not.      *)
DelayKeepsPresence ==
    [][\A c \in Collections, x \in Items :
          /\ collection[c].step = "read" /\ collection'[c].step = "done"
          /\ "overlap" \notin disorder /\ inventory[x].presence = "missing"
          /\ \E d \in Missed(x) : collection[d].startedAt > collection[c].startedAt
          => inventory'[x].presence = "missing"]_inventoryVars

=============================================================================
