--------------------------- MODULE Collections_proofs ---------------------------
(***************************************************************************)
(* Proofs about what collections leave behind: the presence of resources,  *)
(* the state of the connection they went through, the findings they declare*)
(* present and absent, and the row the dashboard is shown of an account.   *)
(* They hold for any number of resources, collections and requests, however*)
(* they overlap.                                                           *)
(***************************************************************************)
EXTENDS InventoryPresence, AccountSummary, CloudAccounts, AwsCollection, OciCollection,
        FiniteSetTheorems, SequenceTheorems, WellFoundedInduction, TLAPS

-----------------------------------------------------------------------------
(* The presence of resources (InventoryPresence). *)

(* The collections that have begun.                                         *)
Begun == Collections \ InStep({"waiting"})

(* No two collections began at the same time.                               *)
StartsDiffer ==
    /\ \A c \in Begun : collection[c].startedAt \in 1..Cardinality(Begun)
    /\ \A c, d \in Begun : collection[c].startedAt = collection[d].startedAt => c = d

(* Rows are never removed, and what a collection has read of one was there. *)
RowsStay ==
    \A x \in Items :
        /\ inventory[x].presence = "absent" =>
              inventory[x].firstSeen = 0 /\ inventory[x].lastSeen = 0
        /\ \A c \in InStep({"read"}) :
              LET read == collection[c].rows[x] IN
              /\ read.presence = "absent" => read.firstSeen = 0 /\ read.lastSeen = 0
              /\ read.presence # "absent" => inventory[x].presence # "absent"

(* While nobody read beside another, what was read is what is there.        *)
ReadIsCurrent ==
    "overlap" \notin disorder =>
        \A c \in InStep({"read"}) :
            /\ collection[c].rows = inventory
            /\ \A d \in InStep({"read"}) : d = c

(* What holds of the inventory whatever collections do to it.               *)
InventoryInv ==
    /\ InventoryTypeOK /\ StartsDiffer /\ RowsStay /\ ReadIsCurrent
    /\ MissingIsProven /\ SerialInventoryIsExact

(* An inventory of which nothing is known.                                  *)
LEMMA InventoryBegins == InventoryInit => InventoryInv
<1> SUFFICES ASSUME InventoryInit PROVE InventoryInv
    OBVIOUS
<1> USE InventoryAssumption
<1>1. \A x \in Items : /\ inventory[x] \in Item /\ inventory[x].presence = "absent"
                       /\ inventory[x].firstSeen = 0 /\ inventory[x].lastSeen = 0
    BY DEF InventoryInit, NoRows, Item, Times
<1>2. \A c \in Collections : collection[c].step = "waiting"
    BY DEF InventoryInit
<1>3. InventoryTypeOK
    <2>1. NoRows \in [Items -> Item] /\ inventory \in [Items -> Item]
        BY <1>1 DEF InventoryInit, NoRows
    <2>2. ASSUME NEW c \in Collections PROVE collection[c] \in Collection
        <3>1. [s \in Scopes |-> {}] \in [Scopes -> SUBSET Evidence]
            OBVIOUS
        <3> QED BY <2>1, <3>1 DEF InventoryInit, Collection
    <2>3. collection = [c \in Collections |-> collection[c]]
        BY DEF InventoryInit
    <2> QED BY <2>1, <2>2, <2>3 DEF InventoryInit, InventoryTypeOK
<1>4. \A steps : "waiting" \notin steps => InStep(steps) = {}
    BY <1>2 DEF InStep
<1>5. Begun = {}
    BY <1>2 DEF Begun, InStep
<1>6. StartsDiffer /\ RowsStay /\ ReadIsCurrent
    BY <1>1, <1>4, <1>5 DEF StartsDiffer, RowsStay, ReadIsCurrent
<1>7. \A x \in Items : Saw(x) = {} /\ Missed(x) = {}
    BY <1>4 DEF Saw, Missed
<1>8. MissingIsProven /\ SerialInventoryIsExact
    BY <1>1, <1>7 DEF MissingIsProven, SerialInventoryIsExact
<1> QED BY <1>3, <1>6, <1>8 DEF InventoryInv

(* Steps before a commit change neither the rows nor what was committed.    *)
LEMMA NothingCommitted ==
    ASSUME InventoryInv, NEW c \in Collections, NEW new \in Collection,
           collection' = [collection EXCEPT ![c] = new],
           collection[c].step # "done", new.step # "done",
           UNCHANGED inventory, disorder \subseteq disorder'
    PROVE  MissingIsProven' /\ SerialInventoryIsExact'
<1>1. collection'[c] = new /\ \A d \in Collections : d # c => collection'[d] = collection[d]
    BY DEF InventoryInv, InventoryTypeOK
<1>2. \A d \in InStep({"done"})' \cup InStep({"done"}) : d # c /\ d \in Collections
    BY <1>1 DEF InStep
<1>3. ASSUME NEW x \in Items PROVE Saw(x)' = Saw(x) /\ Missed(x)' = Missed(x)
    BY <1>1, <1>2 DEF Saw, Missed, InStep
<1>4. ASSUME NEW C, C \subseteq InStep({"done"})
      PROVE  {collection'[d].startedAt : d \in C} = StartsOf(C)
    BY <1>1, <1>2, <1>4 DEF StartsOf
<1>5. ASSUME NEW x \in Items
      PROVE  StartsOf(Saw(x))' = StartsOf(Saw(x)) /\ StartsOf(Missed(x))' = StartsOf(Missed(x))
    <2>1. Saw(x) \subseteq InStep({"done"}) /\ Missed(x) \subseteq InStep({"done"})
        BY DEF Saw, Missed
    <2> QED BY <1>3, <1>4, <2>1 DEF StartsOf
<1>6. MissingIsProven'
    BY <1>3, <1>5 DEF InventoryInv, MissingIsProven
<1>7. SerialInventoryIsExact'
    BY <1>3, <1>5 DEF InventoryInv, SerialInventoryIsExact
<1> QED BY <1>6, <1>7

(* What a commit makes of a row.                                            *)
SeenFirst(c, x) ==
    LET now == collection[c].startedAt IN
    /\ x \in collection[c].saw /\ inventory[x].presence = "absent"
    /\ Merged(c, x).presence = "active"
    /\ Merged(c, x).firstSeen = now /\ Merged(c, x).lastSeen = now

(* The collection sees a resource again.                                    *)
SeenAgain(c, x) ==
    LET now == collection[c].startedAt
        read == collection[c].rows[x]
    IN  /\ x \in collection[c].saw /\ inventory[x].presence # "absent"
        /\ read.lastSeen <= now
        /\ Merged(c, x).presence \in {"active", inventory[x].presence}
        /\ Merged(c, x).firstSeen = inventory[x].firstSeen
        /\ Merged(c, x).lastSeen \in {inventory[x].lastSeen, now}
        /\ read = inventory[x] => /\ Merged(c, x).presence = "active"
                                  /\ Merged(c, x).lastSeen = now

(* The collection concludes the absence of a resource it read as active.    *)
Hidden(c, x) ==
    LET now == collection[c].startedAt
        read == collection[c].rows[x]
    IN  /\ x \notin collection[c].saw /\ Conclusive(c, x)
        /\ read.presence = "active" /\ inventory[x].presence # "absent"
        /\ read.lastSeen <= now
        /\ Merged(c, x).presence = "missing"
        /\ Merged(c, x).firstSeen = inventory[x].firstSeen
        /\ Merged(c, x).lastSeen = inventory[x].lastSeen

(* The collection has nothing to say of a resource.                         *)
LeftAlone(c, x) ==
    LET now == collection[c].startedAt
        read == collection[c].rows[x]
    IN  /\ Merged(c, x).presence = inventory[x].presence
        /\ Merged(c, x).firstSeen = inventory[x].firstSeen
        /\ Merged(c, x).lastSeen = inventory[x].lastSeen
        /\ x \in collection[c].saw => inventory[x].presence # "absent" /\ now < read.lastSeen
        /\ x \notin collection[c].saw =>
              ~(read.presence = "active" /\ Conclusive(c, x) /\ read.lastSeen <= now)

(* A commit does one of the four to each resource.                          *)
LEMMA MergedIs ==
    ASSUME InventoryInv, NEW c \in Collections, collection[c].step = "read", ~Clash(c),
           NEW x \in Items
    PROVE  /\ collection[c].startedAt \in Times
           /\ Merged(c, x) \in Item
           /\ SeenFirst(c, x) \/ SeenAgain(c, x) \/ Hidden(c, x) \/ LeftAlone(c, x)
<1> DEFINE now == collection[c].startedAt
           read == collection[c].rows[x]
           cur == inventory[x]
           put == Rewritten(c, x)
           new == Merged(c, x)
<1>1. collection[c] \in Collection /\ cur \in Item
    BY DEF InventoryInv, InventoryTypeOK
<1>2. read \in Item
    BY <1>1 DEF Collection
<1>3. Cardinality(Collections) \in Nat
    BY InventoryAssumption, FS_CardinalityType
<1>4. /\ now \in Times /\ now > 0 /\ now \in Int
      /\ \A t \in Times \cup {0} : t \in Int
    <2>1. c \in Begun
        BY DEF Begun, InStep
    <2>2. now \in 1..Cardinality(Begun) /\ now \in Times \cup {0}
        BY <1>1, <2>1 DEF InventoryInv, StartsDiffer, Collection
    <2> QED BY <1>3, <2>2 DEF Times
<1>5. /\ read.presence \in {"absent", "active", "missing"}
      /\ cur.presence \in {"absent", "active", "missing"}
      /\ read.firstSeen \in Times \cup {0} /\ read.lastSeen \in Times \cup {0}
      /\ cur.firstSeen \in Times \cup {0} /\ cur.lastSeen \in Times \cup {0}
    BY <1>1, <1>2 DEF Item
<1>6. /\ read.presence = "absent" => read.firstSeen = 0 /\ read.lastSeen = 0
      /\ read.presence # "absent" => cur.presence # "absent"
      /\ cur.presence = "absent" => cur.firstSeen = 0 /\ cur.lastSeen = 0
    BY DEF InventoryInv, RowsStay, InStep
<1>7. /\ new.presence = IF put.presence = read.presence THEN cur.presence ELSE put.presence
      /\ new.firstSeen = IF put.firstSeen = read.firstSeen THEN cur.firstSeen ELSE put.firstSeen
      /\ new.lastSeen = IF put.lastSeen = read.lastSeen THEN cur.lastSeen ELSE put.lastSeen
      /\ put \in Item => new \in Item
    <2>1. new = [presence |-> IF put.presence = read.presence THEN cur.presence ELSE put.presence,
                 firstSeen |-> IF put.firstSeen = read.firstSeen THEN cur.firstSeen
                               ELSE put.firstSeen,
                 lastSeen |-> IF put.lastSeen = read.lastSeen THEN cur.lastSeen ELSE put.lastSeen]
        BY DEF Merged
    <2> HIDE DEF new, put
    <2> QED BY <2>1, <1>5 DEF Item
<1>8. CASE x \in collection[c].saw /\ read.presence = "absent"
    <2>1. put = [presence |-> "active", firstSeen |-> now, lastSeen |-> now]
        BY <1>8 DEF Rewritten, Observed
    <2>2. cur.presence = "absent"
        BY <1>8 DEF Clash
    <2>3. /\ put.presence = "active" /\ put.firstSeen = now /\ put.lastSeen = now
          /\ put \in Item
        BY <2>1, <1>4 DEF Item
    <2> HIDE DEF put, new
    <2>4. new.presence = "active" /\ new.firstSeen = now /\ new.lastSeen = now /\ new \in Item
        BY <1>4, <1>6, <1>7, <1>8, <2>2, <2>3
    <2> QED BY <1>4, <1>8, <2>2, <2>4 DEF SeenFirst, new
<1>9. CASE x \in collection[c].saw /\ read.presence # "absent" /\ now >= read.lastSeen
    <2>1. put = [read EXCEPT !.presence = "active", !.lastSeen = now]
        BY <1>9 DEF Rewritten, Observed
    <2>2. /\ put.presence = "active" /\ put.firstSeen = read.firstSeen /\ put.lastSeen = now
          /\ put \in Item
        BY <1>2, <2>1, <1>4 DEF Item
    <2> HIDE DEF put, new
    <2>3. /\ new.presence \in {"active", cur.presence} /\ new.firstSeen = cur.firstSeen
          /\ new.lastSeen \in {cur.lastSeen, now} /\ new \in Item
          /\ read = cur => new.presence = "active" /\ new.lastSeen = now
        BY <1>7, <2>2
    <2> QED BY <1>4, <1>5, <1>6, <1>9, <2>3 DEF SeenAgain, new
<1>10. CASE /\ x \notin collection[c].saw /\ read.presence = "active" /\ Conclusive(c, x)
            /\ read.lastSeen <= now
    <2>1. put = [read EXCEPT !.presence = "missing"]
        BY <1>10 DEF Rewritten, Unseen
    <2>2. /\ put.presence = "missing" /\ put.firstSeen = read.firstSeen
          /\ put.lastSeen = read.lastSeen /\ put \in Item
        BY <1>2, <2>1 DEF Item
    <2> HIDE DEF put, new
    <2>3. /\ new.presence = "missing" /\ new.firstSeen = cur.firstSeen
          /\ new.lastSeen = cur.lastSeen /\ new \in Item
        BY <1>7, <1>10, <2>2
    <2> QED BY <1>4, <1>6, <1>10, <2>3 DEF Hidden, new
<1>11. CASE \/ x \in collection[c].saw /\ read.presence # "absent" /\ ~(now >= read.lastSeen)
            \/ /\ x \notin collection[c].saw
               /\ ~(read.presence = "active" /\ Conclusive(c, x) /\ read.lastSeen <= now)
    <2>1. put = read
        BY <1>11 DEF Rewritten, Observed, Unseen
    <2> HIDE DEF put, new
    <2>2. /\ new.presence = cur.presence /\ new.firstSeen = cur.firstSeen
          /\ new.lastSeen = cur.lastSeen /\ new \in Item
        BY <1>2, <1>7, <2>1
    <2>4. read.lastSeen \in Int
        BY <1>4, <1>5
    <2>3. x \in collection[c].saw => now < read.lastSeen /\ cur.presence # "absent"
        BY <1>4, <1>6, <1>11, <2>4
    <2> QED BY <1>4, <1>11, <2>2, <2>3 DEF LeftAlone, new
<1> QED BY <1>8, <1>9, <1>10, <1>11

(* What a commit adds to what is known.                                     *)
LEMMA CommitAdds ==
    ASSUME InventoryInv, NEW c \in Collections, CommitCollection(c), NEW x \in Items
    PROVE  LET now == collection[c].startedAt IN
           /\ Saw(x)' = IF x \in collection[c].saw THEN Saw(x) \cup {c} ELSE Saw(x)
           /\ Missed(x)' = IF x \notin collection[c].saw /\ Conclusive(c, x)
                           THEN Missed(x) \cup {c} ELSE Missed(x)
           /\ StartsOf(Saw(x))' = IF x \in collection[c].saw THEN StartsOf(Saw(x)) \cup {now}
                                  ELSE StartsOf(Saw(x))
           /\ StartsOf(Missed(x))' = IF x \notin collection[c].saw /\ Conclusive(c, x)
                                     THEN StartsOf(Missed(x)) \cup {now} ELSE StartsOf(Missed(x))
           /\ StartsOf(Saw(x)) \subseteq Times /\ StartsOf(Missed(x)) \subseteq Times
           /\ now \notin StartsOf(Saw(x))
<1> DEFINE now == collection[c].startedAt
<1>1. /\ collection \in [Collections -> Collection] /\ collection[c].step = "read"
      /\ collection' = [collection EXCEPT ![c].step = "done", ![c].rows = NoRows]
    BY DEF InventoryInv, InventoryTypeOK, CommitCollection
<1>2. /\ \A d \in Collections : d # c => collection'[d] = collection[d]
      /\ collection'[c].step = "done" /\ collection'[c].startedAt = now
      /\ collection'[c].saw = collection[c].saw
      /\ collection'[c].evidence = collection[c].evidence
    <2>1. collection'[c] = [collection[c] EXCEPT !.step = "done", !.rows = NoRows]
        BY <1>1
    <2>2. collection[c] \in Collection
        BY <1>1
    <2> QED BY <1>1, <2>1, <2>2 DEF Collection
<1>3. InStep({"done"})' = InStep({"done"}) \cup {c} /\ c \notin InStep({"done"})
      /\ InStep({"done"}) \subseteq Collections
    BY <1>1, <1>2 DEF InStep
<1>4. /\ Saw(x)' = IF x \in collection[c].saw THEN Saw(x) \cup {c} ELSE Saw(x)
      /\ Missed(x)' = IF x \notin collection[c].saw /\ Conclusive(c, x)
                      THEN Missed(x) \cup {c} ELSE Missed(x)
    BY <1>2, <1>3 DEF Saw, Missed, Conclusive
<1>5. \A d \in Saw(x) \cup Missed(x) :
         /\ d \in Collections /\ d # c /\ collection'[d].startedAt = collection[d].startedAt
         /\ collection[d].startedAt \in Times /\ collection[d].startedAt # now
    <2> SUFFICES ASSUME NEW d \in Saw(x) \cup Missed(x)
                 PROVE  /\ d \in Collections /\ d # c
                        /\ collection'[d].startedAt = collection[d].startedAt
                        /\ collection[d].startedAt \in Times /\ collection[d].startedAt # now
        OBVIOUS
    <2>1. d \in Collections /\ d # c /\ collection[d].step = "done"
        BY <1>3 DEF Saw, Missed, InStep
    <2>2. d \in Begun /\ c \in Begun
        BY <1>1, <2>1 DEF Begun, InStep
    <2>3. /\ collection[d].startedAt \in Times \cup {0} /\ Cardinality(Begun) \in Nat
          /\ collection[d].startedAt \in 1..Cardinality(Begun)
        <3>1. collection[d].startedAt \in Times \cup {0}
            BY <1>1, <2>1 DEF Collection
        <3>2. Cardinality(Begun) \in Nat
            BY InventoryAssumption, FS_Subset, FS_CardinalityType DEF Begun
        <3> QED BY <2>2, <3>1, <3>2 DEF InventoryInv, StartsDiffer
    <2> QED BY <1>2, <2>1, <2>2, <2>3 DEF InventoryInv, StartsDiffer
<1>6. /\ StartsOf(Saw(x))' = {collection'[d].startedAt : d \in Saw(x)'}
      /\ StartsOf(Missed(x))' = {collection'[d].startedAt : d \in Missed(x)'}
    BY DEF StartsOf
<1>7. StartsOf(Saw(x))' = IF x \in collection[c].saw THEN StartsOf(Saw(x)) \cup {now}
                          ELSE StartsOf(Saw(x))
    BY <1>2, <1>4, <1>5, <1>6 DEF StartsOf
<1>8. StartsOf(Missed(x))' = IF x \notin collection[c].saw /\ Conclusive(c, x)
                             THEN StartsOf(Missed(x)) \cup {now} ELSE StartsOf(Missed(x))
    BY <1>2, <1>4, <1>5, <1>6 DEF StartsOf
<1>9. /\ StartsOf(Saw(x)) \subseteq Times /\ StartsOf(Missed(x)) \subseteq Times
      /\ now \notin StartsOf(Saw(x))
    BY <1>5 DEF StartsOf
<1> QED BY <1>4, <1>7, <1>8, <1>9

(* What a commit leaves missing has been missed by a collection that could  *)
(* conclude it.                                                             *)
LEMMA CommitProven ==
    ASSUME InventoryInv, NEW c \in Collections, CommitCollection(c)
    PROVE  MissingIsProven'
<1> SUFFICES ASSUME NEW x \in Items
             PROVE  /\ inventory'[x].presence = "missing" => Missed(x)' # {}
                    /\ inventory'[x].presence # "absent" =>
                          /\ inventory'[x].firstSeen \in StartsOf(Saw(x))'
                          /\ inventory'[x].lastSeen \in StartsOf(Saw(x))'
    BY DEF MissingIsProven
<1>1. collection[c].step = "read" /\ ~Clash(c) /\ inventory'[x] = Merged(c, x)
    BY DEF CommitCollection
<1>2. SeenFirst(c, x) \/ SeenAgain(c, x) \/ Hidden(c, x) \/ LeftAlone(c, x)
    BY <1>1, MergedIs
<1>3. /\ inventory[x].presence = "missing" => Missed(x) # {}
      /\ inventory[x].presence # "absent" =>
            inventory[x].firstSeen \in StartsOf(Saw(x)) /\ inventory[x].lastSeen \in StartsOf(Saw(x))
    BY DEF InventoryInv, MissingIsProven
<1> DEFINE now == collection[c].startedAt
<1>4. /\ Missed(x) \subseteq Missed(x)' /\ StartsOf(Saw(x)) \subseteq StartsOf(Saw(x))'
      /\ x \in collection[c].saw => now \in StartsOf(Saw(x))'
      /\ x \notin collection[c].saw /\ Conclusive(c, x) => c \in Missed(x)'
    BY CommitAdds
<1> HIDE DEF now
<1>5. CASE SeenFirst(c, x)
    BY <1>1, <1>4, <1>5 DEF SeenFirst, now
<1>6. CASE SeenAgain(c, x)
    BY <1>1, <1>3, <1>4, <1>6 DEF SeenAgain, now
<1>7. CASE Hidden(c, x)
    BY <1>1, <1>3, <1>4, <1>7 DEF Hidden
<1>8. CASE LeftAlone(c, x)
    BY <1>1, <1>3, <1>4, <1>8 DEF LeftAlone
<1> QED BY <1>2, <1>5, <1>6, <1>7, <1>8

(* A commit of collections that do not overlap leaves the latest of them.   *)
LEMMA CommitExact ==
    ASSUME InventoryInv, NEW c \in Collections, CommitCollection(c)
    PROVE  SerialInventoryIsExact'
<1> SUFFICES ASSUME "overlap" \notin disorder, NEW x \in Items
             PROVE  /\ (inventory'[x].presence = "absent") <=> (Saw(x)' = {})
                    /\ Saw(x)' # {} => \A t \in StartsOf(Saw(x))' : t <= inventory'[x].lastSeen
                    /\ inventory'[x].presence = "missing" =>
                          \E t \in StartsOf(Missed(x))' : t > inventory'[x].lastSeen
                    /\ "delay" \notin disorder' /\ Saw(x)' # {} =>
                          /\ \A t \in StartsOf(Saw(x))' : inventory'[x].firstSeen <= t
                          /\ (inventory'[x].presence = "missing") <=>
                                \E t \in StartsOf(Missed(x))' : t > inventory'[x].lastSeen
    BY DEF SerialInventoryIsExact, CommitCollection
<1> DEFINE now == collection[c].startedAt
           old == inventory[x]
           new == inventory'[x]
           S == StartsOf(Saw(x))
           M == StartsOf(Missed(x))
<1>1. collection[c].step = "read" /\ ~Clash(c) /\ new = Merged(c, x)
    BY DEF CommitCollection
<1>2. /\ now \in Times
      /\ SeenFirst(c, x) \/ SeenAgain(c, x) \/ Hidden(c, x) \/ LeftAlone(c, x)
    BY <1>1, MergedIs
<1>3. collection[c].rows[x] = old
    BY <1>1 DEF InventoryInv, ReadIsCurrent, InStep
<1>4. /\ Saw(x)' = IF x \in collection[c].saw THEN Saw(x) \cup {c} ELSE Saw(x)
      /\ StartsOf(Saw(x))' = IF x \in collection[c].saw THEN S \cup {now} ELSE S
      /\ StartsOf(Missed(x))' = IF x \notin collection[c].saw /\ Conclusive(c, x)
                                THEN M \cup {now} ELSE M
      /\ now \notin S /\ now \in Int /\ \A t \in S \cup M : t \in Int
    <2>1. Times \subseteq Int
        BY DEF Times
    <2> QED BY <1>2, <2>1, CommitAdds
<1>5. Saw(x) = {} => S = {}
    BY DEF StartsOf
<1>6. /\ old.presence # "absent" => old.firstSeen \in S /\ old.lastSeen \in S
      /\ (old.presence = "absent") <=> (Saw(x) = {})
      /\ Saw(x) # {} => \A t \in S : t <= old.lastSeen
      /\ old.presence = "missing" => \E t \in M : t > old.lastSeen
      /\ "delay" \notin disorder /\ Saw(x) # {} =>
            /\ \A t \in S : old.firstSeen <= t
            /\ (old.presence = "missing") <=> \E t \in M : t > old.lastSeen
    BY DEF InventoryInv, MissingIsProven, SerialInventoryIsExact
<1>7. ASSUME "delay" \notin disorder'
      PROVE  "delay" \notin disorder /\ \A t \in S \cup M : t <= now
    <2>1. /\ "delay" \notin disorder
          /\ ~ \E d \in InStep({"done"}) : collection[d].startedAt > now
        BY <1>7 DEF CommitCollection
    <2>2. \A t \in S \cup M : \E d \in InStep({"done"}) : t = collection[d].startedAt
        BY DEF StartsOf, Saw, Missed
    <2> QED BY <1>4, <2>1, <2>2
<1> HIDE DEF S, M
<1>8. CASE SeenFirst(c, x)
    <2>1. new.presence = "active" /\ new.firstSeen = now /\ new.lastSeen = now
          /\ Saw(x) = {} /\ x \in collection[c].saw
        BY <1>1, <1>6, <1>8 DEF SeenFirst
    <2> HIDE DEF now, old, new
    <2>2. StartsOf(Saw(x))' = {now} /\ Saw(x)' = {c} /\ StartsOf(Missed(x))' = M
        BY <1>4, <1>5, <2>1
    <2>3. "delay" \notin disorder' => ~ \E t \in M : t > now
        BY <1>4, <1>7
    <2> QED BY <1>4, <2>1, <2>2, <2>3 DEF new
<1>9. CASE SeenAgain(c, x)
    <2>1. /\ x \in collection[c].saw /\ old.presence # "absent" /\ old.lastSeen <= now
          /\ new.presence = "active" /\ new.firstSeen = old.firstSeen /\ new.lastSeen = now
        BY <1>1, <1>3, <1>9 DEF SeenAgain
    <2> HIDE DEF now, old, new
    <2>2. /\ StartsOf(Saw(x))' = S \cup {now} /\ Saw(x)' # {} /\ StartsOf(Missed(x))' = M
          /\ Saw(x) # {}
        BY <1>4, <1>6, <2>1
    <2>3. \A t \in S : t <= now
        BY <1>4, <1>6, <2>1, <2>2
    <2>4. "delay" \notin disorder' =>
             /\ ~ \E t \in M : t > now
             /\ \A t \in S \cup {now} : old.firstSeen <= t
        BY <1>4, <1>6, <1>7, <2>1, <2>2, <2>3
    <2>5. \A t \in StartsOf(Saw(x))' : t <= new.lastSeen
        BY <1>4, <2>1, <2>2, <2>3
    <2>6. "delay" \notin disorder' => ~ \E t \in StartsOf(Missed(x))' : t > new.lastSeen
        BY <2>1, <2>2, <2>4
    <2> QED BY <2>1, <2>2, <2>4, <2>5, <2>6 DEF new
<1>10. CASE Hidden(c, x)
    <2>1. /\ x \notin collection[c].saw /\ Conclusive(c, x) /\ old.presence = "active"
          /\ old.lastSeen <= now /\ new.presence = "missing"
          /\ new.firstSeen = old.firstSeen /\ new.lastSeen = old.lastSeen
        BY <1>1, <1>3, <1>10 DEF Hidden
    <2> HIDE DEF now, old, new
    <2>2. /\ StartsOf(Saw(x))' = S /\ Saw(x)' = Saw(x) /\ StartsOf(Missed(x))' = M \cup {now}
          /\ Saw(x) # {} /\ old.lastSeen \in S
        BY <1>4, <1>6, <2>1
    <2>3. now > old.lastSeen
        BY <1>4, <2>1, <2>2
    <2> QED BY <1>4, <1>6, <1>7, <2>1, <2>2, <2>3 DEF new
<1>11. CASE LeftAlone(c, x)
    <2>1. /\ new.presence = old.presence /\ new.firstSeen = old.firstSeen
          /\ new.lastSeen = old.lastSeen
          /\ x \in collection[c].saw => old.presence # "absent" /\ now < old.lastSeen
          /\ x \notin collection[c].saw =>
                 ~(old.presence = "active" /\ Conclusive(c, x) /\ old.lastSeen <= now)
        BY <1>1, <1>3, <1>11 DEF LeftAlone
    <2> HIDE DEF now, old, new
    <2>2. CASE x \in collection[c].saw
        <3>1. /\ StartsOf(Saw(x))' = S \cup {now} /\ Saw(x)' # {} /\ StartsOf(Missed(x))' = M
              /\ Saw(x) # {} /\ old.lastSeen \in S /\ old.presence # "absent"
            BY <1>4, <1>6, <2>1, <2>2
        <3>2. "delay" \notin disorder' => FALSE
            BY <1>4, <1>7, <2>1, <2>2, <3>1
        <3> QED BY <1>4, <1>6, <2>1, <2>2, <3>1, <3>2 DEF new
    <2>3. CASE x \notin collection[c].saw
        <3>1. /\ StartsOf(Saw(x))' = S /\ Saw(x)' = Saw(x) /\ M \subseteq StartsOf(Missed(x))'
            BY <1>4, <2>3
        <3>2. /\ (new.presence = "absent") <=> (Saw(x)' = {})
              /\ Saw(x)' # {} => \A t \in StartsOf(Saw(x))' : t <= new.lastSeen
              /\ new.presence = "missing" => \E t \in StartsOf(Missed(x))' : t > new.lastSeen
            BY <1>6, <2>1, <3>1
        <3>3. ASSUME "delay" \notin disorder', Saw(x)' # {}
              PROVE  /\ \A t \in StartsOf(Saw(x))' : new.firstSeen <= t
                     /\ (new.presence = "missing") <=>
                           \E t \in StartsOf(Missed(x))' : t > new.lastSeen
            <4>1. /\ \A t \in S : old.firstSeen <= t
                  /\ (old.presence = "missing") <=> \E t \in M : t > old.lastSeen
                  /\ old.presence # "absent" /\ old.lastSeen \in S
                BY <1>6, <1>7, <3>1, <3>3
            <4>2. old.presence \in {"active", "missing"}
                BY <4>1 DEF InventoryInv, InventoryTypeOK, Item, old
            <4>3. CASE old.presence = "missing"
                BY <2>1, <3>1, <4>1, <4>3
            <4>4. CASE old.presence = "active" /\ Conclusive(c, x)
                <5>1. old.lastSeen > now
                    BY <1>4, <2>1, <2>3, <4>1, <4>4
                <5>2. \A t \in StartsOf(Missed(x))' : t \in M \/ t = now
                    BY <1>4
                <5> QED BY <1>4, <2>1, <3>1, <4>1, <4>4, <5>1, <5>2
            <4>5. CASE old.presence = "active" /\ ~Conclusive(c, x)
                BY <1>4, <2>1, <3>1, <4>1, <4>5
            <4> QED BY <4>2, <4>3, <4>4, <4>5
        <3> QED BY <3>2, <3>3 DEF new
    <2> QED BY <2>2, <2>3
<1> QED BY <1>2, <1>8, <1>9, <1>10, <1>11

(* Beginning, reading and failing leave the inventory; a commit was treated *)
(* above.                                                                   *)
LEMMA InventoryStep ==
    ASSUME InventoryInv, [InventoryNext]_inventoryVars
    PROVE  InventoryInv'
<1> USE InventoryAssumption
<1>a. /\ collection \in [Collections -> Collection] /\ inventory \in [Items -> Item]
      /\ disorder \subseteq {"overlap", "delay"} /\ NoRows \in [Items -> Item]
      /\ StartsDiffer /\ RowsStay /\ ReadIsCurrent
      /\ IsFiniteSet(Begun) /\ Cardinality(Begun) \in Nat
    <2>1. IsFiniteSet(Begun) /\ Cardinality(Begun) \in Nat
        BY FS_Subset, FS_CardinalityType DEF Begun
    <2> QED BY <2>1 DEF InventoryInv, InventoryTypeOK, NoRows, Item
<1>1. ASSUME NEW c \in Collections, StartCollection(c) PROVE InventoryInv'
    <2> DEFINE now == Cardinality(Collections \ InStep({"waiting"})) + 1
               new == [collection[c] EXCEPT !.step = "started", !.startedAt = now]
    <2>1. /\ collection[c].step = "waiting" /\ UNCHANGED <<inventory, disorder>>
          /\ collection' = [collection EXCEPT ![c] = new]
        BY <1>1, <1>a DEF StartCollection
    <2>2. c \notin Begun /\ now = Cardinality(Begun) + 1
        BY <2>1 DEF Begun, InStep
    <2>3. Begun \cup {c} \subseteq Collections
        BY DEF Begun
    <2>4. /\ Cardinality(Begun \cup {c}) = Cardinality(Begun) + 1
          /\ Cardinality(Begun \cup {c}) <= Cardinality(Collections)
          /\ Cardinality(Collections) \in Nat
        BY <1>a, <2>2, <2>3, FS_AddElement, FS_Subset, FS_CardinalityType
    <2>5. now \in Times
        BY <1>a, <2>2, <2>4 DEF Times
    <2> HIDE DEF now
    <2>6. /\ new \in Collection /\ new.step = "started" /\ new.startedAt = now
        BY <1>a, <2>5 DEF Collection
    <2> HIDE DEF new
    <2>7. /\ collection' \in [Collections -> Collection] /\ collection'[c] = new
          /\ \A d \in Collections : d # c => collection'[d] = collection[d]
        BY <1>a, <2>1, <2>6
    <2>8. Begun' = Begun \cup {c} /\ InStep({"read"})' = InStep({"read"})
          /\ c \notin InStep({"read"})
        BY <2>1, <2>6, <2>7 DEF Begun, InStep
    <2>9. StartsDiffer'
        <3>1. \A d \in Begun : d \in Collections /\ d # c /\ collection'[d] = collection[d]
            BY <2>2, <2>7 DEF Begun
        <3>2. collection'[c].startedAt = Cardinality(Begun) + 1 /\ Cardinality(Begun') =
                Cardinality(Begun) + 1
            BY <2>2, <2>4, <2>6, <2>7, <2>8
        <3>3. \A d \in Begun : collection'[d].startedAt \in 1..Cardinality(Begun)
            BY <1>a, <3>1 DEF StartsDiffer
        <3>4. \A d \in Begun' : collection'[d].startedAt \in 1..Cardinality(Begun')
            BY <1>a, <2>8, <3>2, <3>3
        <3>5. ASSUME NEW d \in Begun', NEW e \in Begun',
                     collection'[d].startedAt = collection'[e].startedAt
              PROVE  d = e
            <4>1. CASE d \in Begun /\ e \in Begun
                BY <1>a, <3>1, <3>5, <4>1 DEF StartsDiffer
            <4>2. CASE d = c \/ e = c
                BY <1>a, <2>8, <3>2, <3>3, <3>5, <4>2
            <4> QED BY <2>8, <4>1, <4>2
        <3> QED BY <3>4, <3>5 DEF StartsDiffer
    <2>10. RowsStay' /\ ReadIsCurrent'
        BY <1>a, <2>1, <2>7, <2>8 DEF RowsStay, ReadIsCurrent, InStep
    <2>11. MissingIsProven' /\ SerialInventoryIsExact'
        BY <2>1, <2>6, NothingCommitted
    <2> QED BY <1>a, <2>1, <2>7, <2>9, <2>10, <2>11 DEF InventoryInv, InventoryTypeOK
<1>2. ASSUME NEW c \in Collections, NEW new \in Collection,
             collection' = [collection EXCEPT ![c] = new], new.step # "waiting",
             collection[c].step # "waiting", new.startedAt = collection[c].startedAt
      PROVE  /\ collection' \in [Collections -> Collection] /\ collection'[c] = new
             /\ \A d \in Collections : d # c => collection'[d] = collection[d]
             /\ StartsDiffer'
    <2>1. /\ collection' \in [Collections -> Collection] /\ collection'[c] = new
          /\ \A d \in Collections : d # c => collection'[d] = collection[d]
        BY <1>2, <1>a
    <2>2. Begun' = Begun
        BY <1>2, <2>1 DEF Begun, InStep
    <2>3. \A d \in Begun : collection'[d].startedAt = collection[d].startedAt
        BY <1>2, <2>1 DEF Begun
    <2> QED BY <1>a, <2>1, <2>2, <2>3 DEF StartsDiffer
<1>3. ASSUME NEW c \in Collections, NEW new \in Collection,
             collection' = [collection EXCEPT ![c] = new],
             collection[c].step \in {"started", "discovered", "read"},
             new.step \in {"discovered", "failed"}, new.startedAt = collection[c].startedAt,
             UNCHANGED <<inventory, disorder>>
      PROVE  InventoryInv'
    <2>1. /\ collection' \in [Collections -> Collection] /\ collection'[c] = new
          /\ \A d \in Collections : d # c => collection'[d] = collection[d]
          /\ StartsDiffer'
        BY <1>2, <1>3
    <2>2. /\ InStep({"read"})' \subseteq InStep({"read"})
          /\ \A d \in InStep({"read"})' : d # c /\ d \in Collections
        BY <1>3, <2>1 DEF InStep
    <2>3. RowsStay'
        BY <1>a, <1>3, <2>1, <2>2 DEF RowsStay
    <2>4. ReadIsCurrent'
        BY <1>a, <1>3, <2>1, <2>2 DEF ReadIsCurrent
    <2>5. MissingIsProven' /\ SerialInventoryIsExact'
        BY <1>3, NothingCommitted
    <2> QED BY <1>a, <1>3, <2>1, <2>3, <2>4, <2>5 DEF InventoryInv, InventoryTypeOK
<1>4. ASSUME NEW c \in Collections, Discover(c) PROVE InventoryInv'
    <2>1. PICK saw \in SUBSET Items, evidence \in [Scopes -> SUBSET Evidence] :
             collection' = [collection EXCEPT ![c].step = "discovered", ![c].saw = saw,
                                              ![c].evidence = evidence]
        BY <1>4 DEF Discover
    <2> DEFINE new == [collection[c] EXCEPT !.step = "discovered", !.saw = saw,
                                            !.evidence = evidence]
    <2>2. collection' = [collection EXCEPT ![c] = new]
        BY <1>a, <2>1
    <2>3. /\ new \in Collection /\ new.step = "discovered"
          /\ new.startedAt = collection[c].startedAt
        BY <1>a DEF Collection
    <2> HIDE DEF new
    <2> QED BY <1>3, <1>4, <2>2, <2>3 DEF Discover
<1>5. ASSUME NEW c \in Collections, FailCollection(c) PROVE InventoryInv'
    <2> DEFINE new == [collection[c] EXCEPT !.step = "failed", !.rows = NoRows]
    <2>2. collection' = [collection EXCEPT ![c] = new]
        BY <1>a, <1>5 DEF FailCollection
    <2>3. /\ new \in Collection /\ new.step = "failed"
          /\ new.startedAt = collection[c].startedAt
        BY <1>a DEF Collection
    <2> HIDE DEF new
    <2> QED BY <1>3, <1>5, <2>2, <2>3 DEF FailCollection
<1>6. ASSUME NEW c \in Collections, ReadRows(c) PROVE InventoryInv'
    <2> DEFINE new == [collection[c] EXCEPT !.step = "read", !.rows = inventory]
    <2>1. /\ collection' = [collection EXCEPT ![c] = new]
          /\ collection[c].step = "discovered" /\ UNCHANGED inventory
          /\ disorder' = IF InStep({"read"}) = {} THEN disorder ELSE disorder \cup {"overlap"}
        BY <1>a, <1>6 DEF ReadRows
    <2>2. /\ new \in Collection /\ new.step = "read" /\ new.rows = inventory
          /\ new.startedAt = collection[c].startedAt
        BY <1>a DEF Collection
    <2> HIDE DEF new
    <2>3. /\ collection' \in [Collections -> Collection] /\ collection'[c] = new
          /\ \A d \in Collections : d # c => collection'[d] = collection[d]
          /\ StartsDiffer'
        BY <1>2, <2>1, <2>2
    <2>4. InStep({"read"})' = InStep({"read"}) \cup {c} /\ c \notin InStep({"read"})
          /\ InStep({"read"}) \subseteq Collections
        BY <2>1, <2>2, <2>3 DEF InStep
    <2>5. RowsStay'
        <3> SUFFICES ASSUME NEW x \in Items, NEW d \in InStep({"read"})'
                     PROVE  LET read == collection'[d].rows[x] IN
                            /\ read.presence = "absent" => read.firstSeen = 0 /\ read.lastSeen = 0
                            /\ read.presence # "absent" => inventory[x].presence # "absent"
            BY <1>a, <2>1 DEF RowsStay
        <3>1. CASE d = c
            BY <1>a, <2>2, <2>3, <3>1 DEF RowsStay
        <3>2. CASE d \in InStep({"read"}) /\ d # c
            BY <1>a, <2>3, <2>4, <3>2 DEF RowsStay
        <3> QED BY <2>4, <3>1, <3>2
    <2>6. ReadIsCurrent'
        <3> SUFFICES ASSUME "overlap" \notin disorder', NEW d \in InStep({"read"})'
                     PROVE  /\ collection'[d].rows = inventory
                            /\ \A e \in InStep({"read"})' : e = d
            BY <2>1 DEF ReadIsCurrent
        <3>1. InStep({"read"}) = {}
            BY <2>1
        <3> QED BY <2>2, <2>3, <2>4, <3>1
    <2>7. MissingIsProven' /\ SerialInventoryIsExact'
        BY <2>1, <2>2, NothingCommitted
    <2>8. disorder' \subseteq {"overlap", "delay"}
        BY <1>a, <2>1
    <2> QED BY <1>a, <2>1, <2>3, <2>5, <2>6, <2>7, <2>8 DEF InventoryInv, InventoryTypeOK
<1>7. ASSUME NEW c \in Collections, CommitCollection(c) PROVE InventoryInv'
    <2> DEFINE new == [collection[c] EXCEPT !.step = "done", !.rows = NoRows]
    <2>1. /\ collection' = [collection EXCEPT ![c] = new]
          /\ collection[c].step = "read" /\ ~Clash(c)
          /\ inventory' = [x \in Items |-> Merged(c, x)]
        BY <1>a, <1>7 DEF CommitCollection
    <2>2. /\ new \in Collection /\ new.step = "done"
          /\ new.startedAt = collection[c].startedAt
        BY <1>a DEF Collection
    <2> HIDE DEF new
    <2>3. /\ collection' \in [Collections -> Collection] /\ collection'[c] = new
          /\ \A d \in Collections : d # c => collection'[d] = collection[d]
          /\ StartsDiffer'
        BY <1>2, <2>1, <2>2
    <2>4. /\ InStep({"read"})' = InStep({"read"}) \ {c} /\ c \in InStep({"read"})
          /\ InStep({"read"}) \subseteq Collections
        BY <2>1, <2>2, <2>3 DEF InStep
    <2>5. inventory' \in [Items -> Item]
        BY <2>1, MergedIs
    <2>6. disorder' \subseteq {"overlap", "delay"}
          /\ ("overlap" \in disorder' <=> "overlap" \in disorder)
        BY <1>a, <1>7 DEF CommitCollection
    <2>7. ASSUME NEW x \in Items
          PROVE  /\ inventory'[x].presence = "absent" =>
                       inventory'[x].firstSeen = 0 /\ inventory'[x].lastSeen = 0
                 /\ inventory[x].presence # "absent" => inventory'[x].presence # "absent"
        <3>1. SeenFirst(c, x) \/ SeenAgain(c, x) \/ Hidden(c, x) \/ LeftAlone(c, x)
            BY <2>1, MergedIs
        <3>2. inventory'[x] = Merged(c, x)
            BY <2>1
        <3>3. inventory[x].presence = "absent" =>
                 inventory[x].firstSeen = 0 /\ inventory[x].lastSeen = 0
            BY <1>a DEF RowsStay
        <3> QED BY <3>1, <3>2, <3>3 DEF SeenFirst, SeenAgain, Hidden, LeftAlone
    <2>8. RowsStay'
        <3>1. ASSUME NEW x \in Items, NEW d \in InStep({"read"})'
              PROVE  LET read == collection'[d].rows[x] IN
                     /\ read.presence = "absent" => read.firstSeen = 0 /\ read.lastSeen = 0
                     /\ read.presence # "absent" => inventory'[x].presence # "absent"
            <4>1. d \in InStep({"read"}) /\ d # c /\ collection'[d] = collection[d]
                BY <2>3, <2>4
            <4> QED BY <1>a, <2>7, <4>1 DEF RowsStay
        <3> QED BY <2>7, <3>1 DEF RowsStay
    <2>9. ReadIsCurrent'
        BY <1>a, <2>4, <2>6 DEF ReadIsCurrent
    <2>10. MissingIsProven' /\ SerialInventoryIsExact'
        BY <1>7, CommitProven, CommitExact
    <2> QED BY <2>3, <2>5, <2>6, <2>8, <2>9, <2>10 DEF InventoryInv, InventoryTypeOK
<1>8. CASE UNCHANGED inventoryVars
    <2>1. UNCHANGED <<collection, inventory, disorder>>
        BY <1>8 DEF inventoryVars
    <2>2. \A steps : InStep(steps)' = InStep(steps)
        BY <2>1 DEF InStep
    <2>3. InventoryTypeOK' /\ StartsDiffer' /\ RowsStay' /\ ReadIsCurrent'
        BY <1>a, <2>1, <2>2 DEF InventoryInv, InventoryTypeOK, StartsDiffer, RowsStay,
           ReadIsCurrent, Begun
    <2>4. ASSUME NEW x \in Items PROVE Saw(x)' = Saw(x) /\ Missed(x)' = Missed(x)
        BY <2>1, <2>2 DEF Saw, Missed
    <2>5. ASSUME NEW x \in Items
          PROVE  /\ StartsOf(Saw(x))' = StartsOf(Saw(x))
                 /\ StartsOf(Missed(x))' = StartsOf(Missed(x))
        BY <2>1, <2>4 DEF StartsOf
    <2>6. MissingIsProven' /\ SerialInventoryIsExact'
        BY <2>1, <2>4, <2>5 DEF InventoryInv, MissingIsProven, SerialInventoryIsExact
    <2> QED BY <2>3, <2>6 DEF InventoryInv
<1> QED BY <1>1, <1>4, <1>5, <1>6, <1>7, <1>8 DEF InventoryNext

(* What overlapping, late, failed and partial collections leave is always   *)
(* proven, and exact where they persist one after the other, for any number *)
(* of collections, resources and scopes (persist_observations,              *)
(* reconcile_complete_scopes).                                              *)
THEOREM InventoryProven == InventorySpec => []InventoryIsProven
<1>1. InventoryInv => InventoryIsProven
    BY DEF InventoryInv, InventoryIsProven
<1> QED BY <1>1, InventoryBegins, InventoryStep, PTL DEF InventorySpec

-----------------------------------------------------------------------------
(* The connection of an account (CloudAccounts). *)

(* What was accepted has been asked.                                        *)
AcceptedWasAsked == \A j \in Jobs : job[j].step = "accepted" => Asked(j) \in proved

(* What holds of an account and of the requests under way.                  *)
AccountInv == AccountsTypeOK /\ AcceptedWasAsked

(* A revision can always be increased.                                      *)
LEMMA RevisionsGrow ==
    ASSUME NEW r \in Row
    PROVE  r.revision \in Nat /\ r.revision + 1 \in Nat
<1>1. r.revision \in Nat
    BY DEF Row
<1>2. \A n \in Nat : n + 1 \in Nat
    OBVIOUS
<1> QED BY <1>1, <1>2

(* Only the step of a request changes, and it becomes "done".               *)
LEMMA OneStepOn ==
    ASSUME AccountsTypeOK, NEW j \in Jobs, Step(j, "done")
    PROVE  /\ job' \in [Jobs -> Job]
           /\ \A i \in Jobs : i # j => job'[i] = job[i]
           /\ job'[j].step = "done" /\ job'[j].copy = job[j].copy
BY DEF AccountsTypeOK, Job, Step

(* A session that holds the row as it is writes what it holds.              *)
LEMMA FlushedWhole ==
    ASSUME NEW new \in Row, row \in Row, Flush(row, new)
    PROVE  row' = new
<1>1. DOMAIN row = DOMAIN new
    BY DEF Row
<1>2. row' = [c \in DOMAIN row |-> new[c]]
    BY DEF Flush
<1>3. new = [c \in DOMAIN new |-> new[c]]
    BY DEF Row
<1> QED BY <1>1, <1>2, <1>3

(* What is flushed is a row.                                                *)
LEMMA FlushedRow ==
    ASSUME NEW copy \in Row, NEW new \in Row, row \in Row, Flush(copy, new)
    PROVE  row' \in Row
<1> DEFINE Of(c) == IF new[c] # copy[c] THEN new[c] ELSE row[c]
<1>1. DOMAIN row = {"stored", "settings", "key", "revision", "status"}
    BY DEF Row
<1>2. row' = [stored |-> Of("stored"), settings |-> Of("settings"), key |-> Of("key"),
              revision |-> Of("revision"), status |-> Of("status")]
    BY <1>1 DEF Flush
<1>3. /\ Of("stored") \in {"not yet", "yes", "deleted"} /\ Of("settings") \in Settings
      /\ Of("key") \in Secrets \cup {"none"} /\ Of("revision") \in Nat /\ Of("status") \in Status
    BY DEF Row
<1> QED BY <1>2, <1>3 DEF Row

(* An edit keeps the connection only with what it was tested with.          *)
LEMMA EditedIs ==
    ASSUME AccountsTypeOK, NEW j \in Jobs
    PROVE  /\ Edited(j) \in Row
           /\ Edited(j).stored = job[j].copy.stored
           /\ \/ Edited(j).status = "untested"
              \/ /\ Edited(j).status = job[j].copy.status
                 /\ Pair(Edited(j)) = Pair(job[j].copy)
<1> DEFINE copy == job[j].copy
           new == [copy EXCEPT !.settings = job[j].settings, !.key = job[j].key]
<1>1. copy \in Row /\ job[j].settings \in Settings /\ job[j].key \in Secrets \cup {"none"}
    BY DEF AccountsTypeOK, Job
<1>2. new \in Row /\ new.stored = copy.stored /\ new.status = copy.status
    BY <1>1 DEF Row
<1>3. Edited(j) = Invalidated(j, new)
    BY DEF Edited
<1> HIDE DEF new
<1>4. CASE Pair(new) = Pair(copy)
    BY <1>2, <1>3, <1>4 DEF Invalidated
<1>5. CASE Pair(new) # Pair(copy)
    <2>1. PICK n \in Nat : Edited(j) = [new EXCEPT !.status = "untested", !.revision = n]
        <3>1. new.revision \in Nat /\ new.revision + 1 \in Nat
            BY <1>2, RevisionsGrow
        <3>2. Edited(j) = [new EXCEPT !.status = "untested",
                     !.revision = IF provider = "oci" THEN new.revision + 1 ELSE new.revision]
            BY <1>3, <1>5 DEF Invalidated
        <3> QED BY <3>1, <3>2
    <2> QED BY <1>2, <2>1 DEF Row, Status
<1> QED BY <1>4, <1>5

(* What the provider has accepted stays accepted, so only Validate matters. *)
LEMMA AccountInvInductive == AccountsSpec => []AccountInv
<1>1. AccountsInit => AccountInv
    <2> SUFFICES ASSUME AccountsInit PROVE AccountInv
        OBVIOUS
    <2>1. PICK s \in Settings :
              /\ row = NoAccount(s)
              /\ job = [j \in Jobs |-> [kind |-> "none", step |-> "new", copy |-> NoAccount(s),
                                    settings |-> s, key |-> "none", expected |-> 0]]
        BY DEF AccountsInit
    <2>2. NoAccount(s) \in Row
        BY DEF NoAccount, Row, Status
    <2>3. job \in [Jobs -> Job] /\ \A j \in Jobs : job[j].step = "new"
        BY <2>1, <2>2 DEF Job
    <2> QED BY <2>1, <2>2, <2>3 DEF AccountsInit, AccountInv, AccountsTypeOK, AcceptedWasAsked
<1>2. AccountInv /\ [AccountsNext]_accountVars => AccountInv'
    <2> SUFFICES ASSUME AccountInv, [AccountsNext]_accountVars PROVE AccountInv'
        OBVIOUS
    <2> USE DEF AccountInv
    <2>0. CASE UNCHANGED accountVars
        BY <2>0 DEF accountVars, AccountsTypeOK, AcceptedWasAsked, Asked, Pair
    <2> SUFFICES ASSUME NEW j \in Jobs,
            \/ Create(j)
            \/ \E kind \in {"test", "delete", "collect"} : Load(j, kind, row.settings, row.key)
            \/ \E s \in Settings, k \in {row.key, "none"} : Load(j, "update", s, k)
            \/ \E s \in Settings, k \in Secrets : provider = "oci" /\ Load(j, "replace", s, k)
            \/ Update(j) \/ Delete(j) \/ Validate(j) \/ TestWithoutKey(j) \/ RecordTest(j)
            \/ Replace(j) \/ CollectionEnds(j)
        PROVE AccountInv'
        BY <2>0 DEF AccountsNext
    <2>t. /\ provider \in {"aws", "oci"} /\ row \in Row /\ job \in [Jobs -> Job]
          /\ proved \subseteq Settings \X (Secrets \cup {"none"})
        BY DEF AccountsTypeOK
    (* Who has done is no longer accepted, and what is proved stays so. *)
    <2>d. ASSUME Step(j, "done"), row' \in Row, UNCHANGED <<provider, proved>>
          PROVE  AccountInv'
        <3>1. /\ job' \in [Jobs -> Job]
              /\ \A i \in Jobs : i # j => job'[i] = job[i]
              /\ job'[j].step = "done"
            BY <2>d, OneStepOn
        <3>2. AcceptedWasAsked'
            BY <2>d, <3>1 DEF AcceptedWasAsked, Asked, Pair
        <3> QED BY <2>d, <2>t, <3>1, <3>2 DEF AccountsTypeOK
    <2>j. job[j].copy \in Row /\ job[j].settings \in Settings /\ job[j].key \in Secrets \cup {"none"}
        BY <2>t DEF Job
    <2>1. CASE Create(j)
        <3>1. row' \in Row
            <4>1. PICK s \in Settings, k \in Secrets \cup {"none"} : row' = Created(s, k)
                BY <2>1 DEF Create
            <4> QED BY <4>1 DEF Created, NoAccount, Row, Status
        <3>2. /\ job' \in [Jobs -> Job]
              /\ \A i \in Jobs : i # j => job'[i] = job[i]
              /\ job'[j].step = "done"
            BY <2>1, <2>t DEF Create, Job
        <3>3. AcceptedWasAsked'
            BY <2>1, <3>2 DEF Create, AcceptedWasAsked, Asked, Pair
        <3> QED BY <2>1, <2>t, <3>1, <3>2, <3>3 DEF Create, AccountsTypeOK
    <2>2. ASSUME NEW kind \in {"test", "delete", "collect", "update", "replace"},
                 NEW s \in Settings, NEW k \in Secrets \cup {"none"}, Load(j, kind, s, k)
          PROVE  AccountInv'
        <3>1. /\ job' \in [Jobs -> Job]
              /\ \A i \in Jobs : i # j => job'[i] = job[i]
              /\ job'[j].step = "loaded"
            <4>1. row.revision \in Nat
                BY <2>t DEF Row
            <4> QED BY <2>2, <2>t, <4>1 DEF Load, Job
        <3>2. AcceptedWasAsked'
            BY <2>2, <3>1 DEF Load, AcceptedWasAsked, Asked, Pair
        <3> QED BY <2>2, <2>t, <3>1, <3>2 DEF Load, AccountsTypeOK
    <2>3. row.settings \in Settings /\ row.key \in Secrets \cup {"none"}
        BY <2>t DEF Row
    <2>4. CASE Update(j)
        <3>1. row' \in Row
            BY <2>4, <2>t, <2>j, EditedIs, FlushedRow DEF Update
        <3> QED BY <2>4, <2>d, <3>1 DEF Update
    <2>5. CASE Delete(j)
        <3>1. row' \in Row
            BY <2>5, <2>t DEF Delete, Row
        <3> QED BY <2>5, <2>d, <3>1 DEF Delete
    <2>6. CASE Validate(j)
        <3>1. PICK step \in {"accepted", "refused"} : Step(j, step)
            BY <2>6 DEF Validate
        <3>2. /\ job' \in [Jobs -> Job]
              /\ \A i \in Jobs : i # j => job'[i] = job[i]
              /\ job'[j] = [job[j] EXCEPT !.step = step]
            BY <3>1, <2>t DEF Step, Job
        <3>3. Asked(j)' = Asked(j) /\ \A i \in Jobs : i # j => Asked(i)' = Asked(i)
            BY <3>2, <2>t DEF Asked, Pair, Job
        <3>4. proved \subseteq proved' /\ (step = "accepted" => Asked(j) \in proved')
            BY <2>6, <3>1, <3>2, <2>t DEF Validate, Step, Job
        <3>5. Asked(j) \in Settings \X (Secrets \cup {"none"})
            BY <2>j DEF Asked, Pair, Row
        <3>6. AcceptedWasAsked'
            BY <3>2, <3>3, <3>4, <2>t DEF AcceptedWasAsked, Job
        <3>7. proved' \subseteq Settings \X (Secrets \cup {"none"})
            BY <2>6, <3>5, <2>t DEF Validate
        <3> QED BY <2>6, <2>t, <3>2, <3>6, <3>7 DEF Validate, AccountsTypeOK
    <2>7. CASE TestWithoutKey(j)
        <3>1. row' \in Row
            BY <2>7, <2>t DEF TestWithoutKey, Row, Status
        <3> QED BY <2>7, <2>d, <3>1 DEF TestWithoutKey
    <2>8. CASE RecordTest(j)
        <3>1. row' \in Row
            <4>1. PICK status \in Status :
                      \/ Flush(job[j].copy, [job[j].copy EXCEPT !.status = status])
                      \/ UNCHANGED row
                BY <2>8 DEF RecordTest, Status
            <4>2. [job[j].copy EXCEPT !.status = status] \in Row
                BY <2>j DEF Row
            <4> QED BY <2>t, <2>j, <4>1, <4>2, FlushedRow
        <3> QED BY <2>8, <2>d, <3>1 DEF RecordTest
    <2>9. CASE Replace(j)
        <3>1. row' \in Row
            <4> DEFINE new == [job[j].copy EXCEPT !.settings = job[j].settings,
                                  !.key = job[j].key, !.revision = @ + 1, !.status = "connected"]
            <4>1. new \in Row
                <5>1. job[j].copy.revision + 1 \in Nat
                    BY <2>j, RevisionsGrow
                <5> QED BY <2>j, <5>1 DEF Row, Status
            <4>2. Flush(job[j].copy, new) \/ UNCHANGED row
                BY <2>9 DEF Replace
            <4> HIDE DEF new
            <4> QED BY <2>t, <2>j, <4>1, <4>2, FlushedRow
        <3> QED BY <2>9, <2>d, <3>1 DEF Replace
    <2>10. CASE CollectionEnds(j)
        <3>1. row' \in Row
            BY <2>10, <2>t DEF CollectionEnds, Row, Status
        <3> QED BY <2>10, <2>d, <3>1 DEF CollectionEnds
    <2> QED BY <2>1, <2>2, <2>3, <2>4, <2>5, <2>6, <2>7, <2>8, <2>9, <2>10
<1> QED BY <1>1, <1>2, PTL DEF AccountsSpec

(* Who sets out from the row as it is connects what was accepted.           *)
LEMMA ConnectsTheProved ==
    ASSUME AccountInv, AccountsNext, Unproved(row'), ~Unproved(row),
           \A j \in Jobs : job[j].step # "done" /\ job'[j].step = "done" => job[j].copy = row
    PROVE  FALSE
<1> USE DEF AccountInv
<1>t. row \in Row /\ job \in [Jobs -> Job]
    BY DEF AccountsTypeOK
<1>u. row' # row
    OBVIOUS
<1>1. PICK j \in Jobs : Create(j) \/ Update(j) \/ Delete(j) \/ TestWithoutKey(j)
            \/ RecordTest(j) \/ Replace(j) \/ CollectionEnds(j)
    BY <1>u DEF AccountsNext, Load, Validate
<1>c. row'.stored = "yes" /\ row'.status = "connected"
    BY DEF Unproved
<1>2. ~Create(j)
    BY <1>c DEF Create, Created, NoAccount
<1>3. ~Delete(j)
    BY <1>c, <1>t DEF Delete, Row
<1>4. ~TestWithoutKey(j)
    BY <1>u, <1>c, <1>t DEF TestWithoutKey, Row
<1>5. Step(j, "done") /\ job[j].step # "done" /\ proved' = proved
    BY <1>1, <1>2, <1>3, <1>4 DEF Update, RecordTest, Replace, CollectionEnds
<1>6. job[j].copy = row
    BY <1>5, OneStepOn
<1>7. ~Update(j)
    <2> SUFFICES ASSUME Update(j) PROVE FALSE
        OBVIOUS
    <2>1. row.stored = "yes" /\ Flush(row, Edited(j))
        BY <1>6, <1>u DEF Update
    <2>2. row' = Edited(j)
        BY <1>t, <2>1, EditedIs, FlushedWhole
    <2>3. row'.status = row.status /\ Pair(row') = Pair(row)
        BY <1>6, <1>c, <2>2, EditedIs
    <2> QED BY <1>c, <2>1, <2>3 DEF Unproved
<1>8. ~RecordTest(j)
    <2> SUFFICES ASSUME RecordTest(j) PROVE FALSE
        OBVIOUS
    <2> DEFINE new == [row EXCEPT !.status =
                           IF job[j].step = "accepted" THEN "connected" ELSE "error"]
    <2>1. Flush(row, new)
        BY <1>6, <1>u DEF RecordTest
    <2>2. new \in Row /\ Pair(new) = Pair(row)
          /\ new.status = IF job[j].step = "accepted" THEN "connected" ELSE "error"
        BY <1>t DEF Row, Status, Pair
    <2> HIDE DEF new
    <2>3. row' = new
        BY <1>t, <2>1, <2>2, FlushedWhole
    <2>4. Pair(row) \in proved
        BY <1>6, <1>c, <2>2, <2>3 DEF AcceptedWasAsked, Asked, RecordTest
    <2> QED BY <1>5, <2>2, <2>3, <2>4 DEF Unproved
<1>9. ~Replace(j)
    <2> SUFFICES ASSUME Replace(j) PROVE FALSE
        OBVIOUS
    <2> DEFINE new == [row EXCEPT !.settings = job[j].settings, !.key = job[j].key,
                                  !.revision = @ + 1, !.status = "connected"]
    <2>1. Flush(row, new) /\ job[j].step = "accepted"
        BY <1>6, <1>u DEF Replace
    <2>2. new \in Row /\ Pair(new) = <<job[j].settings, job[j].key>>
        <3>1. job[j].settings \in Settings /\ job[j].key \in Secrets \cup {"none"}
            BY <1>t DEF Job
        <3>2. row.revision + 1 \in Nat
            BY <1>t, RevisionsGrow
        <3> QED BY <1>t, <3>1, <3>2 DEF Row, Status, Pair
    <2> HIDE DEF new
    <2>3. row' = new
        BY <1>t, <2>1, <2>2, FlushedWhole
    <2>4. <<job[j].settings, job[j].key>> \in proved
        BY <2>1 DEF AcceptedWasAsked, Asked, Replace
    <2> QED BY <1>5, <2>2, <2>3, <2>4 DEF Unproved
<1>10. ~CollectionEnds(j)
    <2> SUFFICES ASSUME CollectionEnds(j) PROVE FALSE
        OBVIOUS
    <2>1. PICK status \in IF job[j].step = "accepted" THEN {"connected"} ELSE {"error", row.status} :
              row' = [row EXCEPT !.status = status]
        BY <1>u DEF CollectionEnds
    <2>2. row'.status = status /\ Pair(row') = Pair(row)
        BY <1>t, <2>1 DEF Row, Pair
    <2>3. status # row.status
        BY <1>u, <1>t, <2>1 DEF Row
    <2>4. job[j].step = "accepted"
        BY <1>c, <2>1, <2>2, <2>3
    <2>5. Pair(row) \in proved
        BY <1>6, <2>4 DEF AcceptedWasAsked, Asked, CollectionEnds
    <2> QED BY <1>5, <2>2, <2>5 DEF Unproved
<1> QED BY <1>1, <1>2, <1>3, <1>4, <1>7, <1>8, <1>9, <1>10

(* An account comes to be connected only with settings and key its provider *)
(* has accepted, unless who connects it set out from a row that has changed *)
(* since (_invalidate_connection_state, apply_validated_oci_replacement).   *)
THEOREM Connected == AccountsSpec => ConnectedWasProved
<1>1. AccountInv /\ [AccountsNext]_accountVars =>
          [Unproved(row') /\ ~Unproved(row) =>
              \E j \in Jobs :
                  job[j].step # "done" /\ job'[j].step = "done" /\ job[j].copy # row]_accountVars
    BY ConnectsTheProved DEF accountVars, Unproved
<1> QED BY <1>1, AccountInvInductive, PTL DEF AccountsSpec, ConnectedWasProved

-----------------------------------------------------------------------------
(* What a collection of an AWS account declares (AwsCollection). *)

(* All that a section asks of a resource.                                   *)
Reads(s) == s.before \cup s.list \cup s.judged \cup UNION {s.each[k].reads : k \in DOMAIN s.each}

(* The sections of a collector are of different kinds, and one that looks at *)
(* the hour is the only one.                                                *)
Formed(C) ==
    /\ Len(C) \in Nat \ {0} /\ DOMAIN C = 1..Len(C)
    /\ \A i \in 1..Len(C) : Len(C[i].each) \in Nat /\ DOMAIN C[i].each = 1..Len(C[i].each)
    /\ \A i, j \in 1..Len(C) : C[i].kind = C[j].kind => i = j
    /\ \A i \in 1..Len(C) : "hours" \in C[i].before => Len(C) = 1

(* Every collector is made of sections of this form.                        *)
LEMMA CollectorsFormed == \A rule \in RuleKeys : Formed(Collectors[rule])
<1> USE DEF Listing, Call
<1>1. Formed(collect_ebs_unattached)
    BY DEF Formed, collect_ebs_unattached
<1>2. Formed(collect_eip_unassociated)
    BY DEF Formed, collect_eip_unassociated
<1>3. Formed(collect_old_snapshots)
    BY DEF Formed, collect_old_snapshots
<1>4. Formed(collect_stopped_ec2_with_ebs)
    BY DEF Formed, collect_stopped_ec2_with_ebs
<1>5. Formed(collect_nonprod_ec2_outside_hours)
    BY DEF Formed, collect_nonprod_ec2_outside_hours
<1>6. Formed(collect_load_balancers_no_traffic)
    BY DEF Formed, collect_load_balancers_no_traffic, ListTags, Metric
<1>7. Formed(collect_idle_nonprod_rds)
    BY DEF Formed, collect_idle_nonprod_rds, ListTags, Metric
<1>8. Formed(collect_missing_tags)
    BY DEF Formed, collect_missing_tags, ListTags
<1>9. Formed(collect_cost_growth_anomalies)
    BY DEF Formed, collect_cost_growth_anomalies, CostContributors, Metric
<1> QED BY <1>1, <1>2, <1>3, <1>4, <1>5, <1>6, <1>7, <1>8, <1>9 DEF RuleKeys, Collectors

(* What a rule needs of a resource is what its section for that kind asks.   *)
LEMMA NeedsAre ==
    ASSUME NEW rule \in RuleKeys, NEW i \in DOMAIN Collectors[rule]
    PROVE  Needs(rule, Collectors[rule][i].kind) = Reads(Collectors[rule][i])
<1> DEFINE C == Collectors[rule]
<1>1. {j \in DOMAIN C : C[j].kind = C[i].kind} = {i}
    BY CollectorsFormed DEF Formed
<1>2. Needs(rule, C[i].kind) = UNION {Reads(C[j]) : j \in {k \in DOMAIN C : C[k].kind = C[i].kind}}
    BY DEF Needs, Reads
<1> QED BY <1>1, <1>2

-----------------------------------------------------------------------------
(* The types of the state. *)
AdapterKinds == {d.kind : d \in Adapters}
ScanSteps == {"queued", "claimed", "credentials", "inventory", "collectors", "returned",
              "completed", "failed"}
ScanRow == [rule : RuleKeys, step : ScanSteps, scope : SUBSET Regions, regions : SUBSET Regions,
            active : BOOLEAN, scopes : SUBSET (Regions \X AdapterKinds),
            left : SUBSET (Regions \cup {"global"})]
CollectorRow == [region : Regions \cup {"global", "none"}, section : Nat,
                 step : {"none", "before", "list", "each", "return"}, excluded : SUBSET Assets,
                 listed : SUBSET Assets, kept : SUBSET Assets, item : Assets \cup {"none"},
                 call : Nat, found : SUBSET Assets]
ScopeRow == [region : Regions \cup {"global"}, status : {"SUCCESS", "FAILED", "SKIPPED"}]
ResultRow == [found : SUBSET Assets, failed : SUBSET (Regions \cup {"global"}),
              seen : SUBSET Assets, complete : SUBSET (Regions \X AdapterKinds),
              rows : SUBSET ScopeRow]

CloudTyped ==
    /\ fact \in [Assets -> SUBSET Facts]
    /\ always \in [Assets -> SUBSET Facts] /\ ever \in [Assets -> SUBSET Facts]
    /\ configured \in SUBSET Regions
    /\ \A a \in Assets : asset[a].region \in Regions /\ asset[a].kind \in RuleKinds(scan.rule)
(* The types of the state of an AWS collection.                             *)
AwsTyped ==
    /\ CloudTyped
    /\ scan \in ScanRow /\ collecting \in CollectorRow /\ result \in ResultRow

(* What held throughout holds now, and what holds now has held; and the hour *)
(* is the same for all resources.                                            *)
FactsKnown ==
    /\ \A a \in Assets : always[a] \subseteq fact[a] /\ fact[a] \subseteq ever[a]
    /\ \A a, b \in Assets : "hours" \in fact[a] => "hours" \in fact[b]

(* The rule applied to the resource throughout, or at some time each part.   *)
Throughout(a) == Needs(scan.rule, asset[a].kind) \subseteq always[a]
Sometime(a) == Needs(scan.rule, asset[a].kind) \subseteq ever[a]

(* Nothing is collected before the collectors, or once they have returned;   *)
(* only a rule that is enabled is run.                                       *)
InOrder ==
    /\ scan.step # "collectors" => collecting = NoCollector
    /\ scan.step \in {"queued", "claimed", "credentials", "inventory"} =>
          result.found = {} /\ result.failed = {} /\ result.rows = {}
    /\ scan.step \in {"queued", "claimed"} => result.seen = {} /\ result.complete = {}
    /\ collecting.step # "none" \/ scan.left # {} \/ result.failed # {} => scan.active
    /\ scan.step \notin {"collectors", "completed", "failed"} => scan.left = {}

(* The kinds the collector is through with.                                  *)
Passed(kind) ==
    \/ collecting.step = "return"
    \/ \E i \in DOMAIN Collectors[scan.rule] :
          i < collecting.section /\ Collectors[scan.rule][i].kind = kind

(* What is excluded when the listing is asked for.                           *)
ExcludedRight ==
    \A a \in Assets : /\ Section.before \subseteq always[a] => a \notin collecting.excluded
                      /\ a \notin collecting.excluded => Section.before \subseteq ever[a]

(* What is kept of the listing: all the rule applies to, and nothing it has  *)
(* been seen not to apply to.                                                *)
KeptRight ==
    /\ collecting.kept \subseteq collecting.listed
    /\ \A a \in Assets :
          asset[a].kind = Section.kind /\ Within(a, collecting.region) /\ Throughout(a) =>
              a \in collecting.kept \cup collecting.found
    /\ \A a \in collecting.kept :
          /\ asset[a].kind = Section.kind
          /\ Section.before \cup Section.list \cup Section.judged \subseteq ever[a]
          /\ collecting.item = a =>
                \A k \in 1..collecting.call :
                    k \in DOMAIN Section.each => Section.each[k].reads \subseteq ever[a]

(* A collector at work has found all it is through with, and nothing else.  *)
CollectorSound ==
    collecting.step # "none" =>
        /\ collecting.section \in DOMAIN Collectors[scan.rule]
        /\ collecting.region \in Regions \cup {"global"}
        /\ \A a \in collecting.found : Sometime(a)
        /\ \A a \in Assets :
              Within(a, collecting.region) /\ Throughout(a) /\ Passed(asset[a].kind) =>
                  a \in collecting.found
        /\ collecting.step \in {"before", "list"} => collecting.call = 0
        /\ collecting.step = "list" => ExcludedRight
        /\ collecting.step = "each" => KeptRight

(* The regions a rule is run for, those of them it has been run for, and what*)
(* is missed in none of these.                                               *)
RunFor == IF scan.rule \in GlobalCollectors THEN {"global"} ELSE scan.regions
HasRun(g) ==
    /\ scan.active /\ scan.step \in {"collectors", "returned"} /\ g \in RunFor \ scan.left
    /\ ~(collecting.step # "none" /\ collecting.region = g) /\ g \notin result.failed
FoundIn(g) == \A a \in Assets : Within(a, g) /\ Throughout(a) => a \in result.found

(* What is returned and declared holds of what was there.                   *)
ResultSound ==
    /\ \A a \in result.found : Sometime(a)
    /\ \A a \in result.seen : "here" \in ever[a]
    /\ \A a \in Assets : /\ "here" \in always[a]
                         /\ <<asset[a].region, asset[a].kind>> \in result.complete
                         => a \in result.seen
    /\ \A g : HasRun(g) => FoundIn(g)
    /\ \A put \in result.rows :
          put.status = "SUCCESS" /\ put.region \in scan.regions \cup {"global"} => FoundIn(put.region)

(* The inductive invariant of an AWS collection.                            *)
AwsInv == AwsTyped /\ FactsKnown /\ InOrder /\ CollectorSound /\ ResultSound

(* The collection has not begun. *)
LEMMA AwsBegins == AwsInit => AwsInv
<1> SUFFICES ASSUME AwsInit PROVE AwsInv
    OBVIOUS
<1>1. PICK r \in RuleKeys :
          scan = [rule |-> r, step |-> "queued", scope |-> {}, regions |-> {}, active |-> FALSE,
                  scopes |-> {}, left |-> {}]
    BY DEF AwsInit
<1>2. scan \in ScanRow
    BY <1>1 DEF ScanRow, ScanSteps
<1>3. NoCollector \in CollectorRow
    BY DEF NoCollector, CollectorRow
<1>4. result \in ResultRow
    BY DEF AwsInit, ResultRow
<1>5. \E a \in Assets, missing \in {{}} \cup {{f} : f \in Facts \ {"hours"}} :
          fact = [b \in Assets |-> IF b = a THEN Facts \ missing ELSE Facts]
    BY DEF AwsInit
<1>6. fact \in [Assets -> SUBSET Facts] /\ \A a \in Assets : "hours" \in fact[a]
    BY <1>5 DEF Facts
<1>7. AwsTyped /\ FactsKnown
    BY <1>2, <1>3, <1>4, <1>6 DEF AwsInit, AwsTyped, CloudTyped, FactsKnown
<1>8. InOrder /\ CollectorSound /\ ResultSound
    BY <1>1 DEF AwsInit, InOrder, CollectorSound, ResultSound, NoCollector, HasRun
<1> QED BY <1>7, <1>8 DEF AwsInv

(* Time only makes less hold throughout, and more have held.                 *)
LEMMA Later ==
    ASSUME AwsInv, UNCHANGED <<asset, scan, collecting, result>>, CloudTyped', FactsKnown',
           \A a \in Assets : always'[a] \subseteq always[a] /\ ever[a] \subseteq ever'[a]
    PROVE  AwsInv'
<1>1. \A a \in Assets : (Throughout(a)' => Throughout(a)) /\ (Sometime(a) => Sometime(a)')
    BY DEF Throughout, Sometime
<1>2. AwsTyped' /\ InOrder'
    BY DEF AwsInv, AwsTyped, InOrder
<1>3. ExcludedRight => ExcludedRight'
    BY DEF ExcludedRight, Section
<1>4. Section' = Section
    BY DEF Section
<1>5. KeptRight /\ collecting.kept \subseteq Assets => KeptRight'
    BY <1>1, <1>4 DEF KeptRight, Within
<1>6. collecting.kept \subseteq Assets /\ collecting.found \subseteq Assets
      /\ result.found \subseteq Assets /\ result.seen \subseteq Assets
    BY DEF AwsInv, AwsTyped, CollectorRow, ResultRow
<1>7. CollectorSound'
    BY <1>1, <1>3, <1>5, <1>6 DEF AwsInv, CollectorSound, Passed, Within
<1>8. /\ \A g : HasRun(g)' = HasRun(g)
      /\ \A g : FoundIn(g) => FoundIn(g)'
    BY <1>1 DEF HasRun, RunFor, FoundIn, Within
<1>9. ResultSound'
    BY <1>1, <1>6, <1>8 DEF AwsInv, ResultSound
<1> QED BY <1>2, <1>7, <1>9 DEF AwsInv

(* The account changes, or what is configured of it.                         *)
LEMMA CloudKept ==
    ASSUME AwsInv, CloudChanges \/ PolicyPut \/ PolicyReset \/ RegionsEdited
    PROVE  AwsInv'
<1>t. /\ fact \in [Assets -> SUBSET Facts] /\ always \in [Assets -> SUBSET Facts]
      /\ ever \in [Assets -> SUBSET Facts] /\ CloudTyped /\ FactsKnown
    BY DEF AwsInv, AwsTyped, CloudTyped
<1>1. CASE CloudChanges
    <2>1. PICK a \in Assets, f \in Facts :
              /\ fact' = [b \in Assets |->
                            IF b = a \/ f = "hours"
                            THEN (fact[b] \ {f}) \cup ({f} \ fact[b]) ELSE fact[b]]
              /\ always' = [b \in Assets |-> always[b] \cap fact'[b]]
              /\ ever' = [b \in Assets |-> ever[b] \cup fact'[b]]
        BY <1>1 DEF CloudChanges
    <2>2. fact' \in [Assets -> SUBSET Facts]
        BY <1>t, <2>1
    <2>3. /\ always' \in [Assets -> SUBSET Facts] /\ ever' \in [Assets -> SUBSET Facts]
          /\ \A b \in Assets : /\ always'[b] = always[b] \cap fact'[b]
                               /\ ever'[b] = ever[b] \cup fact'[b]
        BY <1>t, <2>1, <2>2
    <2>4. CloudTyped'
        BY <1>1, <1>t, <2>2, <2>3 DEF CloudChanges, CloudTyped
    <2>5. \A b, c \in Assets : "hours" \in fact'[b] => "hours" \in fact'[c]
        <3>1. CASE f = "hours"
            BY <1>t, <2>1, <3>1 DEF FactsKnown
        <3>2. CASE f # "hours"
            BY <1>t, <2>1, <3>2 DEF FactsKnown
        <3> QED BY <3>1, <3>2
    <2>6. FactsKnown'
        BY <2>3, <2>5 DEF FactsKnown
    <2> QED BY <1>1, <2>3, <2>4, <2>6, Later DEF CloudChanges
<1>2. CASE PolicyPut \/ PolicyReset \/ RegionsEdited
    <2>1. UNCHANGED <<fact, always, ever, asset, scan, collecting, result>>
        BY <1>2 DEF PolicyPut, PolicyReset, RegionsEdited
    <2>2. configured' \in SUBSET Regions
        BY <1>2, <1>t DEF PolicyPut, PolicyReset, RegionsEdited, CloudTyped
    <2>3. CloudTyped' /\ FactsKnown'
        BY <1>t, <2>1, <2>2 DEF CloudTyped, FactsKnown
    <2> QED BY <2>1, <2>3, Later
<1> QED BY <1>1, <1>2

(* A step before the collectors. *)
LEMMA PreparationKept ==
    ASSUME AwsInv, Claim \/ Configure \/ Authenticate \/ StartCollectors
    PROVE  AwsInv'
<1>t. /\ CloudTyped /\ FactsKnown /\ scan \in ScanRow /\ collecting = NoCollector
      /\ collecting \in CollectorRow /\ result \in ResultRow /\ InOrder /\ ResultSound
      /\ scan.step \in {"queued", "claimed", "credentials", "inventory"}
    BY DEF AwsInv, AwsTyped, InOrder, Claim, Configure, Authenticate, StartCollectors
<1>1. UNCHANGED <<fact, asset, configured, collecting, result>>
    BY DEF Claim, Configure, Authenticate, StartCollectors, cloudVars
<1>2. PICK step \in {"claimed", "credentials", "inventory", "collectors"},
           scope \in SUBSET Regions, regions \in SUBSET Regions, active \in BOOLEAN,
           scopes \in SUBSET (Regions \X AdapterKinds), left \in SUBSET (Regions \cup {"global"}) :
          /\ scan' = [scan EXCEPT !.step = step, !.scope = scope, !.regions = regions,
                                  !.active = active, !.scopes = scopes, !.left = left]
          /\ step \in {"claimed", "credentials", "inventory"} => left = {}
          /\ left # {} => active
          /\ step = "collectors" /\ active =>
                left = IF scan.rule \in GlobalCollectors THEN {"global"} ELSE regions
    <2>1. /\ scan.scope \in SUBSET Regions /\ scan.regions \in SUBSET Regions
          /\ scan.active \in BOOLEAN /\ scan.scopes \in SUBSET (Regions \X AdapterKinds)
          /\ scan.left = {} /\ configured \in SUBSET Regions
        BY <1>t DEF ScanRow, InOrder, CloudTyped
    <2>2. CASE Claim
        <3>1. scan' = [scan EXCEPT !.step = "claimed", !.scope = configured,
                          !.regions = scan.regions, !.active = scan.active,
                          !.scopes = scan.scopes, !.left = scan.left]
            BY <2>2, <1>t DEF Claim, ScanRow
        <3> QED BY <2>1, <3>1
    <2>3. CASE Configure
        <3>1. Enabled \in BOOLEAN
            BY DEF Enabled
        <3>2. scan' = [scan EXCEPT !.step = "credentials", !.scope = scan.scope,
                          !.regions = configured, !.active = Enabled,
                          !.scopes = scan.scopes, !.left = scan.left]
            BY <2>3, <1>t DEF Configure, ScanRow
        <3> QED BY <2>1, <3>1, <3>2
    <2>4. CASE Authenticate
        <3> DEFINE some == {<<g, asset[a].kind>> : g \in scan.regions, a \in Assets}
                             \cap (Regions \X {d.kind : d \in Adapters})
        <3>1. /\ some \in SUBSET (Regions \X AdapterKinds)
              /\ scan' = [scan EXCEPT !.step = "inventory", !.scopes = some]
            BY <2>4 DEF Authenticate, AdapterKinds
        <3> HIDE DEF some
        <3>2. scan' = [scan EXCEPT !.step = "inventory", !.scope = scan.scope,
                          !.regions = scan.regions, !.active = scan.active,
                          !.scopes = some, !.left = scan.left]
            BY <1>t, <3>1 DEF ScanRow
        <3> some \in SUBSET (Regions \X AdapterKinds)
            BY <3>1
        <3> /\ "inventory" \in {"claimed", "credentials", "inventory", "collectors"}
            /\ scan.left \in SUBSET (Regions \cup {"global"})
            BY <2>1
        <3> /\ scan.scope \in SUBSET Regions /\ scan.regions \in SUBSET Regions
            /\ scan.active \in BOOLEAN
            BY <2>1
        <3> WITNESS "inventory" \in {"claimed", "credentials", "inventory", "collectors"},
                    scan.scope \in SUBSET Regions, scan.regions \in SUBSET Regions,
                    scan.active \in BOOLEAN, some \in SUBSET (Regions \X AdapterKinds),
                    scan.left \in SUBSET (Regions \cup {"global"})
        <3> QED BY <2>1, <3>2
    <2>5. CASE StartCollectors
        <3> DEFINE left == IF ~scan.active THEN {}
                           ELSE IF scan.rule \in GlobalCollectors THEN {"global"}
                           ELSE scan.regions
        <3>1. left \in SUBSET (Regions \cup {"global"}) /\ (left # {} => scan.active)
            BY <2>1
        <3>2. scan' = [scan EXCEPT !.step = "collectors", !.scope = scan.scope,
                          !.regions = scan.regions, !.active = scan.active,
                          !.scopes = scan.scopes, !.left = left]
            BY <1>t, <2>5 DEF StartCollectors, ScanRow
        <3> QED BY <2>1, <3>1, <3>2
    <2> QED BY <2>2, <2>3, <2>4, <2>5
<1>3. /\ scan' \in ScanRow /\ scan'.step = step /\ scan'.rule = scan.rule
      /\ scan'.regions = regions /\ scan'.active = active /\ scan'.left = left
    BY <1>t, <1>2 DEF ScanRow, ScanSteps
<1>4. /\ always' \in [Assets -> SUBSET Facts] /\ ever' \in [Assets -> SUBSET Facts]
      /\ \A a \in Assets : always'[a] \subseteq fact[a] /\ fact[a] \subseteq ever'[a]
      /\ scan.step \notin {"queued", "claimed"} => UNCHANGED <<always, ever>>
    BY <1>t DEF CloudTyped, FactsKnown, Claim, Configure, Authenticate, StartCollectors, cloudVars
<1>5. AwsTyped' /\ FactsKnown'
    BY <1>t, <1>1, <1>3, <1>4 DEF AwsTyped, CloudTyped, FactsKnown
<1>6. InOrder'
    <2>1. step \in {"claimed", "credentials"} => scan.step \in {"queued", "claimed"}
        <3>1. Authenticate \/ StartCollectors => scan'.step \in {"inventory", "collectors"}
            <4>1. CASE Authenticate
                <5> DEFINE some == {<<g, asset[a].kind>> : g \in scan.regions, a \in Assets}
                                     \cap (Regions \X {d.kind : d \in Adapters})
                <5>1. scan' = [scan EXCEPT !.step = "inventory", !.scopes = some]
                    BY <4>1 DEF Authenticate
                <5> HIDE DEF some
                <5> QED BY <1>t, <5>1 DEF ScanRow
            <4>2. CASE StartCollectors
                <5> DEFINE all == IF ~scan.active THEN {}
                                   ELSE IF scan.rule \in GlobalCollectors THEN {"global"}
                                   ELSE scan.regions
                <5>1. scan' = [scan EXCEPT !.step = "collectors", !.left = all]
                    BY <4>2 DEF StartCollectors
                <5> HIDE DEF all
                <5> QED BY <1>t, <5>1 DEF ScanRow
            <4> QED BY <4>1, <4>2
        <3> QED BY <1>3, <3>1 DEF Claim, Configure
    <2>2. result.found = {} /\ result.failed = {} /\ result.rows = {}
        BY <1>t DEF InOrder
    <2>3. NoCollector.step = "none"
        BY DEF NoCollector
    <2>4. step = "claimed" => result.seen = {} /\ result.complete = {}
        BY <1>t, <2>1 DEF InOrder
    <2> QED BY <1>t, <1>1, <1>2, <1>3, <2>2, <2>3, <2>4 DEF InOrder
<1>7. CollectorSound'
    BY <1>t, <1>1 DEF CollectorSound, NoCollector
<1>8. ResultSound'
    <2>1. result.found = {} /\ result.failed = {} /\ result.rows = {}
        BY <1>t DEF InOrder
    <2>2. \A g : ~HasRun(g)'
        BY <1>2, <1>3 DEF HasRun, RunFor
    <2>3. CASE scan.step \in {"queued", "claimed"}
        <3>1. result.seen = {} /\ result.complete = {}
            BY <1>t, <2>3 DEF InOrder
        <3> QED BY <1>1, <2>1, <2>2, <3>1 DEF ResultSound
    <2>4. CASE scan.step \notin {"queued", "claimed"}
        BY <1>t, <1>1, <1>4, <2>1, <2>2, <2>4 DEF ResultSound
    <2> QED BY <2>3, <2>4
<1> QED BY <1>5, <1>6, <1>7, <1>8 DEF AwsInv

(* A kind of a region is discovered: all that is there, or some pages of it. *)
LEMMA DiscoveryKept ==
    ASSUME AwsInv, DiscoverScope
    PROVE  AwsInv'
<1>t. /\ AwsTyped /\ CloudTyped /\ FactsKnown /\ scan \in ScanRow /\ collecting = NoCollector
      /\ result \in ResultRow /\ InOrder /\ ResultSound /\ scan.step = "inventory"
    BY DEF AwsInv, AwsTyped, InOrder, DiscoverScope
<1>1. PICK region \in Regions, adapter \in Adapters :
          /\ <<region, adapter.kind>> \in scan.scopes
          /\ DiscoverKind(region, adapter)
          /\ scan' = [scan EXCEPT !.scopes = @ \ {<<region, adapter.kind>>}]
    BY DEF DiscoverScope
<1>2. UNCHANGED <<cloudVars, policy, configured, collecting>>
    BY DEF DiscoverScope
<1>3. /\ scan' \in ScanRow /\ scan'.step = scan.step /\ scan'.rule = scan.rule
      /\ scan'.regions = scan.regions /\ scan'.active = scan.active /\ scan'.left = scan.left
    <2>1. scan.scopes \ {<<region, adapter.kind>>} \in SUBSET (Regions \X AdapterKinds)
        BY <1>t DEF ScanRow
    <2> QED BY <1>t, <1>1, <2>1 DEF ScanRow
<1> DEFINE present == {a \in Assets : Within(a, region) /\ asset[a].kind = adapter.kind
                                        /\ "here" \in fact[a]}
<1>4. PICK seen \in SUBSET present, complete \in {{}, {<<region, adapter.kind>>}} :
          /\ complete # {} => seen = present
          /\ result' = [result EXCEPT !.seen = @ \cup seen, !.complete = @ \cup complete]
    <2>1. /\ result.complete \cup {} = result.complete
          /\ result \in ResultRow
        BY <1>t
    <2>2. CASE result' = [result EXCEPT !.seen = @ \cup present,
                                        !.complete = @ \cup {<<region, adapter.kind>>}]
        BY <2>2
    <2>3. ASSUME NEW pages \in SUBSET present, result' = [result EXCEPT !.seen = @ \cup pages]
          PROVE  result' = [result EXCEPT !.seen = @ \cup pages, !.complete = @ \cup {}]
        BY <2>1, <2>3 DEF ResultRow
    <2>4. \/ result' = [result EXCEPT !.seen = @ \cup present,
                                      !.complete = @ \cup {<<region, adapter.kind>>}]
          \/ \E pages \in SUBSET present : result' = [result EXCEPT !.seen = @ \cup pages]
        BY <1>1 DEF DiscoverKind
    <2> QED BY <2>2, <2>3, <2>4
<1>5. <<region, adapter.kind>> \in Regions \X AdapterKinds
    BY DEF AdapterKinds
<1>6. /\ result' \in ResultRow /\ result'.found = result.found /\ result'.failed = result.failed
      /\ result'.rows = result.rows /\ result'.seen = result.seen \cup seen
      /\ result'.complete = result.complete \cup complete
    BY <1>t, <1>4, <1>5 DEF ResultRow
<1>7. AwsTyped' /\ FactsKnown' /\ InOrder'
    BY <1>t, <1>2, <1>3, <1>6 DEF AwsTyped, CloudTyped, FactsKnown, InOrder, cloudVars
<1>8. CollectorSound'
    BY <1>t, <1>2 DEF CollectorSound, NoCollector
<1>9. ResultSound'
    <2>1. result.found = {} /\ result.rows = {}
        BY <1>t DEF InOrder
    <2>2. \A g : ~HasRun(g)'
        BY <1>t, <1>3 DEF HasRun
    <2>3. \A a \in result'.seen : "here" \in ever'[a]
        BY <1>t, <1>2, <1>6 DEF ResultSound, FactsKnown, cloudVars
    <2>4. ASSUME NEW a \in Assets, "here" \in always'[a],
                 <<asset'[a].region, asset'[a].kind>> \in result'.complete
          PROVE  a \in result'.seen
        <3>1. CASE <<asset[a].region, asset[a].kind>> \in result.complete
            BY <1>t, <1>2, <1>6, <2>4, <3>1 DEF ResultSound, cloudVars
        <3>2. CASE <<asset[a].region, asset[a].kind>> \in complete
            <4>1. complete # {} /\ asset[a].region = region /\ asset[a].kind = adapter.kind
                BY <3>2
            <4>2. a \in present
                BY <1>t, <1>2, <2>4, <4>1 DEF FactsKnown, Within, cloudVars
            <4> QED BY <1>4, <1>6, <4>1, <4>2
        <3> QED BY <1>2, <1>6, <2>4, <3>1, <3>2 DEF cloudVars
    <2> QED BY <1>6, <2>1, <2>2, <2>3, <2>4 DEF ResultSound
<1> QED BY <1>7, <1>8, <1>9 DEF AwsInv

-----------------------------------------------------------------------------
(* A collector at work. *)

(* The section it is in asks all that the rule needs of that kind.           *)
LEMMA SectionAsks ==
    ASSUME AwsInv, collecting.step # "none"
    PROVE  /\ scan.step = "collectors" /\ scan.active
           /\ Formed(Collectors[scan.rule])
           /\ collecting.section \in 1..Len(Collectors[scan.rule])
           /\ Section = Collectors[scan.rule][collecting.section]
           /\ \A a \in Assets :
                 asset[a].kind = Section.kind =>
                     Needs(scan.rule, asset[a].kind) = Reads(Section)
<1>1. scan.rule \in RuleKeys
    BY DEF AwsInv, AwsTyped, ScanRow
<1>2. Formed(Collectors[scan.rule])
    BY <1>1, CollectorsFormed
<1>3. collecting.section \in DOMAIN Collectors[scan.rule]
    BY DEF AwsInv, CollectorSound
<1>4. Section = Collectors[scan.rule][collecting.section]
    BY DEF Section
<1>5. scan.step = "collectors" /\ scan.active
    BY DEF AwsInv, InOrder, NoCollector
<1>6. DOMAIN Collectors[scan.rule] = 1..Len(Collectors[scan.rule])
    BY <1>2 DEF Formed
<1> QED BY <1>1, <1>2, <1>3, <1>4, <1>5, <1>6, NeedsAre

(* Every resource is of a kind of some section. *)
LEMMA KindsAreSections ==
    ASSUME AwsInv, NEW a \in Assets
    PROVE  \E i \in DOMAIN Collectors[scan.rule] : Collectors[scan.rule][i].kind = asset[a].kind
<1>1. asset[a].kind \in RuleKinds(scan.rule)
    BY DEF AwsInv, AwsTyped, CloudTyped
<1> QED BY <1>1 DEF RuleKinds

(* Its steps change nothing else. *)
LEMMA CollectorMoves ==
    ASSUME AwsInv, collecting.step # "none", collecting' \in CollectorRow,
           collecting'.step # "none", collecting'.region = collecting.region,
           UNCHANGED <<cloudVars, configured, scan, result>>, CollectorSound'
    PROVE  AwsInv'
<1>1. scan.step = "collectors" /\ scan.active
    BY SectionAsks
<1>2. AwsTyped' /\ FactsKnown' /\ InOrder'
    BY <1>1 DEF AwsInv, AwsTyped, CloudTyped, FactsKnown, InOrder, cloudVars
<1>3. /\ \A g : HasRun(g)' = HasRun(g)
      /\ \A g : FoundIn(g)' = FoundIn(g)
    BY DEF HasRun, RunFor, FoundIn, Within, Throughout, cloudVars
<1>4. ResultSound'
    BY <1>3 DEF AwsInv, ResultSound, Sometime, cloudVars
<1> QED BY <1>2, <1>4 DEF AwsInv

(* What is asked before the listing excludes only what the rule spares.     *)
LEMMA ReadBeforeKept ==
    ASSUME AwsInv, ReadBefore
    PROVE  AwsInv'
<1>t. /\ collecting \in CollectorRow /\ FactsKnown /\ CollectorSound /\ collecting.step = "before"
      /\ always \in [Assets -> SUBSET Facts]
    BY DEF AwsInv, AwsTyped, CloudTyped, ReadBefore
<1>u. UNCHANGED <<cloudVars, policy, configured, scan, result>>
    BY DEF ReadBefore
<1>s. /\ collecting.section \in 1..Len(Collectors[scan.rule]) /\ Formed(Collectors[scan.rule])
      /\ Section = Collectors[scan.rule][collecting.section]
      /\ \A a \in Assets :
            asset[a].kind = Section.kind => Needs(scan.rule, asset[a].kind) = Reads(Section)
    BY <1>t, SectionAsks
<1>1. CASE "hours" \in Section.before /\ Refused({"hours"}) # {}
    <2>1. collecting' = [collecting EXCEPT !.step = "return"]
        BY <1>1 DEF ReadBefore
    <2>2. /\ collecting' \in CollectorRow /\ collecting'.step = "return"
          /\ collecting'.region = collecting.region /\ collecting'.found = collecting.found
          /\ collecting'.section = collecting.section
        BY <1>t, <2>1 DEF CollectorRow
    <2>3. ASSUME NEW a \in Assets PROVE ~Throughout(a)
        <3>1. "hours" \notin fact[a]
            BY <1>t, <1>1 DEF Refused, FactsKnown
        <3>2. asset[a].kind = Section.kind
            <4>1. Len(Collectors[scan.rule]) = 1
                BY <1>1, <1>s DEF Formed
            <4>2. PICK i \in DOMAIN Collectors[scan.rule] : Collectors[scan.rule][i].kind = asset[a].kind
                BY KindsAreSections
            <4>3. i = collecting.section
                BY <1>s, <4>1, <4>2 DEF Formed
            <4> QED BY <1>s, <4>2, <4>3
        <3>3. "hours" \in Needs(scan.rule, asset[a].kind)
            BY <1>1, <1>s, <3>2 DEF Reads
        <3> QED BY <1>t, <3>1, <3>3 DEF Throughout, FactsKnown
    <2>4. CollectorSound'
        BY <1>t, <1>u, <1>s, <2>2, <2>3
           DEF CollectorSound, Sometime, Throughout, Within, cloudVars
    <2> QED BY <1>t, <1>u, <2>2, <2>4, CollectorMoves
<1>2. CASE ~("hours" \in Section.before /\ Refused({"hours"}) # {})
    <2> DEFINE excluded == Refused(Section.before)
    <2>1. /\ collecting' = [collecting EXCEPT !.step = "list", !.excluded = excluded]
          /\ excluded \in SUBSET Assets
        BY <1>2 DEF ReadBefore, Refused
    <2>2. \A a \in Assets : /\ Section.before \subseteq always[a] => a \notin excluded
                            /\ a \notin excluded => Section.before \subseteq ever[a]
        BY <1>t DEF Refused, FactsKnown
    <2> HIDE DEF excluded
    <2>3. /\ collecting' \in CollectorRow /\ collecting'.step = "list"
          /\ collecting'.region = collecting.region /\ collecting'.found = collecting.found
          /\ collecting'.section = collecting.section /\ collecting'.call = collecting.call
          /\ collecting'.excluded = excluded
        BY <1>t, <2>1 DEF CollectorRow
    <2>4. Section' = Section
        BY <1>u, <2>3 DEF Section
    <2>5. ExcludedRight'
        BY <1>u, <2>2, <2>3, <2>4 DEF ExcludedRight, cloudVars
    <2>6. CollectorSound'
        BY <1>t, <1>u, <2>3, <2>5
           DEF CollectorSound, Sometime, Throughout, Within, Passed, cloudVars
    <2> QED BY <1>t, <1>u, <2>3, <2>6, CollectorMoves
<1> QED BY <1>1, <1>2

(* A listing keeps all the rule applies to.                                 *)
LEMMA ListKept ==
    ASSUME AwsInv, List
    PROVE  AwsInv'
<1>t. /\ collecting \in CollectorRow /\ FactsKnown /\ CollectorSound /\ collecting.step = "list"
      /\ ExcludedRight
    BY DEF AwsInv, AwsTyped, CollectorSound, List
<1>u. UNCHANGED <<cloudVars, policy, configured, scan, result>>
    BY DEF List
<1>s. \A a \in Assets :
          asset[a].kind = Section.kind => Needs(scan.rule, asset[a].kind) = Reads(Section)
    BY <1>t, SectionAsks
<1> DEFINE listed == {a \in Assets \ Refused(Section.list) :
                        Within(a, collecting.region) /\ asset[a].kind = Section.kind}
           kept == listed \ (Refused(Section.judged) \cup collecting.excluded)
<1>1. collecting' = [collecting EXCEPT !.step = "each", !.listed = listed, !.kept = kept]
    BY DEF List
<1>2. listed \in SUBSET Assets /\ kept \in SUBSET Assets /\ kept \subseteq listed
    OBVIOUS
<1>3. ASSUME NEW a \in Assets, asset[a].kind = Section.kind, Within(a, collecting.region),
             Throughout(a)
      PROVE  a \in kept
    <2>1. Reads(Section) \subseteq always[a] /\ always[a] \subseteq fact[a]
        BY <1>t, <1>s, <1>3 DEF Throughout, FactsKnown
    <2>2. Section.before \subseteq always[a] /\ Section.list \subseteq fact[a]
          /\ Section.judged \subseteq fact[a]
        BY <2>1 DEF Reads
    <2> QED BY <1>t, <1>3, <2>2 DEF ExcludedRight, Refused
<1>4. ASSUME NEW a \in kept
      PROVE  /\ asset[a].kind = Section.kind
             /\ Section.before \cup Section.list \cup Section.judged \subseteq ever[a]
    <2>1. Section.list \subseteq fact[a] /\ Section.judged \subseteq fact[a]
        BY DEF Refused
    <2>2. Section.before \subseteq ever[a] /\ fact[a] \subseteq ever[a]
        BY <1>t DEF ExcludedRight, FactsKnown
    <2> QED BY <2>1, <2>2
<1> HIDE DEF listed, kept
<1>5. /\ collecting' \in CollectorRow /\ collecting'.step = "each"
      /\ collecting'.region = collecting.region /\ collecting'.found = collecting.found
      /\ collecting'.section = collecting.section /\ collecting'.call = collecting.call
      /\ collecting'.kept = kept /\ collecting'.listed = listed
    BY <1>t, <1>1, <1>2 DEF CollectorRow
<1>6. Section' = Section
    BY <1>u, <1>5 DEF Section
<1>7. collecting'.call = 0
    BY <1>t, <1>5 DEF CollectorSound
<1>8. KeptRight'
    <2>1. \A k \in 1..collecting'.call : FALSE
        BY <1>7
    <2> QED BY <1>u, <1>2, <1>3, <1>4, <1>5, <1>6, <2>1 DEF KeptRight, Throughout, Within, cloudVars
<1>9. CollectorSound'
    BY <1>t, <1>u, <1>5, <1>8
       DEF CollectorSound, Sometime, Throughout, Within, Passed, cloudVars
<1> QED BY <1>t, <1>u, <1>5, <1>9, CollectorMoves

(* A call for one resource finds it or lets it go, for a reason.            *)
LEMMA AskKept ==
    ASSUME AwsInv, Ask
    PROVE  AwsInv'
<1>t. /\ collecting \in CollectorRow /\ FactsKnown /\ CollectorSound /\ collecting.step = "each"
      /\ KeptRight
    BY DEF AwsInv, AwsTyped, CollectorSound, Ask
<1>u. UNCHANGED <<cloudVars, policy, configured, scan, result>>
    BY DEF Ask
<1>s. /\ \A a \in Assets :
            asset[a].kind = Section.kind => Needs(scan.rule, asset[a].kind) = Reads(Section)
      /\ Len(Section.each) \in Nat /\ DOMAIN Section.each = 1..Len(Section.each)
    BY <1>t, SectionAsks DEF Formed
<1>n. collecting.call \in Nat /\ collecting.listed \in SUBSET Assets
      /\ collecting.kept \in SUBSET Assets /\ collecting.found \in SUBSET Assets
    BY <1>t DEF CollectorRow
<1> DEFINE asked == Section.each[collecting.call + 1]
           keptOf(a) == IF a \in Refused(asked.reads) THEN collecting.kept \ {a}
                        ELSE collecting.kept
           doneOf(a) == \/ collecting.call + 1 = Len(Section.each)
                        \/ asked.stops /\ a \notin keptOf(a)
<1>1. PICK a \in collecting.listed :
          /\ collecting.call = 0 \/ collecting.item = a
          /\ collecting.call < Len(Section.each)
          /\ collecting' =
                IF doneOf(a)
                THEN [collecting EXCEPT !.call = 0, !.item = "none",
                         !.listed = @ \ {a}, !.kept = keptOf(a) \ {a},
                         !.found = @ \cup (keptOf(a) \cap {a})]
                ELSE [collecting EXCEPT !.call = @ + 1, !.item = a, !.kept = keptOf(a)]
    BY DEF Ask
<1> DEFINE kept == keptOf(a)
           next == collecting.call + 1
<1>2. a \in Assets /\ kept \in SUBSET collecting.kept /\ collecting.kept \ {a} \subseteq kept
    BY <1>n
<1>3. next \in DOMAIN Section.each /\ next \in Nat /\ asked = Section.each[next]
    BY <1>n, <1>s, <1>1
<1>4. a \in kept => asked.reads \subseteq ever[a]
    <2>1. a \in kept => asked.reads \subseteq fact[a]
        BY <1>2 DEF Refused
    <2>2. fact[a] \subseteq ever[a]
        BY <1>t, <1>2 DEF FactsKnown
    <2> QED BY <2>1, <2>2
<1>5. a \in collecting.kept /\ asset[a].kind = Section.kind /\ Throughout(a) => a \in kept
    <2>1. asset[a].kind = Section.kind /\ Throughout(a) => asked.reads \subseteq fact[a]
        BY <1>t, <1>s, <1>2, <1>3 DEF Throughout, Reads, FactsKnown
    <2> QED BY <2>1 DEF Refused
<1>6. \A k \in 1..next : a \in kept => Section.each[k].reads \subseteq ever[a]
    <2> SUFFICES ASSUME NEW k \in 1..next, a \in kept
                 PROVE  Section.each[k].reads \subseteq ever[a]
        OBVIOUS
    <2>1. CASE k = next
        BY <1>3, <1>4, <2>1
    <2>2. CASE k # next
        <3>1. k \in 1..collecting.call /\ collecting.item = a /\ a \in collecting.kept
              /\ k \in DOMAIN Section.each
            BY <1>n, <1>s, <1>1, <1>2, <2>2
        <3> QED BY <1>t, <3>1 DEF KeptRight
    <2> QED BY <2>1, <2>2
<1>7. Section' = Section
    <2>1. collecting'.section = collecting.section
        BY <1>t, <1>1 DEF CollectorRow
    <2> QED BY <1>u, <2>1 DEF Section
<1>8. CASE doneOf(a)
    <2>1. collecting' = [collecting EXCEPT !.call = 0, !.item = "none",
                            !.listed = @ \ {a}, !.kept = kept \ {a},
                            !.found = @ \cup (kept \cap {a})]
        BY <1>1, <1>8
    <2>2. a \in kept => Sometime(a)
        <3> SUFFICES ASSUME a \in kept PROVE Sometime(a)
            OBVIOUS
        <3>1. next = Len(Section.each)
            BY <1>8
        <3>2. \A k \in DOMAIN Section.each : Section.each[k].reads \subseteq ever[a]
            BY <1>s, <1>6, <3>1
        <3>3. /\ asset[a].kind = Section.kind
              /\ Section.before \cup Section.list \cup Section.judged \subseteq ever[a]
            BY <1>t, <1>2 DEF KeptRight
        <3>4. Reads(Section) \subseteq ever[a]
            BY <3>2, <3>3 DEF Reads
        <3> QED BY <1>s, <1>2, <3>3, <3>4 DEF Sometime
    <2> HIDE DEF kept, next, asked, doneOf, keptOf
    <2>3. /\ collecting' \in CollectorRow /\ collecting'.step = "each"
          /\ collecting'.region = collecting.region
          /\ collecting'.found = collecting.found \cup (kept \cap {a})
          /\ collecting'.section = collecting.section /\ collecting'.call = 0
          /\ collecting'.kept = kept \ {a} /\ collecting'.listed = collecting.listed \ {a}
        BY <1>t, <1>n, <1>2, <2>1 DEF CollectorRow
    <2>4. KeptRight'
        <3>1. \A k \in 1..collecting'.call : FALSE
            BY <2>3
        <3>2. collecting'.kept \subseteq collecting'.listed
            BY <1>t, <1>2, <2>3 DEF KeptRight
        <3>3. ASSUME NEW b \in Assets, asset[b].kind = Section.kind, Within(b, collecting.region),
                     Throughout(b)
              PROVE  b \in collecting'.kept \cup collecting'.found
            <4>1. b \in collecting.kept \cup collecting.found
                BY <1>t, <3>3 DEF KeptRight
            <4> QED BY <1>2, <1>5, <2>3, <3>3, <4>1
        <3>4. \A b \in collecting'.kept :
                  /\ asset[b].kind = Section.kind
                  /\ Section.before \cup Section.list \cup Section.judged \subseteq ever[b]
            BY <1>t, <1>2, <2>3 DEF KeptRight
        <3> QED BY <1>u, <1>7, <2>3, <3>1, <3>2, <3>3, <3>4 DEF KeptRight, Throughout, Within, cloudVars
    <2>5. CollectorSound'
        BY <1>t, <1>u, <2>2, <2>3, <2>4
           DEF CollectorSound, Sometime, Throughout, Within, Passed, cloudVars
    <2> QED BY <1>t, <1>u, <2>3, <2>5, CollectorMoves
<1>9. CASE ~doneOf(a)
    <2>1. collecting' = [collecting EXCEPT !.call = next, !.item = a, !.kept = kept]
        BY <1>1, <1>9
    <2> HIDE DEF kept, next, asked, doneOf, keptOf
    <2>3. /\ collecting' \in CollectorRow /\ collecting'.step = "each"
          /\ collecting'.region = collecting.region /\ collecting'.found = collecting.found
          /\ collecting'.section = collecting.section /\ collecting'.call = next
          /\ collecting'.item = a
          /\ collecting'.kept = kept /\ collecting'.listed = collecting.listed
        BY <1>t, <1>n, <1>2, <1>3, <2>1 DEF CollectorRow
    <2>4. KeptRight'
        <3>2. collecting'.kept \subseteq collecting'.listed
            BY <1>t, <1>2, <2>3 DEF KeptRight
        <3>3. ASSUME NEW b \in Assets, asset[b].kind = Section.kind, Within(b, collecting.region),
                     Throughout(b)
              PROVE  b \in collecting'.kept \cup collecting'.found
            <4>1. b \in collecting.kept \cup collecting.found
                BY <1>t, <3>3 DEF KeptRight
            <4> QED BY <1>2, <1>5, <2>3, <3>3, <4>1
        <3>4. ASSUME NEW b \in collecting'.kept
              PROVE  /\ asset[b].kind = Section.kind
                     /\ Section.before \cup Section.list \cup Section.judged \subseteq ever[b]
                     /\ collecting'.item = b =>
                           \A k \in 1..collecting'.call : Section.each[k].reads \subseteq ever[b]
            BY <1>t, <1>2, <1>6, <2>3 DEF KeptRight
        <3> QED BY <1>u, <1>7, <2>3, <3>2, <3>3, <3>4 DEF KeptRight, Throughout, Within, cloudVars
    <2>5. CollectorSound'
        BY <1>t, <1>u, <2>3, <2>4
           DEF CollectorSound, Sometime, Throughout, Within, Passed, cloudVars
    <2> QED BY <1>t, <1>u, <2>3, <2>5, CollectorMoves
<1> QED BY <1>8, <1>9

(* A section ends when nothing it kept is left to ask for.                  *)
LEMMA SectionEndsKept ==
    ASSUME AwsInv, SectionEnds
    PROVE  AwsInv'
<1>t. /\ collecting \in CollectorRow /\ CollectorSound /\ collecting.step = "each" /\ KeptRight
    BY DEF AwsInv, AwsTyped, CollectorSound, SectionEnds
<1>u. UNCHANGED <<cloudVars, policy, configured, scan, result>>
    BY DEF SectionEnds
<1>s. /\ collecting.section \in 1..Len(Collectors[scan.rule]) /\ Formed(Collectors[scan.rule])
      /\ Section = Collectors[scan.rule][collecting.section]
      /\ \A a \in Assets :
            asset[a].kind = Section.kind => Needs(scan.rule, asset[a].kind) = Reads(Section)
    BY <1>t, SectionAsks
<1> DEFINE C == Collectors[scan.rule]
           all == collecting.found \cup collecting.kept
           next == collecting.section + 1
<1>l. Len(C) \in Nat /\ DOMAIN C = 1..Len(C) /\ collecting.section \in Nat
    BY <1>s DEF Formed
<1>g. collecting.region \in Regions \cup {"global"}
    BY <1>t DEF CollectorSound
<1>n. all \in SUBSET Assets
    BY <1>t DEF CollectorRow
<1>1. \A a \in all : Sometime(a)
    <2> SUFFICES ASSUME NEW a \in collecting.kept PROVE Sometime(a)
        BY <1>t DEF CollectorSound
    <2>1. a \in Assets /\ collecting.listed # {}
        BY <1>t DEF KeptRight, CollectorRow
    <2>2. Section.each = <<>>
        BY <2>1 DEF SectionEnds
    <2>3. \A k \in DOMAIN Section.each : FALSE
        BY <2>2
    <2>4. /\ asset[a].kind = Section.kind
          /\ Section.before \cup Section.list \cup Section.judged \subseteq ever[a]
        BY <1>t DEF KeptRight
    <2>5. Reads(Section) \subseteq ever[a]
        BY <2>3, <2>4 DEF Reads
    <2> QED BY <1>s, <2>1, <2>4, <2>5 DEF Sometime
<1>2. ASSUME NEW a \in Assets, Within(a, collecting.region), Throughout(a),
             NEW i \in DOMAIN C, i <= collecting.section, C[i].kind = asset[a].kind
      PROVE  a \in all
    <2>1. CASE i = collecting.section
        BY <1>t, <1>s, <1>2, <2>1 DEF KeptRight
    <2>2. CASE i # collecting.section
        <3>1. i < collecting.section
            BY <1>l, <1>2, <2>2
        <3> QED BY <1>t, <1>2, <3>1 DEF CollectorSound, Passed
    <2> QED BY <2>1, <2>2
<1>3. CASE collecting.section < Len(C)
    <2>1. collecting' = [NoCollector EXCEPT !.region = collecting.region, !.found = all,
                                       !.section = next, !.step = "before"]
        BY <1>3 DEF SectionEnds
    <2>2. next \in 1..Len(C) /\ next \in Nat
        BY <1>l, <1>3
    <2> HIDE DEF all, next
    <2>3. /\ collecting' \in CollectorRow /\ collecting'.step = "before" /\ collecting'.call = 0
          /\ collecting'.region = collecting.region /\ collecting'.found = all
          /\ collecting'.section = next
        BY <1>t, <1>n, <2>1, <2>2 DEF CollectorRow, NoCollector
    <2>4. ASSUME NEW a \in Assets, Within(a, collecting.region), Throughout(a),
                 Passed(asset[a].kind)'
          PROVE  a \in all
        <3>1. PICK i \in DOMAIN C : i < next /\ C[i].kind = asset'[a].kind
            BY <1>u, <2>3, <2>4 DEF Passed
        <3>2. i <= collecting.section
            BY <1>l, <3>1 DEF next
        <3> QED BY <1>2, <1>u, <2>4, <3>1, <3>2 DEF cloudVars
    <2>5. CollectorSound'
        BY <1>u, <1>l, <1>g, <1>1, <2>2, <2>3, <2>4
           DEF CollectorSound, Sometime, Throughout, Within, Passed, cloudVars
    <2> QED BY <1>t, <1>u, <2>3, <2>5, CollectorMoves
<1>4. CASE ~(collecting.section < Len(C))
    <2>1. collecting' = [collecting EXCEPT !.step = "return", !.found = all, !.kept = {}]
        BY <1>4 DEF SectionEnds
    <2>2. \A i \in DOMAIN C : i <= collecting.section
        BY <1>l, <1>4
    <2>3. \A a \in Assets : Within(a, collecting.region) /\ Throughout(a) => a \in all
        <3> SUFFICES ASSUME NEW a \in Assets, Within(a, collecting.region), Throughout(a)
                     PROVE  a \in all
            OBVIOUS
        <3>1. PICK i \in DOMAIN C : C[i].kind = asset[a].kind
            BY KindsAreSections
        <3> QED BY <1>2, <2>2, <3>1
    <2> HIDE DEF all, next
    <2>4. /\ collecting' \in CollectorRow /\ collecting'.step = "return"
          /\ collecting'.region = collecting.region /\ collecting'.found = all
          /\ collecting'.section = collecting.section
        BY <1>t, <1>n, <2>1 DEF CollectorRow
    <2>5. CollectorSound'
        BY <1>u, <1>l, <1>s, <1>g, <1>1, <2>3, <2>4
           DEF CollectorSound, Sometime, Throughout, Within, cloudVars
    <2> QED BY <1>t, <1>u, <2>4, <2>5, CollectorMoves
<1> QED BY <1>3, <1>4

(* The collector of the next region starts. *)
LEMMA CollectRegionKept ==
    ASSUME AwsInv, CollectRegion
    PROVE  AwsInv'
<1>t. /\ CloudTyped /\ FactsKnown /\ scan \in ScanRow /\ result \in ResultRow /\ InOrder
      /\ ResultSound /\ scan.step = "collectors" /\ collecting = NoCollector
    BY DEF AwsInv, AwsTyped, CollectRegion
<1>1. PICK region \in scan.left :
          /\ scan' = [scan EXCEPT !.left = @ \ {region}]
          /\ collecting' = [NoCollector EXCEPT !.region = region, !.section = 1, !.step = "before"]
    BY DEF CollectRegion
<1>u. UNCHANGED <<cloudVars, policy, configured, result>>
    BY DEF CollectRegion
<1>2. /\ scan' \in ScanRow /\ scan'.step = scan.step /\ scan'.rule = scan.rule
      /\ scan'.regions = scan.regions /\ scan'.active = scan.active
      /\ scan'.left = scan.left \ {region}
    <2>1. scan.left \ {region} \in SUBSET (Regions \cup {"global"})
        BY <1>t DEF ScanRow
    <2> QED BY <1>t, <1>1, <2>1 DEF ScanRow
<1>3. /\ collecting' \in CollectorRow /\ collecting'.step = "before" /\ collecting'.call = 0
      /\ collecting'.region = region /\ region \in Regions \cup {"global"}
      /\ collecting'.section = 1 /\ collecting'.found = {}
    <2>1. region \in Regions \cup {"global"}
        BY <1>t DEF ScanRow
    <2> QED BY <1>1, <2>1 DEF CollectorRow, NoCollector
<1>4. scan.active
    BY <1>t DEF InOrder
<1>5. AwsTyped' /\ FactsKnown' /\ InOrder'
    BY <1>t, <1>u, <1>2, <1>3, <1>4 DEF AwsTyped, CloudTyped, FactsKnown, InOrder, cloudVars
<1>6. CollectorSound'
    <2>1. Formed(Collectors[scan.rule])
        BY <1>t, CollectorsFormed DEF ScanRow
    <2>2. 1 \in DOMAIN Collectors[scan.rule] /\ \A i \in DOMAIN Collectors[scan.rule] : ~(i < 1)
        BY <2>1 DEF Formed
    <2>3. \A kind : ~Passed(kind)'
        BY <1>2, <1>3, <2>2 DEF Passed
    <2> QED BY <1>2, <1>3, <2>2, <2>3 DEF CollectorSound
<1>7. ResultSound'
    <2>1. \A g : HasRun(g)' => HasRun(g)
        BY <1>t, <1>u, <1>2, <1>3 DEF HasRun, RunFor, NoCollector
    <2>2. \A g : FoundIn(g) => FoundIn(g)'
        BY <1>u, <1>2 DEF FoundIn, Within, Throughout, cloudVars
    <2> QED BY <1>t, <1>u, <1>2, <2>1, <2>2 DEF ResultSound, Sometime, cloudVars
<1> QED BY <1>5, <1>6, <1>7 DEF AwsInv

(* The collector of a region returns what it found, or drops it. *)
LEMMA CollectorOver ==
    ASSUME AwsInv, CollectorReturns \/ CollectorFails
    PROVE  AwsInv'
<1>t. /\ CloudTyped /\ FactsKnown /\ scan \in ScanRow /\ result \in ResultRow /\ InOrder
      /\ collecting \in CollectorRow /\ ResultSound /\ CollectorSound
      /\ collecting.step # "none"
    BY DEF AwsInv, AwsTyped, CollectorReturns, CollectorFails, Calls
<1>s. scan.step = "collectors" /\ scan.active
    BY <1>t, SectionAsks
<1>u. /\ UNCHANGED <<cloudVars, policy, configured, scan>> /\ collecting' = NoCollector
      /\ collecting'.step = "none"
    BY DEF CollectorReturns, CollectorFails, NoCollector
<1>n. NoCollector \in CollectorRow
    BY DEF NoCollector, CollectorRow
<1>1. PICK found \in SUBSET Assets, failed \in SUBSET {collecting.region} :
          /\ result' = [result EXCEPT !.found = @ \cup found, !.failed = @ \cup failed]
          /\ \A a \in found : Sometime(a)
          /\ failed = {} =>
                \A a \in Assets : Within(a, collecting.region) /\ Throughout(a) => a \in found
    <2>1. CASE CollectorReturns
        <3>1. result' = [result EXCEPT !.found = @ \cup collecting.found, !.failed = @ \cup {}]
            BY <1>t, <2>1 DEF CollectorReturns, ResultRow
        <3>2. /\ \A a \in collecting.found : Sometime(a)
              /\ \A a \in Assets : Within(a, collecting.region) /\ Throughout(a) => a \in collecting.found
            BY <1>t, <2>1 DEF CollectorReturns, CollectorSound, Passed
        <3>3. collecting.found \in SUBSET Assets
            BY <1>t DEF CollectorRow
        <3> QED BY <3>1, <3>2, <3>3
    <2>2. CASE CollectorFails
        <3>1. result' = [result EXCEPT !.found = @ \cup {}, !.failed = @ \cup {collecting.region}]
            BY <1>t, <2>2 DEF CollectorFails, ResultRow
        <3> QED BY <3>1
    <2> QED BY <2>1, <2>2
<1>r. collecting.region \in Regions \cup {"global"}
    BY <1>t DEF CollectorSound
<1>2. /\ result' \in ResultRow /\ result'.found = result.found \cup found
      /\ result'.failed = result.failed \cup failed /\ result'.seen = result.seen
      /\ result'.complete = result.complete /\ result'.rows = result.rows
    BY <1>t, <1>1, <1>r DEF ResultRow
<1>3. AwsTyped' /\ FactsKnown' /\ InOrder'
    BY <1>t, <1>s, <1>u, <1>n, <1>2 DEF AwsTyped, CloudTyped, FactsKnown, InOrder, cloudVars
<1>4. CollectorSound'
    BY <1>u DEF CollectorSound
<1>5. ResultSound'
    <2>1. \A g : FoundIn(g) => FoundIn(g)'
        BY <1>u, <1>2 DEF FoundIn, Within, Throughout, cloudVars
    <2>2. ASSUME NEW g, HasRun(g)' PROVE FoundIn(g)'
        <3>1. CASE g = collecting.region
            <4>1. failed = {}
                BY <1>2, <2>2, <3>1 DEF HasRun
            <4> QED BY <1>1, <1>u, <1>2, <3>1, <4>1 DEF FoundIn, Within, Throughout, cloudVars
        <3>2. CASE g # collecting.region
            <4>1. HasRun(g)
                BY <1>u, <1>2, <2>2, <3>2 DEF HasRun, RunFor
            <4> QED BY <1>t, <2>1, <4>1 DEF ResultSound
        <3> QED BY <3>1, <3>2
    <2>3. \A a \in result'.found : Sometime(a)'
        BY <1>t, <1>u, <1>1, <1>2 DEF ResultSound, Sometime, cloudVars
    <2> QED BY <1>t, <1>u, <1>2, <2>1, <2>2, <2>3 DEF ResultSound, cloudVars
<1> QED BY <1>3, <1>4, <1>5 DEF AwsInv

(* The scan fails, the collectors return, or the scope executions are written*)
(* of what they did.                                                         *)
LEMMA ScanEndKept ==
    ASSUME AwsInv, ScanFails \/ Return \/ Complete
    PROVE  AwsInv'
<1>t. /\ CloudTyped /\ FactsKnown /\ scan \in ScanRow /\ result \in ResultRow /\ InOrder
      /\ ResultSound
    BY DEF AwsInv, AwsTyped
<1>n. NoCollector \in CollectorRow /\ NoCollector.step = "none"
    BY DEF NoCollector, CollectorRow
<1>u. UNCHANGED <<cloudVars, policy, configured>> /\ collecting' = NoCollector
    BY <1>t DEF ScanFails, Return, Complete, InOrder
<1>1. PICK step \in {"failed", "returned", "completed"} :
          /\ scan' = [scan EXCEPT !.step = step]
          /\ step # "failed" => scan.left = {} /\ collecting = NoCollector
          /\ step = "returned" => scan.step = "collectors"
          /\ step = "completed" => scan.step = "returned"
          /\ step # "completed" => result' = result
    BY <1>t DEF ScanFails, Return, Complete, InOrder
<1>2. /\ scan' \in ScanRow /\ scan'.step = step /\ scan'.rule = scan.rule
      /\ scan'.regions = scan.regions /\ scan'.active = scan.active /\ scan'.left = scan.left
      /\ scan'.scope = scan.scope
    BY <1>t, <1>1 DEF ScanRow, ScanSteps
<1>3. /\ result' \in ResultRow /\ result'.found = result.found /\ result'.failed = result.failed
      /\ result'.seen = result.seen /\ result'.complete = result.complete
      /\ \A put \in result'.rows :
            \/ put \in result.rows
            \/ step = "completed" /\ put.region \in ScopeRegions
               /\ put.status = ScopeStatus(put.region)
    <2>1. CASE step # "completed"
        BY <1>t, <1>1, <2>1
    <2>2. CASE step = "completed"
        <3> DEFINE rows == IF Enabled
                           THEN {[region |-> g, status |-> ScopeStatus(g)] : g \in ScopeRegions}
                           ELSE {}
        <3>1. result' = [result EXCEPT !.rows = rows]
            BY <1>2, <2>2 DEF ScanFails, Return, Complete, ScanRow
        <3>2. ScopeRegions \subseteq Regions \cup {"global"}
            BY <1>t DEF ScopeRegions, ScanRow
        <3>3. \A g : ScopeStatus(g) \in {"SUCCESS", "FAILED", "SKIPPED"}
            BY DEF ScopeStatus
        <3>4. rows \in SUBSET ScopeRow
            BY <3>2, <3>3 DEF ScopeRow
        <3>5. \A put \in rows : put.region \in ScopeRegions /\ put.status = ScopeStatus(put.region)
            OBVIOUS
        <3> HIDE DEF rows
        <3>6. /\ result' \in ResultRow /\ result'.found = result.found
              /\ result'.failed = result.failed /\ result'.seen = result.seen
              /\ result'.complete = result.complete /\ result'.rows = rows
            BY <1>t, <3>1, <3>4 DEF ResultRow
        <3> QED BY <2>2, <3>5, <3>6
    <2> QED BY <2>1, <2>2
<1>4. AwsTyped' /\ FactsKnown'
    BY <1>t, <1>u, <1>n, <1>2, <1>3 DEF AwsTyped, CloudTyped, FactsKnown, cloudVars
<1>5. InOrder'
    BY <1>t, <1>u, <1>n, <1>1, <1>2, <1>3 DEF InOrder
<1>6. CollectorSound'
    BY <1>u, <1>n DEF CollectorSound
<1>7. \A g : FoundIn(g)' = FoundIn(g)
    BY <1>u, <1>2, <1>3 DEF FoundIn, Within, Throughout, cloudVars
<1>8. \A g : HasRun(g)' => HasRun(g)
    BY <1>u, <1>n, <1>1, <1>2, <1>3 DEF HasRun, RunFor
<1>9. ASSUME NEW put \in result'.rows, put.status = "SUCCESS",
             put.region \in scan.regions \cup {"global"}
      PROVE  FoundIn(put.region)
    <2>1. CASE put \in result.rows
        BY <1>t, <1>9, <2>1 DEF ResultSound
    <2>2. CASE put \notin result.rows
        <3>1. /\ step = "completed" /\ scan.step = "returned" /\ scan.left = {}
              /\ collecting = NoCollector /\ put.region \in ScopeRegions
              /\ ScopeStatus(put.region) = "SUCCESS"
            BY <1>1, <1>3, <1>9, <2>2
        <3>2. put.region \notin result.failed /\ (scan.active \/ result.failed # {})
            BY <3>1 DEF ScopeStatus
        <3>3. scan.active
            BY <1>t, <3>2 DEF InOrder
        <3>4. put.region \in RunFor
            BY <1>t, <1>9, <3>1, AwsAssumption DEF ScopeRegions, RunFor, ScanRow
        <3>5. HasRun(put.region)
            BY <1>n, <3>1, <3>2, <3>3, <3>4 DEF HasRun
        <3> QED BY <1>t, <3>5 DEF ResultSound
    <2> QED BY <2>1, <2>2
<1>10. ResultSound'
    BY <1>t, <1>u, <1>2, <1>3, <1>7, <1>8, <1>9 DEF ResultSound, Sometime, cloudVars
<1> QED BY <1>4, <1>5, <1>6, <1>10 DEF AwsInv

(* No step of the account, of administrators or of the collection breaks it. *)
LEMMA AwsHolds == AwsSpec => []AwsInv
<1>1. AwsInv /\ [AwsNext]_awsVars => AwsInv'
    <2> SUFFICES ASSUME AwsInv, [AwsNext]_awsVars PROVE AwsInv'
        OBVIOUS
    <2>1. CASE UNCHANGED awsVars
        <3>1. CloudTyped' /\ FactsKnown'
            BY <2>1 DEF awsVars, cloudVars, AwsInv, AwsTyped, CloudTyped, FactsKnown
        <3> QED BY <2>1, <3>1, Later DEF awsVars, cloudVars
    <2> QED BY <2>1, CloudKept, PreparationKept, DiscoveryKept, ReadBeforeKept, ListKept, AskKept,
               SectionEndsKept, CollectRegionKept, CollectorOver, ScanEndKept DEF AwsNext
<1> QED BY <1>1, AwsBegins, PTL DEF AwsSpec

(* What a collection declares of an AWS account is so, for any number of its *)
(* resources and regions, whatever changes while it is collected             *)
(* (run_collectors and _aws_scope_rows).                                     *)
THEOREM AwsEvidence == AwsSpec => []AwsEvidenceIsSound
<1>1. AwsInv => AwsEvidenceIsSound
    <2> SUFFICES ASSUME AwsInv PROVE AwsEvidenceIsSound
        OBVIOUS
    <2>1. ResultSound
        BY DEF AwsInv
    <2>2. NothingMissed
        BY <2>1 DEF ResultSound, FoundIn, Throughout, NothingMissed
    <2>3. NothingInvented
        BY <2>1 DEF ResultSound, Sometime, NothingInvented
    <2> QED BY <2>2, <2>3 DEF AwsEvidenceIsSound
<1> QED BY <1>1, AwsHolds, PTL

-----------------------------------------------------------------------------
(* What a collection of an OCI tenancy declares (OciCollection). *)

(* The types of the state of an OCI collection. *)
OciSteps == {"credentials", "scope", "search", "services", "advisor", "usage", "monitoring",
             "correlation", "analyzed", "returned", "completed", "failed"}
TurnRow == [region : Nat, compartment : Nat, call : Nat]
OciRow == [rule : Analyzers, step : OciSteps, roots : Seq(Compartments), deep : BOOLEAN,
           regions : Seq(STRING), queue : Seq(Compartments), compartments : Seq(Compartments),
           complete : BOOLEAN, searched : SUBSET OciAssets, conflicts : SUBSET OciAssets,
           searchComplete : BOOLEAN, turn : TurnRow, listed : SUBSET OciAssets,
           view : [OciAssets -> SUBSET OciFacts], incomplete : SUBSET OciAssets,
           uncovered : SUBSET Kinds, errors : BOOLEAN, issues : BOOLEAN, fatal : BOOLEAN]
OciResultRow == [found : SUBSET OciAssets, seen : SUBSET OciAssets, complete : SUBSET Kinds,
                 rows : SUBSET [region : STRING, status : {"SUCCESS", "SKIPPED"}]]

FactsTyped ==
    /\ ociFact \in [OciAssets -> SUBSET OciFacts]
    /\ ociAlways \in [OciAssets -> SUBSET OciFacts] /\ ociEver \in [OciAssets -> SUBSET OciFacts]
    /\ \A a \in OciAssets : ociAlways[a] \subseteq ociFact[a] /\ ociFact[a] \subseteq ociEver[a]
    /\ \A a \in OciAssets : place[a].kind \in Kinds /\ place[a].compartment \in Compartments
OciTyped == FactsTyped /\ oci \in OciRow /\ ociResult \in OciResultRow

(* The steps with the scope resolved. *)
Scoped == oci.step \notin {"credentials", "scope", "failed"}

(* What the listing of a compartment tells of is in the scope.               *)
Expanded(c) == \A d \in Compartments : InSeq(d, Children[c]) => InSeq(d, oci.compartments)

(* The scope has what is configured and, if no listing was cut off, what is  *)
(* below what is not to be listed any more.                                  *)
ScopeRight ==
    /\ oci.step \notin {"credentials", "failed"} =>
          /\ \A i \in DOMAIN oci.roots : InSeq(oci.roots[i], oci.compartments)
          /\ oci.deep /\ oci.complete =>
                \A c \in Compartments :
                    InSeq(c, oci.compartments) => InSeq(c, oci.queue) \/ Expanded(c)
    /\ Scoped => oci.queue = <<>>

(* What went wrong is known to have. *)
ErrorsKnown == ~oci.errors => oci.complete /\ oci.uncovered = {} /\ oci.incomplete = {}

(* It is the turn of a call that is to be made. *)
TurnRight ==
    /\ oci.regions # <<>>
    /\ oci.step \in {"credentials", "scope", "search"} => oci.turn = FirstTurn(1)
    /\ oci.step \in {"search", "services"} => oci.compartments # <<>>
    /\ oci.step = "services" =>
          /\ oci.turn.region \in 1..Len(oci.regions)
          /\ oci.turn.compartment \in 1..Len(oci.compartments)
          /\ oci.turn.call \in 0..6
          /\ oci.turn.call = 0 => oci.turn.compartment = 1

(* The call j of the m-th compartment of the i-th region has had its turn.   *)
Behind(turn, i, m, j) ==
    \/ i < turn.region
    \/ i = turn.region /\ turn.call \in 1..5 /\ j <= 5
       /\ (m < turn.compartment \/ (m = turn.compartment /\ j < turn.call))
    \/ i = turn.region /\ turn.call = 6 /\ (j <= 5 \/ m < turn.compartment)
Done(i, m, j) ==
    /\ oci.step \notin {"credentials", "scope", "search", "failed"}
    /\ oci.step = "services" => Behind(oci.turn, i, m, j)

(* The call that lists a kind, and what it shows. *)
Lists(kind) == CASE kind = "compute_instance" -> 1 [] kind = "block_volume" -> 2
                 [] kind = "boot_volume" -> 3 [] OTHER -> 6
ShownOf(kind) == {"here", "state", "tags"} \cup (IF kind = "public_ip" THEN {"use"} ELSE {})

(* The call that tells of what is attached to it.                            *)
Attaches(a) == IF place[a].kind = "compute_instance" /\ place[a].boot THEN 5 ELSE 4

(* Once its listing has been, a resource that was there is listed with what  *)
(* held of it; and once the attachments have, it is known what they tell.    *)
ListedRight(a, i, m) ==
    /\ Done(i, m, Lists(place[a].kind)) /\ place[a].kind \notin oci.uncovered
       /\ "here" \in ociAlways[a] =>
          /\ a \in oci.listed
          /\ \A f \in ShownOf(place[a].kind) : f \in ociAlways[a] => f \in oci.view[a]
    /\ Done(i, m, Attaches(a)) /\ ~oci.errors /\ ~Straddles(a)
       /\ place[a].kind \in {"compute_instance", "block_volume"}
       /\ "here" \in ociAlways[a] /\ "use" \in ociAlways[a] => "use" \in oci.view[a]
Where(a, i, m) == oci.regions[i] = place[a].region /\ oci.compartments[m] = place[a].compartment
AllListed ==
    \A a \in OciAssets, i \in DOMAIN oci.regions, m \in DOMAIN oci.compartments :
        Where(a, i, m) => ListedRight(a, i, m)

(* Nothing is shown of a resource that never held; but that there is nothing *)
(* attached to a volume may be said of what is attached elsewhere.           *)
ShownWasSo ==
    \A a \in OciAssets : \A f \in oci.view[a] : f \in ociEver[a] \/ (f = "use" /\ Straddles(a))

(* What is declared. *)
Applies(a) ==
    /\ place[a].kind \in oci.rule.kinds /\ Configured(a) /\ ~Straddles(a)
    /\ oci.rule.needs \subseteq ociAlways[a]
Declared ==
    /\ \A a \in ociResult.found : Straddles(a) \/ oci.rule.needs \subseteq ociEver[a]
    /\ oci.step \in {"analyzed", "returned", "completed"} /\ ~oci.errors =>
          \A a \in OciAssets : Applies(a) => a \in ociResult.found
    /\ \A put \in ociResult.rows :
          put.status = "SUCCESS" => oci.step = "completed" /\ ~oci.errors
    /\ \A a \in OciAssets :
          place[a].kind \in ociResult.complete /\ Configured(a) /\ "here" \in ociAlways[a]
             => a \in ociResult.seen

(* The inductive invariant of an OCI collection.                            *)
OciInv ==
    /\ OciTyped /\ ScopeRight /\ ErrorsKnown /\ TurnRight /\ AllListed /\ ShownWasSo /\ Declared

(* Every rule asks for a resource that is there, and for what is shown of it.*)
LEMMA RulesNeed ==
    ASSUME NEW rule \in Analyzers
    PROVE  /\ "here" \in rule.needs
           /\ rule.kinds \subseteq Kinds
           /\ \A kind \in rule.kinds, f \in rule.needs :
                 \/ f \in ShownOf(kind)
                 \/ f = "use" /\ kind \in {"compute_instance", "block_volume"}
BY DEF Analyzers, BlockVolumeUnattached, PublicIpUnassigned, StoppedComputeWithStorage,
       UntaggedResource, Kinds, ShownOf

-----------------------------------------------------------------------------
(* The scope of an OCI collection. *)

(* The collection has not begun. *)
LEMMA OciBegins == OciInit => OciInv
<1> SUFFICES ASSUME OciInit PROVE OciInv
    OBVIOUS
<1> USE OciAssumption
<1>1. PICK rule \in Analyzers, roots \in {<<>>} \cup {<<c>> : c \in Compartments},
           deep \in BOOLEAN, n \in DOMAIN OciRegions :
          oci = [rule |-> rule, step |-> "credentials", roots |-> roots, deep |-> deep,
                    regions |-> SubSeq(OciRegions, 1, n),
                    queue |-> <<>>, compartments |-> <<>>, complete |-> TRUE,
                    searched |-> {}, conflicts |-> {}, searchComplete |-> TRUE,
                    turn |-> FirstTurn(1), listed |-> {}, view |-> NothingRead, incomplete |-> {},
                    uncovered |-> {}, errors |-> FALSE, issues |-> FALSE, fatal |-> FALSE]
    BY DEF OciInit
<1>2. roots \in Seq(Compartments)
    <2>1. CASE roots = <<>>
        BY <2>1
    <2>2. CASE roots # <<>>
        <3>1. PICK c \in Compartments : roots = <<c>>
            BY <2>2
        <3> QED BY <3>1
    <2> QED BY <2>1, <2>2
<1>3. SubSeq(OciRegions, 1, n) \in Seq(STRING) /\ SubSeq(OciRegions, 1, n) # <<>>
    <2>1. n \in 1..Len(OciRegions)
        OBVIOUS
    <2>2. /\ SubSeq(OciRegions, 1, n) \in Seq(STRING)
          /\ Len(SubSeq(OciRegions, 1, n)) = n
        BY <2>1, SubSeqProperties
    <2> QED BY <2>1, <2>2
<1>4. NothingRead \in [OciAssets -> SUBSET OciFacts] /\ \A a \in OciAssets : NothingRead[a] = {}
    BY DEF NothingRead
<1>5. FirstTurn(1) \in TurnRow
    BY DEF FirstTurn, TurnRow
<1>6. oci \in OciRow
    BY <1>1, <1>2, <1>3, <1>4, <1>5 DEF OciRow, OciSteps
<1>7. OciTyped
    BY <1>6 DEF OciInit, OciTyped, FactsTyped, OciResultRow, Place
<1>8. ScopeRight /\ ErrorsKnown /\ TurnRight
    BY <1>1, <1>3 DEF ScopeRight, ErrorsKnown, TurnRight, Scoped
<1>9. AllListed /\ ShownWasSo
    BY <1>1, <1>4 DEF AllListed, ListedRight, Done, ShownWasSo
<1>10. Declared
    BY <1>1 DEF OciInit, Declared
<1> QED BY <1>7, <1>8, <1>9, <1>10 DEF OciInv

-----------------------------------------------------------------------------
(* The calls of an OCI collection. *)

(* A turn of a call is passed on; nothing that was known is forgotten.       *)
Progress ==
    /\ oci.step = "services"
    /\ oci'.turn = NextTurn
    /\ oci'.step = IF NextTurn.region > Len(oci.regions) THEN "advisor" ELSE "services"
    /\ oci'.rule = oci.rule /\ oci'.roots = oci.roots /\ oci'.deep = oci.deep
    /\ oci'.regions = oci.regions /\ oci'.queue = oci.queue
    /\ oci'.compartments = oci.compartments /\ oci'.complete = oci.complete
    /\ oci.listed \subseteq oci'.listed
    /\ \A a \in OciAssets : oci.view[a] \subseteq oci'.view[a]
    /\ oci.uncovered \subseteq oci'.uncovered
    /\ oci.errors => oci'.errors
    /\ UNCHANGED <<ociFact, ociAlways, ociEver, place, ociResult>>

(* What has had its turn after a call had it before, or was this call.       *)
LEMMA TurnPasses ==
    ASSUME OciInv, Progress
    PROVE  /\ TurnRight'
           /\ \A i \in DOMAIN oci.regions, m \in DOMAIN oci.compartments, j \in 1..6 :
                 Done(i, m, j)' =>
                    \/ Done(i, m, j)
                    \/ i = oci.turn.region /\ m = oci.turn.compartment /\ j = oci.turn.call
<1> DEFINE turn == oci.turn
           last == turn.compartment = Len(oci.compartments)
           R == Len(oci.regions)
           C == Len(oci.compartments)
<1>1. /\ turn \in TurnRow /\ turn.region \in 1..R /\ turn.compartment \in 1..C
      /\ turn.call \in 0..6 /\ (turn.call = 0 => turn.compartment = 1)
      /\ R \in Nat /\ C \in Nat /\ DOMAIN oci.regions = 1..R /\ DOMAIN oci.compartments = 1..C
      /\ oci.regions # <<>> /\ oci.compartments # <<>>
    BY DEF OciInv, OciTyped, OciRow, TurnRight, Progress
<1>2. CASE turn.call < 5
    <2>1. /\ oci'.turn.region = turn.region /\ oci'.turn.compartment = turn.compartment
          /\ oci'.turn.call = turn.call + 1
        BY <1>1, <1>2 DEF Progress, NextTurn, TurnRow
    <2>2. oci'.step = "services"
        BY <1>1, <2>1 DEF Progress
    <2>3. TurnRight'
        BY <1>1, <1>2, <2>1, <2>2 DEF Progress, TurnRight
    <2>4. ASSUME NEW i \in DOMAIN oci.regions, NEW m \in DOMAIN oci.compartments, NEW j \in 1..6,
                 Behind(oci'.turn, i, m, j)
          PROVE  \/ Behind(turn, i, m, j)
                 \/ i = turn.region /\ m = turn.compartment /\ j = turn.call
        BY <1>1, <1>2, <2>1, <2>4 DEF Behind, TurnRow
    <2> QED BY <2>2, <2>3, <2>4 DEF Progress, Done
<1>3. CASE turn.call = 5 /\ ~last
    <2>1. /\ oci'.turn.region = turn.region /\ oci'.turn.compartment = turn.compartment + 1
          /\ oci'.turn.call = 1
        <3>1. NextTurn = [turn EXCEPT !.compartment = @ + 1, !.call = 1]
            BY <1>1, <1>3 DEF NextTurn, TurnRow
        <3> QED BY <1>1, <3>1 DEF Progress, TurnRow
    <2>2. oci'.step = "services"
        BY <1>1, <2>1 DEF Progress
    <2>3. TurnRight'
        BY <1>1, <1>3, <2>1, <2>2 DEF Progress, TurnRight
    <2>4. ASSUME NEW i \in DOMAIN oci.regions, NEW m \in DOMAIN oci.compartments, NEW j \in 1..6,
                 Behind(oci'.turn, i, m, j)
          PROVE  \/ Behind(turn, i, m, j)
                 \/ i = turn.region /\ m = turn.compartment /\ j = turn.call
        BY <1>1, <1>3, <2>1, <2>4 DEF Behind, TurnRow
    <2> QED BY <2>2, <2>3, <2>4 DEF Progress, Done
<1>4. CASE turn.call = 5 /\ last
    <2>1. /\ oci'.turn.region = turn.region /\ oci'.turn.compartment = 1
          /\ oci'.turn.call = 6
        <3>1. NextTurn = [turn EXCEPT !.compartment = 1, !.call = 6]
            BY <1>1, <1>4 DEF NextTurn, TurnRow
        <3> QED BY <1>1, <3>1 DEF Progress, TurnRow
    <2>2. oci'.step = "services"
        BY <1>1, <2>1 DEF Progress
    <2>3. TurnRight'
        BY <1>1, <1>4, <2>1, <2>2 DEF Progress, TurnRight
    <2>4. ASSUME NEW i \in DOMAIN oci.regions, NEW m \in DOMAIN oci.compartments, NEW j \in 1..6,
                 Behind(oci'.turn, i, m, j)
          PROVE  \/ Behind(turn, i, m, j)
                 \/ i = turn.region /\ m = turn.compartment /\ j = turn.call
        BY <1>1, <1>4, <2>1, <2>4 DEF Behind, TurnRow
    <2> QED BY <2>2, <2>3, <2>4 DEF Progress, Done
<1>5. CASE turn.call = 6 /\ ~last
    <2>1. /\ oci'.turn.region = turn.region /\ oci'.turn.compartment = turn.compartment + 1
          /\ oci'.turn.call = 6
        BY <1>1, <1>5 DEF Progress, NextTurn, TurnRow
    <2>2. oci'.step = "services"
        BY <1>1, <2>1 DEF Progress
    <2>3. TurnRight'
        BY <1>1, <1>5, <2>1, <2>2 DEF Progress, TurnRight
    <2>4. ASSUME NEW i \in DOMAIN oci.regions, NEW m \in DOMAIN oci.compartments, NEW j \in 1..6,
                 Behind(oci'.turn, i, m, j)
          PROVE  \/ Behind(turn, i, m, j)
                 \/ i = turn.region /\ m = turn.compartment /\ j = turn.call
        BY <1>1, <1>5, <2>1, <2>4 DEF Behind, TurnRow
    <2> QED BY <2>2, <2>3, <2>4 DEF Progress, Done
<1>6. CASE turn.call = 6 /\ last
    <2>1. oci'.turn = FirstTurn(turn.region + 1)
        BY <1>1, <1>6 DEF Progress, NextTurn, TurnRow
    <2>2. /\ oci'.turn.region = turn.region + 1 /\ oci'.turn.compartment = 1
          /\ oci'.turn.call = 0
        BY <2>1 DEF FirstTurn
    <2>3. oci'.step = IF turn.region + 1 > R THEN "advisor" ELSE "services"
        BY <2>2 DEF Progress
    <2>4. TurnRight'
        BY <1>1, <1>6, <2>2, <2>3 DEF Progress, TurnRight
    <2> QED BY <1>1, <1>6, <2>2, <2>3, <2>4 DEF Progress, Done, Behind
<1> QED BY <1>1, <1>2, <1>3, <1>4, <1>5, <1>6

(* A call that shows what it is to show, and is known to have failed if not. *)
LEMMA CallMade ==
    ASSUME OciInv, Progress, (oci \in OciRow)', ErrorsKnown', ShownWasSo',
           \A a \in OciAssets :
              /\ At(a) /\ Lists(place[a].kind) = oci.turn.call /\ place[a].kind \notin oci'.uncovered
                 /\ "here" \in ociAlways[a] =>
                    /\ a \in oci'.listed
                    /\ \A f \in ShownOf(place[a].kind) : f \in ociAlways[a] => f \in oci'.view[a]
              /\ At(a) /\ Attaches(a) = oci.turn.call /\ ~oci'.errors /\ ~Straddles(a)
                 /\ place[a].kind \in {"compute_instance", "block_volume"}
                 /\ "here" \in ociAlways[a] /\ "use" \in ociAlways[a] => "use" \in oci'.view[a]
    PROVE  OciInv'
<1>1. OciTyped'
    BY DEF Progress, OciInv, OciTyped, FactsTyped
<1>2. ScopeRight'
    BY DEF Progress, OciInv, ScopeRight, Scoped, Expanded
<1>3. TurnRight'
    BY TurnPasses
<1>4. AllListed'
    <2> SUFFICES ASSUME NEW a \in OciAssets, NEW i \in DOMAIN oci.regions,
                        NEW m \in DOMAIN oci.compartments, Where(a, i, m)
                 PROVE  ListedRight(a, i, m)'
        BY DEF Progress, AllListed, Where
    <2>1. ListedRight(a, i, m)
        BY DEF OciInv, AllListed
    <2>2. i = oci.turn.region /\ m = oci.turn.compartment /\ oci.turn.call \in 1..6 => At(a)
        BY DEF Where, At, NextCall
    <2>3. \A j \in 1..6 : Done(i, m, j)' => Done(i, m, j) \/ (At(a) /\ j = oci.turn.call)
        BY <2>2, TurnPasses
    <2>4. Lists(place[a].kind) \in 1..6 /\ Attaches(a) \in 1..6
        BY DEF Lists, Attaches
    <2>5. /\ Lists(place[a].kind)' = Lists(place[a].kind) /\ Attaches(a)' = Attaches(a)
          /\ Straddles(a)' <=> Straddles(a)
        BY DEF Progress, Lists, Attaches, Straddles
    <2>6. ShownOf(place[a].kind)' = ShownOf(place[a].kind)
        BY DEF Progress, ShownOf
    <2> QED BY <2>1, <2>3, <2>4, <2>5, <2>6 DEF Progress, ListedRight
<1>5. Declared'
    BY DEF Progress, OciInv, Declared, Configured, Applies, Straddles
<1> QED BY <1>1, <1>2, <1>3, <1>4, <1>5 DEF OciInv

(* What is in two sequences joined, and in one whose head is taken.          *)
LEMMA InJoined ==
    ASSUME NEW S, NEW s \in Seq(S), NEW t \in Seq(S), NEW c
    PROVE  InSeq(c, s \o t) <=> InSeq(c, s) \/ InSeq(c, t)
<1>1. /\ s \o t \in Seq(S) /\ Len(s \o t) = Len(s) + Len(t)
      /\ \A i \in 1 .. Len(s) + Len(t) :
            (s \o t)[i] = IF i <= Len(s) THEN s[i] ELSE t[i - Len(s)]
    BY ConcatProperties
<1>2. /\ Len(s) \in Nat /\ Len(t) \in Nat /\ DOMAIN s = 1..Len(s) /\ DOMAIN t = 1..Len(t)
      /\ DOMAIN (s \o t) = 1..(Len(s) + Len(t))
    BY <1>1
<1>3. ASSUME NEW i \in DOMAIN (s \o t) PROVE InSeq((s \o t)[i], s) \/ InSeq((s \o t)[i], t)
    <2>1. CASE i <= Len(s)
        BY <1>1, <1>2, <2>1 DEF InSeq
    <2>2. CASE i > Len(s)
        <3>1. i - Len(s) \in DOMAIN t /\ (s \o t)[i] = t[i - Len(s)]
            BY <1>1, <1>2, <2>2
        <3> QED BY <3>1 DEF InSeq
    <2> QED BY <1>2, <2>1, <2>2
<1>4. ASSUME NEW i \in DOMAIN s PROVE InSeq(s[i], s \o t)
    <2>1. i \in DOMAIN (s \o t) /\ (s \o t)[i] = s[i]
        BY <1>1, <1>2
    <2> QED BY <2>1 DEF InSeq
<1>5. ASSUME NEW i \in DOMAIN t PROVE InSeq(t[i], s \o t)
    <2>1. i + Len(s) \in DOMAIN (s \o t) /\ (s \o t)[i + Len(s)] = t[i]
        BY <1>1, <1>2
    <2> QED BY <2>1 DEF InSeq
<1> QED BY <1>3, <1>4, <1>5 DEF InSeq

LEMMA InTail ==
    ASSUME NEW S, NEW s \in Seq(S), s # <<>>, NEW c
    PROVE  /\ InSeq(c, s) => c = Head(s) \/ InSeq(c, Tail(s))
           /\ InSeq(c, Tail(s)) => InSeq(c, s)
<1>1. /\ Tail(s) \in Seq(S) /\ Len(Tail(s)) = Len(s) - 1
      /\ \A i \in 1 .. Len(Tail(s)) : Tail(s)[i] = s[i+1]
    BY HeadTailProperties
<1>2. Len(s) \in Nat /\ DOMAIN s = 1..Len(s) /\ DOMAIN Tail(s) = 1..(Len(s) - 1)
    BY <1>1
<1>3. ASSUME NEW i \in DOMAIN s PROVE s[i] = Head(s) \/ InSeq(s[i], Tail(s))
    <2>1. CASE i = 1
        BY <2>1
    <2>2. CASE i # 1
        <3>1. i - 1 \in DOMAIN Tail(s)
            BY <1>2, <2>2
        <3>2. Tail(s)[i - 1] = s[i - 1 + 1]
            BY <1>1, <3>1
        <3>3. i - 1 + 1 = i
            BY <1>2
        <3> QED BY <3>1, <3>2, <3>3 DEF InSeq
    <2> QED BY <2>1, <2>2
<1>4. ASSUME NEW i \in DOMAIN Tail(s) PROVE InSeq(Tail(s)[i], s)
    <2>1. i + 1 \in DOMAIN s /\ Tail(s)[i] = s[i + 1]
        BY <1>1, <1>2
    <2> QED BY <2>1 DEF InSeq
<1> QED BY <1>3, <1>4 DEF InSeq

(* The news of a listing are of it; those of all of it are all not known.    *)
LEMMA NewsAreNew ==
    ASSUME NEW S, NEW listed \in Seq(S), NEW n \in 0..Len(listed), NEW known,
           NEW new \in News(listed, n, known)
    PROVE  /\ new \in Seq(S)
           /\ \A c : InSeq(c, new) => InSeq(c, listed)
           /\ \A c : n = Len(listed) /\ InSeq(c, listed) => InSeq(c, known) \/ InSeq(c, new)
<1> DEFINE told == {listed[i] : i \in 1..n}
           news == told \ {known[i] : i \in DOMAIN known}
           f == [i \in 1..n |-> listed[i]]
<1>1. n \in Nat /\ 1..n \subseteq DOMAIN listed /\ DOMAIN listed = 1..Len(listed) /\ told \subseteq S
    <2>1. Len(listed) \in Nat /\ DOMAIN listed = 1..Len(listed)
        OBVIOUS
    <2>2. n \in Nat /\ 1..n \subseteq 1..Len(listed)
        BY <2>1
    <2> QED BY <2>1, <2>2
<1>2. IsFiniteSet(news)
    <2>1. f \in Surjection(1..n, told)
        BY DEF Surjection
    <2>2. IsFiniteSet(told)
        BY <1>1, <2>1, FS_NatSurjection DEF ExistsSurjection
    <2> QED BY <2>2, FS_Subset
<1>3. Cardinality(news) \in Nat
    BY <1>2, FS_CardinalityType
<1>4. /\ new \in [1..Cardinality(news) -> news]
      /\ \A c \in news : InSeq(c, new)
    BY DEF News
<1>5. new \in Seq(S)
    <2>1. news \subseteq S
        BY <1>1
    <2>2. PICK k \in Nat : k = Cardinality(news)
        BY <1>3
    <2>3. new \in [1..k -> S]
        BY <1>4, <2>1, <2>2
    <2> HIDE DEF news
    <2> QED BY <2>3
<1>6. ASSUME NEW c, InSeq(c, new) PROVE InSeq(c, listed)
    <2>1. c \in told
        BY <1>4, <1>6 DEF InSeq
    <2> QED BY <1>1, <2>1 DEF InSeq
<1>7. ASSUME NEW c, n = Len(listed), InSeq(c, listed) PROVE InSeq(c, known) \/ InSeq(c, new)
    <2>1. c \in told
        BY <1>1, <1>7 DEF InSeq
    <2> QED BY <1>4, <2>1 DEF InSeq
<1> QED BY <1>5, <1>6, <1>7

(* What was declared remains so while less has held throughout.              *)
LEMMA StillDeclared ==
    ASSUME OciInv, UNCHANGED <<place, ociResult>>,
           oci'.rule = oci.rule, oci'.roots = oci.roots, oci'.deep = oci.deep,
           oci'.regions = oci.regions,
           \A a \in OciAssets : /\ ociAlways'[a] \subseteq ociAlways[a]
                                /\ ociEver[a] \subseteq ociEver'[a],
           oci'.errors \/ ~oci.errors,
           oci'.step \in {"analyzed", "returned", "completed"} =>
              oci.step \in {"analyzed", "returned", "completed"},
           oci.step = "completed" => oci' = oci
    PROVE  Declared'
<1>1. ociResult.found \subseteq OciAssets
    BY DEF OciInv, OciTyped, OciResultRow
<1>2. ASSUME NEW a \in ociResult.found
      PROVE  (Straddles(a) \/ oci.rule.needs \subseteq ociEver[a])'
    <2>1. Straddles(a) \/ oci.rule.needs \subseteq ociEver[a]
        BY DEF OciInv, Declared
    <2> QED BY <1>1, <2>1 DEF Straddles
<1>3. ASSUME NEW a \in OciAssets, Applies(a)',
             oci'.step \in {"analyzed", "returned", "completed"}, ~oci'.errors
      PROVE  a \in ociResult.found
    <2>1. Applies(a)
        BY <1>3 DEF Applies, Configured, Straddles
    <2> QED BY <1>3, <2>1 DEF OciInv, Declared
<1>4. ASSUME NEW put \in ociResult.rows, put.status = "SUCCESS"
      PROVE  oci'.step = "completed" /\ ~oci'.errors
    BY <1>4 DEF OciInv, Declared
<1>5. ASSUME NEW a \in OciAssets, place[a].kind \in ociResult.complete, Configured(a)',
             "here" \in ociAlways'[a]
      PROVE  a \in ociResult.seen
    <2>1. Configured(a)
        BY <1>5 DEF Configured
    <2> QED BY <1>5, <2>1 DEF OciInv, Declared
<1> QED BY <1>2, <1>3, <1>4, <1>5 DEF Declared

(* The tenancy changes: less has held throughout, more at some time.         *)
LEMMA TenancyChanges == ASSUME OciInv, OciChanges PROVE OciInv'
<1>1. UNCHANGED <<place, oci, ociResult>>
    BY DEF OciChanges
<1>2. /\ ociFact' \in [OciAssets -> SUBSET OciFacts]
      /\ ociAlways' \in [OciAssets -> SUBSET OciFacts] /\ ociEver' \in [OciAssets -> SUBSET OciFacts]
      /\ \A a \in OciAssets : /\ ociAlways'[a] \subseteq ociFact'[a]
                              /\ ociFact'[a] \subseteq ociEver'[a]
                              /\ ociAlways'[a] \subseteq ociAlways[a]
                              /\ ociEver[a] \subseteq ociEver'[a]
    <2>1. FactsTyped
        BY DEF OciInv, OciTyped
    <2>2. PICK b \in OciAssets, f \in OciFacts :
             /\ ociFact' = [ociFact EXCEPT ![b] = (@ \ {f}) \cup ({f} \ @)]
             /\ ociAlways' = [ociAlways EXCEPT ![b] = @ \cap ociFact'[b]]
             /\ ociEver' = [ociEver EXCEPT ![b] = @ \cup ociFact'[b]]
        BY DEF OciChanges
    <2>3. ociFact' \in [OciAssets -> SUBSET OciFacts]
        BY <2>1, <2>2 DEF FactsTyped
    <2>4. /\ ociAlways' \in [OciAssets -> SUBSET OciFacts]
          /\ ociEver' \in [OciAssets -> SUBSET OciFacts]
        BY <2>1, <2>2, <2>3 DEF FactsTyped
    <2>5. ASSUME NEW a \in OciAssets
          PROVE  /\ ociAlways'[a] \subseteq ociFact'[a] /\ ociFact'[a] \subseteq ociEver'[a]
                 /\ ociAlways'[a] \subseteq ociAlways[a] /\ ociEver[a] \subseteq ociEver'[a]
        <3>1. CASE a = b
            BY <2>1, <2>2, <2>3, <3>1 DEF FactsTyped
        <3>2. CASE a # b
            BY <2>1, <2>2, <2>3, <3>2 DEF FactsTyped
        <3> QED BY <3>1, <3>2
    <2> QED BY <2>3, <2>4, <2>5
<1>3. OciTyped'
    BY <1>1, <1>2 DEF OciInv, OciTyped, FactsTyped
<1>4. ScopeRight' /\ ErrorsKnown' /\ TurnRight'
    BY <1>1 DEF OciInv, ScopeRight, ErrorsKnown, TurnRight, Scoped, Expanded
<1>5. AllListed'
    <2> SUFFICES ASSUME NEW a \in OciAssets, NEW i \in DOMAIN oci.regions,
                        NEW m \in DOMAIN oci.compartments, Where(a, i, m)
                 PROVE  ListedRight(a, i, m)'
        BY <1>1 DEF AllListed, Where
    <2>1. ListedRight(a, i, m)
        BY DEF OciInv, AllListed
    <2> QED BY <1>1, <1>2, <2>1 DEF ListedRight, Done, Attaches, Straddles
<1>6. ShownWasSo'
    BY <1>1, <1>2 DEF OciInv, ShownWasSo, Straddles
<1>7. Declared'
    BY <1>1, <1>2, StillDeclared
<1> QED BY <1>3, <1>4, <1>5, <1>6, <1>7 DEF OciInv

(* A collection that fails declares nothing. *)
LEMMA CollectionFails == ASSUME OciInv, OciScanFails PROVE OciInv'
<1>1. /\ oci.step \notin {"completed", "failed"} /\ oci' = [oci EXCEPT !.step = "failed"]
      /\ UNCHANGED <<ociFact, ociAlways, ociEver, place, ociResult>> /\ oci \in OciRow
    BY DEF OciInv, OciTyped, OciScanFails, OciMoves
<1>2. oci' \in OciRow /\ oci'.step = "failed"
    BY <1>1 DEF OciRow, OciSteps
<1>3. /\ oci'.rule = oci.rule /\ oci'.roots = oci.roots /\ oci'.deep = oci.deep
      /\ oci'.regions = oci.regions /\ oci'.view = oci.view /\ oci'.errors = oci.errors
      /\ oci'.complete = oci.complete /\ oci'.uncovered = oci.uncovered
      /\ oci'.incomplete = oci.incomplete
    BY <1>1 DEF OciRow
<1>4. OciTyped'
    BY <1>1, <1>2 DEF OciInv, OciTyped, FactsTyped
<1>5. ScopeRight' /\ ErrorsKnown' /\ TurnRight'
    BY <1>2, <1>3 DEF OciInv, ScopeRight, ErrorsKnown, TurnRight, Scoped
<1>6. AllListed' /\ ShownWasSo'
    BY <1>1, <1>2, <1>3 DEF OciInv, AllListed, ListedRight, Done, ShownWasSo, Straddles
<1>7. Declared'
    BY <1>1, <1>2, <1>3 DEF OciInv, Declared, Configured, Straddles
<1> QED BY <1>4, <1>5, <1>6, <1>7 DEF OciInv

(* The scope begins with what is configured, to be listed if so asked.       *)
LEMMA ScopeBegins == ASSUME OciInv, ResolveScope PROVE OciInv'
<1>1. /\ oci.step = "credentials"
      /\ oci' = [oci EXCEPT !.step = "scope", !.compartments = oci.roots,
                            !.queue = IF oci.deep THEN oci.roots ELSE <<>>]
      /\ UNCHANGED <<ociFact, ociAlways, ociEver, place, ociResult>> /\ oci \in OciRow
    BY DEF OciInv, OciTyped, ResolveScope, OciMoves
<1>2. /\ oci'.step = "scope" /\ oci'.compartments = oci.roots
      /\ oci'.queue = IF oci.deep THEN oci.roots ELSE <<>>
      /\ oci'.rule = oci.rule /\ oci'.roots = oci.roots /\ oci'.deep = oci.deep
      /\ oci'.regions = oci.regions /\ oci'.view = oci.view /\ oci'.errors = oci.errors
      /\ oci'.complete = oci.complete /\ oci'.uncovered = oci.uncovered
      /\ oci'.incomplete = oci.incomplete /\ oci'.turn = oci.turn
    BY <1>1 DEF OciRow
<1>3. oci' \in OciRow
    <2>1. (IF oci.deep THEN oci.roots ELSE <<>>) \in Seq(Compartments)
        BY <1>1 DEF OciRow
    <2> QED BY <1>1, <2>1 DEF OciRow, OciSteps
<1>4. OciTyped'
    BY <1>1, <1>3 DEF OciInv, OciTyped, FactsTyped
<1>5. ScopeRight' /\ ErrorsKnown' /\ TurnRight'
    BY <1>1, <1>2 DEF OciInv, ScopeRight, ErrorsKnown, TurnRight, Scoped, InSeq
<1>6. AllListed' /\ ShownWasSo'
    BY <1>1, <1>2 DEF OciInv, AllListed, ListedRight, Done, ShownWasSo, Straddles
<1>7. Declared'
    BY <1>1, <1>2 DEF OciInv, Declared, Configured, Straddles
<1> QED BY <1>4, <1>5, <1>6, <1>7 DEF OciInv

(* A listing adds what it tells of, to be listed in turn but for what is     *)
(* below the tenancy: what is below that is in the same answer.              *)
LEMMA ScopeGrows == ASSUME OciInv, ExpandCompartment PROVE OciInv'
<1> DEFINE all == Children[Head(oci.queue)]
<1>1. PICK n \in 0..Len(all) : \E new \in News(all, n, oci.compartments) :
              oci' = [oci EXCEPT
                  !.queue = Tail(@) \o (IF Head(oci.queue) = Tenancy THEN <<>> ELSE new),
                  !.compartments = @ \o new,
                  !.complete = @ /\ n = Len(all), !.errors = @ \/ n < Len(all)]
    BY DEF ExpandCompartment, OciMoves
<1>2. PICK new \in News(all, n, oci.compartments) :
              oci' = [oci EXCEPT
                  !.queue = Tail(@) \o (IF Head(oci.queue) = Tenancy THEN <<>> ELSE new),
                  !.compartments = @ \o new,
                  !.complete = @ /\ n = Len(all), !.errors = @ \/ n < Len(all)]
    BY <1>1
<1> DEFINE listed == IF Head(oci.queue) = Tenancy THEN <<>> ELSE new
<1>3. /\ oci.step = "scope" /\ oci.queue # <<>> /\ oci \in OciRow
      /\ UNCHANGED <<ociFact, ociAlways, ociEver, place, ociResult>>
    BY DEF OciInv, OciTyped, ExpandCompartment, OciMoves
<1>4. /\ oci.queue \in Seq(Compartments) /\ oci.compartments \in Seq(Compartments)
      /\ Head(oci.queue) \in Compartments /\ Tail(oci.queue) \in Seq(Compartments)
      /\ all \in Seq(Compartments)
    BY <1>3, HeadTailProperties, OciAssumption DEF OciRow
<1>5. /\ new \in Seq(Compartments)
      /\ \A c : InSeq(c, new) => InSeq(c, all)
      /\ \A c : n = Len(all) /\ InSeq(c, all) => InSeq(c, oci.compartments) \/ InSeq(c, new)
    BY <1>4, NewsAreNew
<1>6. listed \in Seq(Compartments)
    BY <1>5
<1>7. /\ oci'.step = "scope" /\ oci'.queue = Tail(oci.queue) \o listed
      /\ oci'.compartments = oci.compartments \o new
      /\ oci'.complete = (oci.complete /\ n = Len(all))
      /\ oci'.errors = (oci.errors \/ n < Len(all))
      /\ oci'.rule = oci.rule /\ oci'.roots = oci.roots /\ oci'.deep = oci.deep
      /\ oci'.regions = oci.regions /\ oci'.view = oci.view
      /\ oci'.uncovered = oci.uncovered /\ oci'.incomplete = oci.incomplete
      /\ oci'.turn = oci.turn
    <2> HIDE DEF all
    <2> QED BY <1>2, <1>3 DEF OciRow
<1>8. oci' \in OciRow
    <2>1. /\ Tail(oci.queue) \o listed \in Seq(Compartments)
          /\ oci.compartments \o new \in Seq(Compartments)
        BY <1>4, <1>5, <1>6, ConcatProperties
    <2>2. (oci.complete /\ n = Len(all)) \in BOOLEAN /\ (oci.errors \/ n < Len(all)) \in BOOLEAN
        BY <1>3 DEF OciRow
    <2> HIDE DEF all
    <2> QED BY <1>2, <1>3, <2>1, <2>2 DEF OciRow
<1>9. OciTyped'
    BY <1>3, <1>8 DEF OciInv, OciTyped, FactsTyped
<1> HIDE DEF listed
<1>10. \A c : /\ InSeq(c, oci'.compartments) <=> InSeq(c, oci.compartments) \/ InSeq(c, new)
              /\ InSeq(c, oci'.queue) <=> InSeq(c, Tail(oci.queue)) \/ InSeq(c, listed)
              /\ InSeq(c, oci.queue) => c = Head(oci.queue) \/ InSeq(c, Tail(oci.queue))
    <2> SUFFICES ASSUME NEW c
                 PROVE  /\ InSeq(c, oci'.compartments) <=> InSeq(c, oci.compartments) \/ InSeq(c, new)
                        /\ InSeq(c, oci'.queue) <=> InSeq(c, Tail(oci.queue)) \/ InSeq(c, listed)
                        /\ InSeq(c, oci.queue) => c = Head(oci.queue) \/ InSeq(c, Tail(oci.queue))
        OBVIOUS
    <2>1. InSeq(c, oci.compartments \o new) <=> InSeq(c, oci.compartments) \/ InSeq(c, new)
        BY <1>4, <1>5, InJoined
    <2>2. InSeq(c, Tail(oci.queue) \o listed) <=> InSeq(c, Tail(oci.queue)) \/ InSeq(c, listed)
        BY <1>4, <1>6, InJoined
    <2>3. InSeq(c, oci.queue) => c = Head(oci.queue) \/ InSeq(c, Tail(oci.queue))
        BY <1>3, <1>4, InTail
    <2> QED BY <1>7, <2>1, <2>2, <2>3
<1>11. ScopeRight'
    <2>1. \A i \in DOMAIN oci.roots : InSeq(oci.roots[i], oci'.compartments)
        BY <1>3, <1>10 DEF OciInv, ScopeRight
    <2>2. ASSUME oci.deep, oci.complete, n = Len(all),
                 NEW c \in Compartments, InSeq(c, oci'.compartments)
          PROVE  InSeq(c, oci'.queue) \/ Expanded(c)'
        <3> PICK h : h = Head(oci.queue)
            OBVIOUS
        <3>1. Expanded(h)'
            BY <1>5, <1>10, <2>2 DEF Expanded
        <3>2. CASE InSeq(c, oci.compartments)
            <4>1. InSeq(c, oci.queue) \/ Expanded(c)
                BY <1>3, <2>2, <3>2 DEF OciInv, ScopeRight
            <4>2. Expanded(c) => Expanded(c)'
                BY <1>10 DEF Expanded
            <4> QED BY <1>10, <3>1, <4>1, <4>2
        <3>3. CASE InSeq(c, new)
            <4>1. CASE Head(oci.queue) = Tenancy
                <5>1. \A d \in Compartments : InSeq(d, Children[c]) => InSeq(d, all)
                    BY <1>5, <3>3, <4>1, OciAssumption
                <5> QED BY <1>5, <1>10, <2>2, <5>1 DEF Expanded
            <4>2. CASE Head(oci.queue) # Tenancy
                BY <1>10, <3>3, <4>2 DEF listed
            <4> QED BY <4>1, <4>2
        <3> QED BY <1>10, <2>2, <3>2, <3>3
    <2> HIDE DEF all
    <2> QED BY <1>7, <2>1, <2>2 DEF ScopeRight, Scoped
<1>12. ErrorsKnown'
    <2>1. n = Len(all) \/ n < Len(all)
        BY <1>4
    <2> HIDE DEF all
    <2> QED BY <1>7, <2>1 DEF OciInv, ErrorsKnown
<1>13. TurnRight'
    BY <1>3, <1>7 DEF OciInv, TurnRight
<1>14. AllListed' /\ ShownWasSo'
    BY <1>3, <1>7 DEF OciInv, AllListed, ListedRight, Done, ShownWasSo, Straddles
<1>15. Declared'
    <2> HIDE DEF all
    <2> QED BY <1>3, <1>7, StillDeclared
<1> QED BY <1>9, <1>11, <1>12, <1>13, <1>14, <1>15 DEF OciInv

(* All compartments of the scope are known. *)
LEMMA ScopeKnown == ASSUME OciInv, ScopeResolved PROVE OciInv'
<1>1. /\ oci.step = "scope" /\ oci.queue = <<>> /\ oci \in OciRow
      /\ oci' = [oci EXCEPT !.step = IF oci.compartments = <<>> THEN "advisor" ELSE "search"]
      /\ UNCHANGED <<ociFact, ociAlways, ociEver, place, ociResult>>
    BY DEF OciInv, OciTyped, ScopeResolved, OciMoves
<1>2. /\ oci'.step = IF oci.compartments = <<>> THEN "advisor" ELSE "search"
      /\ oci'.rule = oci.rule /\ oci'.roots = oci.roots /\ oci'.deep = oci.deep
      /\ oci'.regions = oci.regions /\ oci'.view = oci.view /\ oci'.errors = oci.errors
      /\ oci'.complete = oci.complete /\ oci'.uncovered = oci.uncovered
      /\ oci'.incomplete = oci.incomplete /\ oci'.turn = oci.turn
      /\ oci'.compartments = oci.compartments /\ oci'.queue = oci.queue
    BY <1>1 DEF OciRow
<1>3. oci' \in OciRow
    BY <1>1 DEF OciRow, OciSteps
<1>4. OciTyped'
    BY <1>1, <1>3 DEF OciInv, OciTyped, FactsTyped
<1>5. ScopeRight'
    BY <1>1, <1>2 DEF OciInv, ScopeRight, Scoped, Expanded
<1>6. ErrorsKnown' /\ TurnRight'
    BY <1>1, <1>2 DEF OciInv, ErrorsKnown, TurnRight
<1>7. AllListed'
    <2>1. CASE oci.compartments = <<>>
        BY <1>2, <2>1 DEF AllListed
    <2>2. CASE oci.compartments # <<>>
        BY <1>2, <2>2 DEF AllListed, ListedRight, Done
    <2> QED BY <2>1, <2>2
<1>8. ShownWasSo'
    BY <1>1, <1>2 DEF OciInv, ShownWasSo, Straddles
<1>9. Declared'
    BY <1>1, <1>2, <1>4, StillDeclared DEF OciTyped, FactsTyped
<1> QED BY <1>4, <1>5, <1>6, <1>7, <1>8, <1>9 DEF OciInv

(* The index tells of resources, and nothing of them. *)
LEMMA IndexSearched == ASSUME OciInv, DiscoverSearch PROVE OciInv'
<1>1. PICK items \in SUBSET OciAssets, conflicts \in SUBSET OciAssets, complete \in BOOLEAN :
          oci' = [oci EXCEPT !.step = "services", !.searched = items,
                             !.conflicts = conflicts, !.searchComplete = complete,
                             !.errors = @ \/ ~complete]
    <2>1. PICK items \in SUBSET {a \in OciAssets : InScope(a) /\ place[a].region = oci.regions[1]},
               complete \in BOOLEAN :
             \E conflicts \in {{}, items} :
                oci' = [oci EXCEPT !.step = "services", !.searched = items,
                             !.conflicts = conflicts, !.searchComplete = complete,
                             !.errors = @ \/ ~complete]
        BY DEF DiscoverSearch, OciMoves
    <2>2. PICK conflicts \in {{}, items} :
                oci' = [oci EXCEPT !.step = "services", !.searched = items,
                             !.conflicts = conflicts, !.searchComplete = complete,
                             !.errors = @ \/ ~complete]
        BY <2>1
    <2>3. items \in SUBSET OciAssets /\ conflicts \in SUBSET OciAssets
        OBVIOUS
    <2> QED BY <2>2, <2>3
<1>2. /\ oci.step = "search" /\ oci \in OciRow
      /\ UNCHANGED <<ociFact, ociAlways, ociEver, place, ociResult>>
    BY DEF OciInv, OciTyped, DiscoverSearch, OciMoves
<1>3. /\ oci'.step = "services" /\ (oci'.errors \/ ~oci.errors)
      /\ oci'.rule = oci.rule /\ oci'.roots = oci.roots /\ oci'.deep = oci.deep
      /\ oci'.regions = oci.regions /\ oci'.view = oci.view
      /\ oci'.complete = oci.complete /\ oci'.uncovered = oci.uncovered
      /\ oci'.incomplete = oci.incomplete /\ oci'.turn = oci.turn
      /\ oci'.compartments = oci.compartments /\ oci'.queue = oci.queue
    BY <1>1, <1>2 DEF OciRow
<1>4. oci' \in OciRow
    BY <1>1, <1>2 DEF OciRow, OciSteps
<1>5. OciTyped'
    BY <1>2, <1>4 DEF OciInv, OciTyped, FactsTyped
<1>6. ScopeRight' /\ ErrorsKnown'
    BY <1>2, <1>3 DEF OciInv, ScopeRight, ErrorsKnown, Scoped, Expanded
<1>7. oci.turn.region = 1 /\ oci.turn.compartment = 1 /\ oci.turn.call = 0
    BY <1>2 DEF OciInv, TurnRight, FirstTurn
<1>8. TurnRight'
    <2>1. 1 \in 1..Len(oci.regions) /\ 1 \in 1..Len(oci.compartments)
        BY <1>2 DEF OciInv, TurnRight, OciRow
    <2> QED BY <1>2, <1>3, <1>7, <2>1 DEF OciInv, TurnRight
<1>9. AllListed'
    <2> SUFFICES ASSUME NEW a \in OciAssets, NEW i \in DOMAIN oci.regions,
                        NEW m \in DOMAIN oci.compartments
                 PROVE  ListedRight(a, i, m)'
        BY <1>3 DEF AllListed
    <2>1. i \in Nat /\ i >= 1
        BY <1>2 DEF OciRow
    <2>2. \A j : ~Behind(oci'.turn, i, m, j)
        BY <1>3, <1>7, <2>1 DEF Behind
    <2> QED BY <1>3, <2>2 DEF ListedRight, Done
<1>10. ShownWasSo'
    BY <1>2, <1>3 DEF OciInv, ShownWasSo, Straddles
<1>11. Declared'
    BY <1>2, <1>3, <1>5, StillDeclared DEF OciTyped, FactsTyped
<1> QED BY <1>5, <1>6, <1>8, <1>9, <1>10, <1>11 DEF OciInv

(* A source that has been asked changes nothing of what is known. *)
LEMMA SourceAsked ==
    ASSUME OciInv, CollectAdvisor \/ CollectUsage \/ CollectMonitoring
    PROVE  OciInv'
<1>1. PICK step \in {"advisor", "usage", "monitoring"},
           next \in {"usage", "monitoring", "correlation"},
           outcome \in {"success", "partial", "failed"} :
          /\ oci.step = step
          /\ oci' = [oci EXCEPT !.step = next, !.issues = @ \/ outcome # "success",
                               !.fatal = @ \/ outcome = "failed"]
    BY DEF CollectAdvisor, CollectUsage, CollectMonitoring, Source, OciMoves
<1>2. /\ oci \in OciRow /\ UNCHANGED <<ociFact, ociAlways, ociEver, place, ociResult>>
    BY DEF OciInv, OciTyped, CollectAdvisor, CollectUsage, CollectMonitoring, Source, OciMoves
<1>3. /\ oci'.step = next /\ oci'.errors = oci.errors
      /\ oci'.rule = oci.rule /\ oci'.roots = oci.roots /\ oci'.deep = oci.deep
      /\ oci'.regions = oci.regions /\ oci'.view = oci.view /\ oci'.listed = oci.listed
      /\ oci'.complete = oci.complete /\ oci'.uncovered = oci.uncovered
      /\ oci'.incomplete = oci.incomplete /\ oci'.turn = oci.turn
      /\ oci'.compartments = oci.compartments /\ oci'.queue = oci.queue
    BY <1>1, <1>2 DEF OciRow
<1>4. oci' \in OciRow
    <2>1. PICK issues \in BOOLEAN, fatal \in BOOLEAN :
             oci' = [oci EXCEPT !.step = next, !.issues = issues, !.fatal = fatal]
        <3>1. /\ (oci.issues \/ outcome # "success") \in BOOLEAN
              /\ (oci.fatal \/ outcome = "failed") \in BOOLEAN
            BY <1>2 DEF OciRow
        <3> QED BY <1>1, <3>1
    <2>2. next \in OciSteps
        BY DEF OciSteps
    <2> QED BY <1>2, <2>1, <2>2 DEF OciRow
<1>5. OciTyped'
    BY <1>2, <1>4 DEF OciInv, OciTyped, FactsTyped
<1>6. ScopeRight' /\ ErrorsKnown' /\ TurnRight'
    BY <1>1, <1>2, <1>3 DEF OciInv, ScopeRight, ErrorsKnown, TurnRight, Scoped, Expanded
<1>7. AllListed'
    <2> SUFFICES ASSUME NEW a \in OciAssets, NEW i \in DOMAIN oci.regions,
                        NEW m \in DOMAIN oci.compartments, Where(a, i, m)
                 PROVE  ListedRight(a, i, m)'
        BY <1>2, <1>3 DEF AllListed, Where
    <2>1. ListedRight(a, i, m)
        BY DEF OciInv, AllListed
    <2> QED BY <1>1, <1>2, <1>3, <2>1 DEF ListedRight, Done, Attaches, Straddles
<1>8. ShownWasSo'
    BY <1>2, <1>3 DEF OciInv, ShownWasSo, Straddles
<1>9. Declared'
    BY <1>1, <1>2, <1>3, <1>5, StillDeclared DEF OciTyped, FactsTyped
<1> QED BY <1>5, <1>6, <1>7, <1>8, <1>9 DEF OciInv

(* A call is a step of the record, and its turn is passed on.                *)
LEMMA CallIsAStep ==
    ASSUME OciInv, oci.step = "services", NEW new \in OciRow, Called(new),
           new.rule = oci.rule, new.roots = oci.roots, new.deep = oci.deep,
           new.regions = oci.regions, new.queue = oci.queue,
           new.compartments = oci.compartments, new.complete = oci.complete,
           oci.listed \subseteq new.listed,
           \A a \in OciAssets : oci.view[a] \subseteq new.view[a],
           oci.uncovered \subseteq new.uncovered,
           oci.errors => new.errors,
           UNCHANGED ociResult
    PROVE  /\ Progress /\ oci' \in OciRow
           /\ oci'.listed = new.listed /\ oci'.view = new.view
           /\ oci'.uncovered = new.uncovered /\ oci'.incomplete = new.incomplete
           /\ oci'.errors = new.errors
<1>1. NextTurn \in TurnRow
    <2>1. oci.turn \in TurnRow
        BY DEF OciInv, OciTyped, OciRow
    <2>2. \A n \in Nat : n + 1 \in Nat
        OBVIOUS
    <2>3. /\ oci.turn.region + 1 \in Nat /\ oci.turn.compartment + 1 \in Nat
          /\ oci.turn.call + 1 \in Nat
        BY <2>1, <2>2 DEF TurnRow
    <2> QED BY <2>1, <2>3 DEF NextTurn, FirstTurn, TurnRow
<1>2. PICK next \in {"advisor", "services"} :
         /\ next = IF NextTurn.region > Len(oci.regions) THEN "advisor" ELSE "services"
         /\ oci' = [new EXCEPT !.turn = NextTurn, !.step = next]
         /\ UNCHANGED <<ociFact, ociAlways, ociEver, place, ociClouded>>
    BY DEF Called, OciMoves
<1>3. /\ oci'.turn = NextTurn /\ oci'.step = next
      /\ oci'.rule = new.rule /\ oci'.roots = new.roots /\ oci'.deep = new.deep
      /\ oci'.regions = new.regions /\ oci'.view = new.view /\ oci'.listed = new.listed
      /\ oci'.complete = new.complete /\ oci'.uncovered = new.uncovered
      /\ oci'.incomplete = new.incomplete /\ oci'.errors = new.errors
      /\ oci'.compartments = new.compartments /\ oci'.queue = new.queue
    BY <1>2 DEF OciRow
<1>4. oci' \in OciRow
    BY <1>1, <1>2 DEF OciRow, OciSteps
<1>5. Progress
    BY <1>2, <1>3 DEF Progress
<1> QED BY <1>3, <1>4, <1>5

(* Which call it is, by its name. *)
LEMMA CallNumbers ==
    ASSUME OciInv, oci.step = "services"
    PROVE  oci.turn.call = CASE NextCall.call = "domains" -> 0
                             [] NextCall.call = "instances" -> 1
                             [] NextCall.call = "volumes" -> 2
                             [] NextCall.call = "boots" -> 3
                             [] NextCall.call = "attachments" -> 4
                             [] NextCall.call = "boot attachments" -> 5
                             [] OTHER -> 6
<1>1. PICK n \in 0..6 : n = oci.turn.call
    BY DEF OciInv, TurnRight
<1>2. NextCall.call = IF n = 0 THEN "domains" ELSE CallNames[n]
    BY <1>1 DEF NextCall
<1>3. n = 0 \/ n = 1 \/ n = 2 \/ n = 3 \/ n = 4 \/ n = 5 \/ n = 6
    BY <1>1
<1>4. /\ CallNames[1] = "instances" /\ CallNames[2] = "volumes" /\ CallNames[3] = "boots"
      /\ CallNames[4] = "attachments" /\ CallNames[5] = "boot attachments"
      /\ CallNames[6] = "addresses"
    BY DEF CallNames
<1>5. NextCall.call = CASE n = 0 -> "domains" [] n = 1 -> "instances" [] n = 2 -> "volumes"
                        [] n = 3 -> "boots" [] n = 4 -> "attachments"
                        [] n = 5 -> "boot attachments" [] OTHER -> "addresses"
    BY <1>2, <1>3, <1>4
<1> QED BY <1>1, <1>3, <1>5

(* The domains of a region: without them its addresses are not covered.      *)
LEMMA DomainsAsked == ASSUME OciInv, AvailabilityDomains PROVE OciInv'
<1>1. oci.step = "services" /\ NextCall.call = "domains" /\ UNCHANGED ociResult /\ oci \in OciRow
    BY DEF AvailabilityDomains, OciInv, OciTyped
<1>2. PICK new \in OciRow :
         /\ Called(new)
         /\ new.rule = oci.rule /\ new.roots = oci.roots /\ new.deep = oci.deep
         /\ new.regions = oci.regions /\ new.queue = oci.queue
         /\ new.compartments = oci.compartments /\ new.complete = oci.complete
         /\ new.listed = oci.listed /\ new.view = oci.view /\ new.incomplete = oci.incomplete
         /\ oci.uncovered \subseteq new.uncovered /\ (oci.errors => new.errors)
         /\ ~new.errors => new.uncovered = oci.uncovered
    <2>1. PICK ok \in BOOLEAN :
             Called(IF ok THEN oci
                    ELSE [oci EXCEPT !.uncovered = @ \cup {"public_ip"}, !.errors = TRUE])
        BY DEF AvailabilityDomains
    <2>2. CASE ok
        BY <1>1, <2>1, <2>2
    <2>3. CASE ~ok
        <3> DEFINE new == [oci EXCEPT !.uncovered = @ \cup {"public_ip"}, !.errors = TRUE]
        <3>1. new \in OciRow /\ new.errors /\ new.uncovered = oci.uncovered \cup {"public_ip"}
            BY <1>1 DEF OciRow, Kinds
        <3>2. /\ new.rule = oci.rule /\ new.roots = oci.roots /\ new.deep = oci.deep
              /\ new.regions = oci.regions /\ new.queue = oci.queue
              /\ new.compartments = oci.compartments /\ new.complete = oci.complete
              /\ new.listed = oci.listed /\ new.view = oci.view
              /\ new.incomplete = oci.incomplete
            BY <1>1 DEF OciRow
        <3>3. Called(new)
            BY <2>1, <2>3
        <3> HIDE DEF new
        <3> QED BY <3>1, <3>2, <3>3
    <2> QED BY <2>2, <2>3
<1>3. /\ Progress /\ oci' \in OciRow
      /\ oci'.listed = new.listed /\ oci'.view = new.view
      /\ oci'.uncovered = new.uncovered /\ oci'.incomplete = new.incomplete
      /\ oci'.errors = new.errors
    BY <1>1, <1>2, CallIsAStep
<1>4. ErrorsKnown'
    BY <1>2, <1>3 DEF OciInv, ErrorsKnown, Progress
<1>5. ShownWasSo'
    BY <1>2, <1>3 DEF OciInv, ShownWasSo, Straddles, Progress
<1>6. oci.turn.call = 0
    BY <1>1, CallNumbers
<1>7. \A a \in OciAssets : Lists(place[a].kind) # 0 /\ Attaches(a) # 0
    BY DEF Lists, Attaches
<1> QED BY <1>3, <1>4, <1>5, <1>6, <1>7, CallMade

(* A listing shows what is there, or its kind is not covered. *)
LEMMA KindListed == ASSUME OciInv, ListKind PROVE OciInv'
<1> DEFINE kind == KindOf[NextCall.call]
           reads == {"here", "state", "tags"} \cup (IF kind = "public_ip" THEN {"use"} ELSE {})
           present == {a \in OciAssets : At(a) /\ place[a].kind = kind /\ "here" \in ociFact[a]}
<1>1. /\ oci.step = "services" /\ NextCall.call \in {"instances", "volumes", "boots", "addresses"}
      /\ UNCHANGED ociResult /\ oci \in OciRow
      /\ ociFact \in [OciAssets -> SUBSET OciFacts]
    BY DEF ListKind, KindOf, OciInv, OciTyped, FactsTyped
<1>2. kind \in Kinds /\ oci.turn.call = Lists(kind)
    <2>1. PICK c : c = NextCall.call
        OBVIOUS
    <2>2. /\ KindOf["instances"] = "compute_instance" /\ KindOf["volumes"] = "block_volume"
          /\ KindOf["boots"] = "boot_volume" /\ KindOf["addresses"] = "public_ip"
        BY DEF KindOf
    <2>3. oci.turn.call = CASE c = "instances" -> 1 [] c = "volumes" -> 2 [] c = "boots" -> 3
                            [] c = "addresses" -> 6
        BY <1>1, <2>1, CallNumbers
    <2> QED BY <1>1, <2>1, <2>2, <2>3 DEF Kinds, Lists
<1>2a. PICK pages \in SUBSET present, ok \in BOOLEAN :
         /\ ok => pages = present
         /\ Called([oci EXCEPT
                     !.listed = @ \cup pages,
                     !.view = [a \in OciAssets |->
                                  IF a \in pages THEN @[a] \cup (ociFact[a] \cap reads) ELSE @[a]],
                     !.uncovered = IF ok THEN @ ELSE @ \cup {kind},
                     !.errors = @ \/ ~ok])
    BY DEF ListKind
<1> HIDE DEF kind
<1> DEFINE new == [oci EXCEPT
                    !.listed = @ \cup pages,
                    !.view = [a \in OciAssets |->
                                 IF a \in pages THEN @[a] \cup (ociFact[a] \cap reads) ELSE @[a]],
                    !.uncovered = IF ok THEN @ ELSE @ \cup {kind},
                    !.errors = @ \/ ~ok]
<1>3. Called(new) /\ (ok => pages = present)
    BY <1>2a
<1> DEFINE view == [a \in OciAssets |->
                       IF a \in pages THEN oci.view[a] \cup (ociFact[a] \cap reads) ELSE oci.view[a]]
<1>4. /\ pages \subseteq OciAssets
      /\ \A a \in OciAssets : oci.view[a] \subseteq OciFacts /\ ociFact[a] \subseteq OciFacts
    BY <1>1 DEF OciRow
<1>5. view \in [OciAssets -> SUBSET OciFacts]
    BY <1>4
<1>6. \A a \in OciAssets :
         view[a] = IF a \in pages THEN oci.view[a] \cup (ociFact[a] \cap reads) ELSE oci.view[a]
    OBVIOUS
<1>7. /\ new.listed = oci.listed \cup pages /\ new.view = view
      /\ new.uncovered = (IF ok THEN oci.uncovered ELSE oci.uncovered \cup {kind})
      /\ new.errors = (oci.errors \/ ~ok) /\ new.incomplete = oci.incomplete
      /\ new.rule = oci.rule /\ new.roots = oci.roots /\ new.deep = oci.deep
      /\ new.regions = oci.regions /\ new.queue = oci.queue
      /\ new.compartments = oci.compartments /\ new.complete = oci.complete
    BY <1>1, <1>3 DEF OciRow
<1>8. new \in OciRow
    <2>1. PICK listed \in SUBSET OciAssets, shown \in [OciAssets -> SUBSET OciFacts],
               uncovered \in SUBSET Kinds, errors \in BOOLEAN :
             new = [oci EXCEPT !.listed = listed, !.view = shown, !.uncovered = uncovered,
                               !.errors = errors]
        <3>1. oci.listed \cup pages \in SUBSET OciAssets
            BY <1>1, <1>4 DEF OciRow
        <3>2. (IF ok THEN oci.uncovered ELSE oci.uncovered \cup {kind}) \in SUBSET Kinds
            BY <1>1, <1>2 DEF OciRow
        <3>3. (oci.errors \/ ~ok) \in BOOLEAN
            BY <1>1 DEF OciRow
        <3>4. new = [oci EXCEPT !.listed = oci.listed \cup pages, !.view = view,
                        !.uncovered = IF ok THEN oci.uncovered ELSE oci.uncovered \cup {kind},
                        !.errors = oci.errors \/ ~ok]
            BY <1>3
        <3> HIDE DEF view
        <3> QED BY <1>5, <3>1, <3>2, <3>3, <3>4
    <2> QED BY <1>1, <2>1 DEF OciRow
<1> HIDE DEF view, new
<1>9. /\ Progress /\ oci' \in OciRow
      /\ oci'.listed = new.listed /\ oci'.view = new.view
      /\ oci'.uncovered = new.uncovered /\ oci'.incomplete = new.incomplete
      /\ oci'.errors = new.errors
    <2>1. \A a \in OciAssets : oci.view[a] \subseteq new.view[a]
        BY <1>6, <1>7
    <2>2. /\ oci.listed \subseteq new.listed /\ oci.uncovered \subseteq new.uncovered
          /\ oci.errors => new.errors
        BY <1>7
    <2>3. Called(new)
        BY <1>3
    <2> QED BY <1>1, <1>7, <1>8, <2>1, <2>2, <2>3, CallIsAStep
<1>10. ErrorsKnown'
    BY <1>7, <1>9 DEF OciInv, ErrorsKnown, Progress
<1>11. ShownWasSo'
    <2> SUFFICES ASSUME NEW a \in OciAssets, NEW f \in view[a]
                 PROVE  f \in ociEver[a] \/ (f = "use" /\ Straddles(a))
        BY <1>7, <1>9 DEF ShownWasSo, Progress, Straddles
    <2>1. f \in oci.view[a] \/ f \in ociFact[a]
        BY <1>6
    <2> QED BY <2>1 DEF OciInv, OciTyped, FactsTyped, ShownWasSo
<1>12. ASSUME NEW a \in OciAssets, At(a), Lists(place[a].kind) = oci.turn.call,
              place[a].kind \notin oci'.uncovered, "here" \in ociAlways[a]
       PROVE  /\ a \in oci'.listed
              /\ \A f \in ShownOf(place[a].kind) : f \in ociAlways[a] => f \in oci'.view[a]
    <2>1. place[a].kind \in Kinds /\ ociAlways[a] \subseteq ociFact[a]
        BY DEF OciInv, OciTyped, FactsTyped
    <2>2. place[a].kind = kind
        BY <1>2, <1>12, <2>1 DEF Lists, Kinds
    <2>3. ok /\ a \in pages
        BY <1>3, <1>7, <1>9, <1>12, <2>1, <2>2
    <2>4. a \in oci'.listed
        BY <1>7, <1>9, <2>3
    <2>5. \A f \in ShownOf(kind) : f \in ociAlways[a] => f \in view[a]
        BY <1>6, <2>1, <2>3 DEF ShownOf
    <2> QED BY <1>7, <1>9, <2>2, <2>4, <2>5
<1>13. \A a \in OciAssets : Attaches(a) # oci.turn.call
    BY <1>2 DEF Attaches, Lists
<1> QED BY <1>9, <1>10, <1>11, <1>12, <1>13, CallMade

(* What attachments tell is added to what is shown, or known to be missing.  *)
LEMMA AttachmentsTold ==
    ASSUME OciInv, oci.step = "services", oci.turn.call \in {4, 5}, UNCHANGED ociResult,
           NEW told \in SUBSET OciAssets, NEW untold \in SUBSET OciAssets, NEW ok \in BOOLEAN,
           Called(IF ok
                  THEN [oci EXCEPT !.view = [a \in OciAssets |->
                            IF a \in told THEN @[a] \cup {"use"} ELSE @[a]]]
                  ELSE [oci EXCEPT !.incomplete = @ \cup untold, !.errors = TRUE]),
           \A a \in told : "use" \in ociEver[a] \/ Straddles(a),
           \A a \in OciAssets :
              At(a) /\ Attaches(a) = oci.turn.call /\ ~oci.errors /\ ~Straddles(a)
              /\ place[a].kind \in {"compute_instance", "block_volume"}
              /\ "here" \in ociAlways[a] /\ "use" \in ociAlways[a] => a \in told
    PROVE  OciInv'
<1> DEFINE view == [a \in OciAssets |->
                       IF a \in told THEN oci.view[a] \cup {"use"} ELSE oci.view[a]]
<1>1. oci \in OciRow
    BY DEF OciInv, OciTyped
<1>2. view \in [OciAssets -> SUBSET OciFacts]
    <2>1. \A a \in OciAssets : oci.view[a] \subseteq OciFacts
        BY <1>1 DEF OciRow
    <2> QED BY <2>1 DEF OciFacts
<1>3. \A a \in OciAssets : view[a] = IF a \in told THEN oci.view[a] \cup {"use"} ELSE oci.view[a]
    OBVIOUS
<1>4. PICK new \in OciRow :
         /\ Called(new)
         /\ new.rule = oci.rule /\ new.roots = oci.roots /\ new.deep = oci.deep
         /\ new.regions = oci.regions /\ new.queue = oci.queue
         /\ new.compartments = oci.compartments /\ new.complete = oci.complete
         /\ new.listed = oci.listed /\ new.uncovered = oci.uncovered
         /\ ok => new.view = view /\ new.errors = oci.errors /\ new.incomplete = oci.incomplete
         /\ ~ok => new.view = oci.view /\ new.errors
    <2>1. CASE ok
        <3> DEFINE new == [oci EXCEPT !.view = view]
        <3>1. Called(new)
            BY <2>1
        <3> HIDE DEF view
        <3>2. new \in OciRow /\ new.view = view
            BY <1>1, <1>2 DEF OciRow
        <3>3. /\ new.rule = oci.rule /\ new.roots = oci.roots /\ new.deep = oci.deep
              /\ new.regions = oci.regions /\ new.queue = oci.queue
              /\ new.compartments = oci.compartments /\ new.complete = oci.complete
              /\ new.listed = oci.listed /\ new.uncovered = oci.uncovered
              /\ new.errors = oci.errors /\ new.incomplete = oci.incomplete
            BY <1>1 DEF OciRow
        <3> HIDE DEF new
        <3> QED BY <2>1, <3>1, <3>2, <3>3
    <2>2. CASE ~ok
        <3> DEFINE new == [oci EXCEPT !.incomplete = @ \cup untold, !.errors = TRUE]
        <3>1. Called(new)
            BY <2>2
        <3> HIDE DEF view
        <3>2. new \in OciRow /\ new.errors
            BY <1>1 DEF OciRow
        <3>3. /\ new.rule = oci.rule /\ new.roots = oci.roots /\ new.deep = oci.deep
              /\ new.regions = oci.regions /\ new.queue = oci.queue
              /\ new.compartments = oci.compartments /\ new.complete = oci.complete
              /\ new.listed = oci.listed /\ new.uncovered = oci.uncovered
              /\ new.view = oci.view
            BY <1>1 DEF OciRow
        <3> HIDE DEF new
        <3> QED BY <2>2, <3>1, <3>2, <3>3
    <2> QED BY <2>1, <2>2
<1> HIDE DEF view
<1>5. /\ Progress /\ oci' \in OciRow
      /\ oci'.listed = new.listed /\ oci'.view = new.view
      /\ oci'.uncovered = new.uncovered /\ oci'.incomplete = new.incomplete
      /\ oci'.errors = new.errors
    <2>1. \A a \in OciAssets : oci.view[a] \subseteq new.view[a]
        BY <1>3, <1>4
    <2>2. oci.errors => new.errors
        BY <1>4
    <2> QED BY <1>4, <2>1, <2>2, CallIsAStep
<1>6. ErrorsKnown'
    BY <1>4, <1>5 DEF OciInv, ErrorsKnown, Progress
<1>7. ShownWasSo'
    <2> SUFFICES ASSUME NEW a \in OciAssets, NEW f \in new.view[a]
                 PROVE  f \in ociEver[a] \/ (f = "use" /\ Straddles(a))
        BY <1>5 DEF ShownWasSo, Progress, Straddles
    <2>1. f \in oci.view[a] \/ (f = "use" /\ a \in told)
        <3>1. CASE ok
            <4>1. f \in view[a]
                BY <1>4, <3>1
            <4>2. CASE a \in told
                <5>1. view[a] = oci.view[a] \cup {"use"}
                    BY <1>3, <4>2
                <5> QED BY <4>1, <4>2, <5>1
            <4>3. CASE a \notin told
                <5>1. view[a] = oci.view[a]
                    BY <1>3, <4>3
                <5> QED BY <4>1, <5>1
            <4> QED BY <4>2, <4>3
        <3>2. CASE ~ok
            BY <1>4, <3>2
        <3> QED BY <3>1, <3>2
    <2> QED BY <2>1 DEF OciInv, ShownWasSo
<1>8. ASSUME NEW a \in OciAssets, At(a), Attaches(a) = oci.turn.call, ~oci'.errors,
             ~Straddles(a), place[a].kind \in {"compute_instance", "block_volume"},
             "here" \in ociAlways[a], "use" \in ociAlways[a]
      PROVE  "use" \in oci'.view[a]
    <2>1. ok /\ ~oci.errors
        BY <1>4, <1>5, <1>8
    <2>2. a \in told
        BY <1>8, <2>1
    <2> QED BY <1>3, <1>4, <1>5, <2>1, <2>2
<1>9. \A a \in OciAssets : Lists(place[a].kind) # oci.turn.call
    BY DEF Lists
<1> QED BY <1>5, <1>6, <1>7, <1>8, <1>9, CallMade

(* The attachments of volumes. *)
LEMMA VolumesTold == ASSUME OciInv, VolumeAttachments PROVE OciInv'
<1> DEFINE volumes == {a \in oci.listed : At(a) /\ place[a].kind = "block_volume"}
           bare == {a \in volumes : "use" \in ociFact[a] \/ place[a].other # NextCall.compartment}
           stored == {a \in OciAssets : At(a) /\ place[a].kind = "compute_instance"
                                         /\ ~place[a].boot /\ "use" \in ociFact[a]}
<1>1. /\ oci.step = "services" /\ UNCHANGED ociResult /\ oci.turn.call = 4 /\ oci \in OciRow
    BY CallNumbers DEF VolumeAttachments, OciInv, OciTyped
<1>2. PICK ok \in BOOLEAN :
          Called(IF ok
                 THEN [oci EXCEPT !.view = [a \in OciAssets |->
                           IF a \in bare \cup stored THEN @[a] \cup {"use"} ELSE @[a]]]
                 ELSE [oci EXCEPT !.incomplete = @ \cup volumes, !.errors = TRUE])
    BY DEF VolumeAttachments
<1>3. bare \cup stored \in SUBSET OciAssets /\ volumes \in SUBSET OciAssets
    BY <1>1 DEF OciRow
<1>4. ASSUME NEW a \in bare \cup stored PROVE "use" \in ociEver[a] \/ Straddles(a)
    <2>1. a \in OciAssets /\ ociFact[a] \subseteq ociEver[a]
        BY <1>3 DEF OciInv, OciTyped, FactsTyped
    <2> QED BY <2>1 DEF At, Straddles
<1>5. ASSUME NEW a \in OciAssets, At(a), Attaches(a) = oci.turn.call, ~oci.errors,
             ~Straddles(a), place[a].kind \in {"compute_instance", "block_volume"},
             "here" \in ociAlways[a], "use" \in ociAlways[a]
      PROVE  a \in bare \cup stored
    <2>1. "use" \in ociFact[a]
        BY <1>5 DEF OciInv, OciTyped, FactsTyped
    <2>2. CASE place[a].kind = "compute_instance"
        BY <1>1, <1>5, <2>1, <2>2 DEF Attaches
    <2>3. CASE place[a].kind = "block_volume"
        <3> PICK i, m : i = oci.turn.region /\ m = oci.turn.compartment
            OBVIOUS
        <3>1. i \in DOMAIN oci.regions /\ m \in DOMAIN oci.compartments
            BY <1>1 DEF OciInv, TurnRight, OciRow
        <3>2. Where(a, i, m)
            BY <1>1, <1>5 DEF Where, At, NextCall
        <3>3. Done(i, m, 2)
            BY <1>1 DEF Done, Behind
        <3>4. place[a].kind \notin oci.uncovered
            BY <1>5 DEF OciInv, ErrorsKnown
        <3>5. Lists(place[a].kind) = 2
            BY <2>3 DEF Lists
        <3>6. ListedRight(a, i, m)
            BY <3>1, <3>2 DEF OciInv, AllListed
        <3>7. a \in oci.listed
            BY <1>5, <3>3, <3>4, <3>5, <3>6 DEF ListedRight
        <3> QED BY <1>5, <2>1, <2>3, <3>7
    <2> QED BY <1>5, <2>2, <2>3
<1> HIDE DEF bare, stored, volumes
<1>6. PICK told : told = bare \cup stored
    OBVIOUS
<1> QED BY <1>1, <1>2, <1>3, <1>4, <1>5, <1>6, AttachmentsTold

(* The attachments of boot volumes. *)
LEMMA BootsTold == ASSUME OciInv, BootAttachments PROVE OciInv'
<1> DEFINE boots == {a \in oci.listed : At(a) /\ place[a].kind = "boot_volume"}
           stored == {a \in OciAssets : At(a) /\ place[a].kind = "compute_instance"
                                         /\ place[a].boot /\ "use" \in ociFact[a]
                                         /\ (boots # {} \/ place[a].other = NextCall.compartment)}
<1>1. /\ oci.step = "services" /\ UNCHANGED ociResult /\ oci.turn.call = 5 /\ oci \in OciRow
    BY CallNumbers DEF BootAttachments, OciInv, OciTyped
<1>2. PICK ok \in BOOLEAN :
          Called(IF ok
                 THEN [oci EXCEPT !.view = [a \in OciAssets |->
                           IF a \in stored THEN @[a] \cup {"use"} ELSE @[a]]]
                 ELSE [oci EXCEPT !.incomplete = @ \cup boots, !.errors = TRUE])
    BY DEF BootAttachments
<1>3. stored \in SUBSET OciAssets /\ boots \in SUBSET OciAssets
    BY <1>1 DEF OciRow
<1>4. ASSUME NEW a \in stored PROVE "use" \in ociEver[a] \/ Straddles(a)
    <2>1. a \in OciAssets /\ ociFact[a] \subseteq ociEver[a]
        BY <1>3 DEF OciInv, OciTyped, FactsTyped
    <2> QED BY <2>1
<1>5. ASSUME NEW a \in OciAssets, At(a), Attaches(a) = oci.turn.call, ~oci.errors,
             ~Straddles(a), place[a].kind \in {"compute_instance", "block_volume"},
             "here" \in ociAlways[a], "use" \in ociAlways[a]
      PROVE  a \in stored
    <2>1. "use" \in ociFact[a]
        BY <1>5 DEF OciInv, OciTyped, FactsTyped
    <2>2. place[a].other = NextCall.compartment
        BY <1>5 DEF At, Straddles
    <2> QED BY <1>1, <1>5, <2>1, <2>2 DEF Attaches
<1> HIDE DEF stored, boots
<1> QED BY <1>1, <1>2, <1>3, <1>4, <1>5, AttachmentsTold

-----------------------------------------------------------------------------
(* What an OCI collection returns. *)

(* Nothing that was listed is left out of what the collection looks at.      *)
LEMMA ScopeHasAll ==
    ASSUME OciInv, Scoped, oci.complete, NEW a \in OciAssets, Configured(a)
    PROVE  \E i \in DOMAIN oci.regions, m \in DOMAIN oci.compartments : Where(a, i, m)
<1>1. PICK r \in DOMAIN oci.roots :
         \/ place[a].compartment = oci.roots[r]
         \/ oci.deep /\ place[a].compartment \in Below(oci.roots[r])
    BY DEF Configured
<1>2. /\ InSeq(oci.roots[r], oci.compartments)
      /\ oci.deep => \A c \in Compartments : InSeq(c, oci.compartments) => Expanded(c)
      /\ oci.roots[r] \in Compartments
    <2>1. oci.queue = <<>> /\ \A c : ~InSeq(c, oci.queue)
        BY DEF OciInv, ScopeRight, InSeq
    <2>2. oci.roots[r] \in Compartments
        BY DEF OciInv, OciTyped, OciRow
    <2> QED BY <2>1, <2>2 DEF OciInv, ScopeRight, Scoped
<1>3. InSeq(place[a].compartment, oci.compartments)
    <2> DEFINE S == {c \in Compartments : InSeq(c, oci.compartments)}
    <2>1. CASE place[a].compartment = oci.roots[r]
        BY <1>2, <2>1
    <2>2. CASE oci.deep /\ place[a].compartment \in Below(oci.roots[r])
        <3>1. \A e \in S \cup {oci.roots[r]}, f \in Compartments : InSeq(f, Children[e]) => f \in S
            BY <1>2, <2>2 DEF Expanded
        <3>2. S \in SUBSET Compartments
            OBVIOUS
        <3> QED BY <2>2, <3>1, <3>2 DEF Below
    <2> QED BY <1>1, <2>1, <2>2
<1> QED BY <1>3 DEF Configured, InSeq, Where

(* A resource of the scope is listed once all calls have been made.          *)
LEMMA AllSeen ==
    ASSUME OciInv, Scoped, oci.step \notin {"search", "services"}, oci.complete,
           NEW a \in OciAssets, Configured(a), "here" \in ociAlways[a],
           place[a].kind \notin oci.uncovered
    PROVE  /\ a \in oci.listed
           /\ \A f \in ShownOf(place[a].kind) : f \in ociAlways[a] => f \in oci.view[a]
           /\ ~oci.errors /\ ~Straddles(a)
              /\ place[a].kind \in {"compute_instance", "block_volume"}
              /\ "use" \in ociAlways[a] => "use" \in oci.view[a]
<1>1. PICK i \in DOMAIN oci.regions, m \in DOMAIN oci.compartments : Where(a, i, m)
    BY ScopeHasAll
<1>2. ListedRight(a, i, m)
    BY <1>1 DEF OciInv, AllListed
<1>3. \A j : Done(i, m, j)
    BY DEF Done, Scoped
<1> QED BY <1>2, <1>3 DEF ListedRight

(* The rules find what they apply to if nothing went wrong. *)
LEMMA RulesFind == ASSUME OciInv, Analyze PROVE OciInv'
<1>1. /\ oci.step = "correlation" /\ oci' = [oci EXCEPT !.step = "analyzed"]
      /\ ociResult' = [ociResult EXCEPT !.found = Analyzed]
      /\ UNCHANGED <<ociFact, ociAlways, ociEver, place>>
      /\ oci \in OciRow /\ ociResult \in OciResultRow
    BY DEF Analyze, OciMoves, OciInv, OciTyped
<1>2. /\ oci'.step = "analyzed" /\ oci'.errors = oci.errors
      /\ oci'.rule = oci.rule /\ oci'.roots = oci.roots /\ oci'.deep = oci.deep
      /\ oci'.regions = oci.regions /\ oci'.view = oci.view /\ oci'.listed = oci.listed
      /\ oci'.complete = oci.complete /\ oci'.uncovered = oci.uncovered
      /\ oci'.incomplete = oci.incomplete /\ oci'.turn = oci.turn
      /\ oci'.compartments = oci.compartments /\ oci'.queue = oci.queue
    BY <1>1 DEF OciRow
<1>3. oci' \in OciRow
    BY <1>1 DEF OciRow, OciSteps
<1>4. Analyzed \subseteq OciAssets
    BY <1>1 DEF Analyzed, OciRow
<1>5. /\ ociResult' \in OciResultRow /\ ociResult'.found = Analyzed
      /\ ociResult'.rows = ociResult.rows /\ ociResult'.seen = ociResult.seen
      /\ ociResult'.complete = ociResult.complete
    BY <1>1, <1>4 DEF OciResultRow
<1>6. OciTyped'
    BY <1>1, <1>3, <1>5 DEF OciInv, OciTyped, FactsTyped
<1>7. ScopeRight' /\ ErrorsKnown' /\ TurnRight'
    BY <1>1, <1>2 DEF OciInv, ScopeRight, ErrorsKnown, TurnRight, Scoped, Expanded
<1>8. AllListed'
    <2> SUFFICES ASSUME NEW a \in OciAssets, NEW i \in DOMAIN oci.regions,
                        NEW m \in DOMAIN oci.compartments, Where(a, i, m)
                 PROVE  ListedRight(a, i, m)'
        BY <1>1, <1>2 DEF AllListed, Where
    <2>1. ListedRight(a, i, m)
        BY DEF OciInv, AllListed
    <2> QED BY <1>1, <1>2, <2>1 DEF ListedRight, Done, Attaches, Straddles
<1>9. ShownWasSo'
    BY <1>1, <1>2 DEF OciInv, ShownWasSo, Straddles
<1>10. Declared'
    <2>1. ASSUME NEW a \in Analyzed PROVE (Straddles(a) \/ oci.rule.needs \subseteq ociEver[a])'
        <3>1. oci.rule.needs \subseteq oci.view[a] /\ a \in OciAssets
            BY <1>4 DEF Analyzed
        <3> QED BY <1>1, <1>2, <3>1 DEF OciInv, ShownWasSo, Straddles
    <2>2. ASSUME NEW a \in OciAssets, Applies(a), ~oci.errors PROVE a \in Analyzed
        <3>1. /\ oci.complete /\ oci.uncovered = {} /\ oci.incomplete = {}
            BY <2>2 DEF OciInv, ErrorsKnown
        <3>2. /\ oci.rule \in Analyzers /\ Scoped
            BY <1>1 DEF OciRow, Scoped
        <3>3. /\ place[a].kind \in oci.rule.kinds /\ Configured(a) /\ ~Straddles(a)
              /\ oci.rule.needs \subseteq ociAlways[a] /\ "here" \in ociAlways[a]
            BY <2>2, <3>2, RulesNeed DEF Applies
        <3>4. /\ a \in oci.listed
              /\ \A f \in ShownOf(place[a].kind) : f \in ociAlways[a] => f \in oci.view[a]
              /\ place[a].kind \in {"compute_instance", "block_volume"}
                 /\ "use" \in ociAlways[a] => "use" \in oci.view[a]
            BY <1>1, <2>2, <3>1, <3>2, <3>3, AllSeen
        <3>5. ASSUME NEW f \in oci.rule.needs PROVE f \in oci.view[a]
            BY <3>2, <3>3, <3>4, RulesNeed
        <3> QED BY <2>2, <3>1, <3>3, <3>4, <3>5 DEF Analyzed, RelationshipsComplete
    <2>3. ASSUME NEW put \in ociResult.rows PROVE put.status # "SUCCESS"
        BY <1>1 DEF OciInv, Declared
    <2>4. ASSUME NEW a \in OciAssets, Applies(a)', ~oci'.errors PROVE a \in Analyzed
        <3>1. Applies(a)
            BY <1>1, <1>2, <2>4 DEF Applies, Configured, Straddles
        <3> QED BY <1>2, <2>2, <2>4, <3>1
    <2>5. ASSUME NEW a \in OciAssets, place[a].kind \in ociResult.complete, Configured(a)',
                 "here" \in ociAlways[a]
          PROVE  a \in ociResult.seen
        <3>1. Configured(a)
            BY <1>1, <1>2, <2>5 DEF Configured
        <3> QED BY <2>5, <3>1 DEF OciInv, Declared
    <2> HIDE DEF Applies, Configured
    <2> QED BY <1>1, <1>2, <1>5, <2>1, <2>3, <2>4, <2>5 DEF Declared
<1> QED BY <1>6, <1>7, <1>8, <1>9, <1>10 DEF OciInv

(* The inventory covers what is known to have been listed. *)
LEMMA KindsCovered == ASSUME OciInv, PersistInventory PROVE OciInv'
<1>1. /\ oci.step = "analyzed" /\ oci' = [oci EXCEPT !.step = "returned"]
      /\ ociResult' = [ociResult EXCEPT !.seen = oci.listed \cup oci.searched, !.complete = Covered]
      /\ UNCHANGED <<ociFact, ociAlways, ociEver, place>>
      /\ oci \in OciRow /\ ociResult \in OciResultRow
    BY DEF PersistInventory, OciMoves, OciInv, OciTyped
<1>2. /\ oci'.step = "returned" /\ oci'.errors = oci.errors
      /\ oci'.rule = oci.rule /\ oci'.roots = oci.roots /\ oci'.deep = oci.deep
      /\ oci'.regions = oci.regions /\ oci'.view = oci.view /\ oci'.listed = oci.listed
      /\ oci'.complete = oci.complete /\ oci'.uncovered = oci.uncovered
      /\ oci'.incomplete = oci.incomplete /\ oci'.turn = oci.turn
      /\ oci'.compartments = oci.compartments /\ oci'.queue = oci.queue
    BY <1>1 DEF OciRow
<1>3. oci' \in OciRow
    BY <1>1 DEF OciRow, OciSteps
<1>4. Covered \subseteq Kinds
    BY DEF Covered
<1>5. /\ ociResult' \in OciResultRow /\ ociResult'.found = ociResult.found
      /\ ociResult'.rows = ociResult.rows /\ ociResult'.seen = oci.listed \cup oci.searched
      /\ ociResult'.complete = Covered
    <2>1. oci.listed \cup oci.searched \in SUBSET OciAssets
        BY <1>1 DEF OciRow
    <2> QED BY <1>1, <1>4, <2>1 DEF OciResultRow
<1>6. OciTyped'
    BY <1>1, <1>3, <1>5 DEF OciInv, OciTyped, FactsTyped
<1>7. ScopeRight' /\ ErrorsKnown' /\ TurnRight'
    BY <1>1, <1>2 DEF OciInv, ScopeRight, ErrorsKnown, TurnRight, Scoped, Expanded
<1>8. AllListed'
    <2> SUFFICES ASSUME NEW a \in OciAssets, NEW i \in DOMAIN oci.regions,
                        NEW m \in DOMAIN oci.compartments, Where(a, i, m)
                 PROVE  ListedRight(a, i, m)'
        BY <1>1, <1>2 DEF AllListed, Where
    <2>1. ListedRight(a, i, m)
        BY DEF OciInv, AllListed
    <2> QED BY <1>1, <1>2, <2>1 DEF ListedRight, Done, Attaches, Straddles
<1>9. ShownWasSo'
    BY <1>1, <1>2 DEF OciInv, ShownWasSo, Straddles
<1>10. Declared'
    <2>1. ASSUME NEW a \in ociResult.found
          PROVE  (Straddles(a) \/ oci.rule.needs \subseteq ociEver[a])'
        BY <1>1, <1>2 DEF OciInv, Declared, Straddles
    <2>2. ASSUME NEW a \in OciAssets, Applies(a)', ~oci'.errors PROVE a \in ociResult.found
        <3>1. Applies(a)
            BY <1>1, <1>2, <2>2 DEF Applies, Configured, Straddles
        <3> QED BY <1>1, <1>2, <2>2, <3>1 DEF OciInv, Declared
    <2>3. ASSUME NEW put \in ociResult.rows PROVE put.status # "SUCCESS"
        BY <1>1 DEF OciInv, Declared
    <2>4. ASSUME NEW a \in OciAssets, place[a].kind \in Covered, Configured(a)',
                 "here" \in ociAlways[a]
          PROVE  a \in oci.listed \cup oci.searched
        <3>1. Configured(a)
            BY <1>1, <1>2, <2>4 DEF Configured
        <3>2. oci.complete /\ place[a].kind \notin oci.uncovered
            BY <2>4 DEF Covered
        <3>3. Scoped
            BY <1>1 DEF Scoped
        <3> QED BY <1>1, <2>4, <3>1, <3>2, <3>3, AllSeen
    <2> HIDE DEF Applies, Configured
    <2> QED BY <1>1, <1>2, <1>5, <2>1, <2>2, <2>3, <2>4 DEF Declared
<1> QED BY <1>6, <1>7, <1>8, <1>9, <1>10 DEF OciInv

(* A rule succeeds in its regions if nothing went wrong in the discovery.    *)
LEMMA RowsWritten == ASSUME OciInv, OciComplete PROVE OciInv'
<1>1. /\ oci.step = "returned" /\ oci' = [oci EXCEPT !.step = "completed"]
      /\ ociResult' = [ociResult EXCEPT !.rows =
            {[region |-> oci.regions[i], status |-> IF AnyIssue THEN "SKIPPED" ELSE "SUCCESS"] :
             i \in DOMAIN oci.regions}]
      /\ UNCHANGED <<ociFact, ociAlways, ociEver, place>>
      /\ oci \in OciRow /\ ociResult \in OciResultRow
    BY DEF OciComplete, OciMoves, OciInv, OciTyped
<1>2. /\ oci'.step = "completed" /\ oci'.errors = oci.errors
      /\ oci'.rule = oci.rule /\ oci'.roots = oci.roots /\ oci'.deep = oci.deep
      /\ oci'.regions = oci.regions /\ oci'.view = oci.view /\ oci'.listed = oci.listed
      /\ oci'.complete = oci.complete /\ oci'.uncovered = oci.uncovered
      /\ oci'.incomplete = oci.incomplete /\ oci'.turn = oci.turn
      /\ oci'.compartments = oci.compartments /\ oci'.queue = oci.queue
    BY <1>1 DEF OciRow
<1>3. oci' \in OciRow
    BY <1>1 DEF OciRow, OciSteps
<1> DEFINE rows ==
        {[region |-> oci.regions[i], status |-> IF AnyIssue THEN "SKIPPED" ELSE "SUCCESS"] :
         i \in DOMAIN oci.regions}
<1>4. /\ rows \subseteq [region : STRING, status : {"SUCCESS", "SKIPPED"}]
      /\ \A put \in rows : put.status = "SUCCESS" => ~AnyIssue
    <2>1. \A i \in DOMAIN oci.regions : oci.regions[i] \in STRING
        BY <1>1 DEF OciRow
    <2> QED BY <2>1
<1>5. ociResult' = [ociResult EXCEPT !.rows = rows]
    BY <1>1
<1> HIDE DEF rows
<1>6. /\ ociResult' \in OciResultRow /\ ociResult'.found = ociResult.found
      /\ ociResult'.rows = rows /\ ociResult'.seen = ociResult.seen
      /\ ociResult'.complete = ociResult.complete
    BY <1>1, <1>4, <1>5 DEF OciResultRow
<1>7. OciTyped'
    BY <1>1, <1>3, <1>6 DEF OciInv, OciTyped, FactsTyped
<1>8. ScopeRight' /\ ErrorsKnown' /\ TurnRight'
    BY <1>1, <1>2 DEF OciInv, ScopeRight, ErrorsKnown, TurnRight, Scoped, Expanded
<1>9. AllListed'
    <2> SUFFICES ASSUME NEW a \in OciAssets, NEW i \in DOMAIN oci.regions,
                        NEW m \in DOMAIN oci.compartments, Where(a, i, m)
                 PROVE  ListedRight(a, i, m)'
        BY <1>1, <1>2 DEF AllListed, Where
    <2>1. ListedRight(a, i, m)
        BY DEF OciInv, AllListed
    <2> QED BY <1>1, <1>2, <2>1 DEF ListedRight, Done, Attaches, Straddles
<1>10. ShownWasSo'
    BY <1>1, <1>2 DEF OciInv, ShownWasSo, Straddles
<1>11. Declared'
    <2>1. ASSUME NEW a \in ociResult.found
          PROVE  (Straddles(a) \/ oci.rule.needs \subseteq ociEver[a])'
        BY <1>1, <1>2 DEF OciInv, Declared, Straddles
    <2>2. ASSUME NEW a \in OciAssets, Applies(a)', ~oci'.errors PROVE a \in ociResult.found
        <3>1. Applies(a)
            BY <1>1, <1>2, <2>2 DEF Applies, Configured, Straddles
        <3> QED BY <1>1, <1>2, <2>2, <3>1 DEF OciInv, Declared
    <2>3. ASSUME NEW put \in rows, put.status = "SUCCESS" PROVE ~oci'.errors
        BY <1>2, <1>4, <2>3 DEF AnyIssue
    <2>4. ASSUME NEW a \in OciAssets, place[a].kind \in ociResult.complete, Configured(a)',
                 "here" \in ociAlways[a]
          PROVE  a \in ociResult.seen
        <3>1. Configured(a)
            BY <1>1, <1>2, <2>4 DEF Configured
        <3> QED BY <2>4, <3>1 DEF OciInv, Declared
    <2> HIDE DEF Applies, Configured
    <2> QED BY <1>1, <1>2, <1>6, <2>1, <2>2, <2>3, <2>4 DEF Declared
<1> QED BY <1>7, <1>8, <1>9, <1>10, <1>11 DEF OciInv

(* The invariant holds throughout a collection. *)
LEMMA OciInvHolds == OciSpec => []OciInv
<1>1. OciInv /\ [OciNext]_ociVars => OciInv'
    <2> SUFFICES ASSUME OciInv, [OciNext]_ociVars PROVE OciInv'
        OBVIOUS
    <2>1. CASE UNCHANGED ociVars
        <3>1. OciTyped' /\ ScopeRight' /\ ErrorsKnown' /\ TurnRight'
            BY <2>1 DEF ociVars, OciInv, OciTyped, FactsTyped, ScopeRight, ErrorsKnown,
                        TurnRight, Scoped, Expanded
        <3>2. AllListed' /\ ShownWasSo'
            BY <2>1 DEF ociVars, OciInv, AllListed, ListedRight, Where, Done, Attaches,
                        Straddles, ShownWasSo
        <3>3. Declared'
            BY <2>1 DEF ociVars, OciInv, Declared, Applies, Configured, Straddles
        <3> QED BY <3>1, <3>2, <3>3 DEF OciInv
    <2> QED BY <2>1, TenancyChanges, CollectionFails, ScopeBegins, ScopeGrows, ScopeKnown,
               IndexSearched, DomainsAsked, KindListed, VolumesTold, BootsTold, SourceAsked,
               RulesFind, KindsCovered, RowsWritten DEF OciNext
<1> QED BY <1>1, OciBegins, PTL DEF OciSpec

(* What an OCI collection declares is so, whatever fails or changes while it *)
(* asks (_oci_scope_rows, adapt_oci_inventory): for any resources,           *)
(* compartments and regions.                                                 *)
THEOREM OciEvidence == OciSpec => []OciEvidenceIsSound
<1>1. OciInv => OciEvidenceIsSound
    <2> SUFFICES ASSUME OciInv PROVE OciEvidenceIsSound
        OBVIOUS
    <2>1. ASSUME NEW a \in OciAssets, NEW put \in ociResult.rows, put.status = "SUCCESS",
                 place[a].kind \in oci.rule.kinds, Configured(a), ~Straddles(a),
                 oci.rule.needs \subseteq ociAlways[a]
          PROVE  a \in ociResult.found
        <3>1. oci.step = "completed" /\ ~oci.errors
            BY <2>1 DEF OciInv, Declared
        <3> QED BY <2>1, <3>1 DEF OciInv, Declared, Applies
    <2> QED BY <2>1 DEF OciInv, Declared, OciEvidenceIsSound
<1> QED BY <1>1, OciInvHolds, PTL

-----------------------------------------------------------------------------
(* The row of the dashboard (AccountSummary). *)

(* The latest of some runs. *)
LEMMA MaxIs ==
    ASSUME NEW S, S \subseteq Runs \cup {None}, S # {}
    PROVE  Max(S) \in S /\ \A r \in S : r <= Max(S)
<1> DEFINE T == {MaxRuns - r : r \in S}
<1>1. MaxRuns \in Nat
    BY SummaryAssumption
<1>2. \A r \in S : r \in Nat /\ r <= MaxRuns
    BY <1>1 DEF Runs, None
<1>3. T \subseteq Nat /\ T # {}
    BY <1>1, <1>2
<1>4. PICK x \in T : \A y \in T : ~ (<<y, x>> \in OpToRel(<, Nat))
    BY <1>3, NatLessThanWellFounded, WFMin
<1>5. \A y \in T : ~ (y < x)
    BY <1>3, <1>4 DEF OpToRel
<1>6. PICK r \in S : x = MaxRuns - r
    BY <1>4
<1>7. ASSUME NEW s \in S PROVE r >= s
    <2>1. ~ (MaxRuns - s < MaxRuns - r)
        BY <1>5, <1>6, <1>7
    <2> QED BY <1>1, <1>2, <2>1
<1>8. Max(S) \in S /\ \A s \in S : Max(S) >= s
    BY <1>6, <1>7 DEF Max
<1> QED BY <1>2, <1>8

(* The outcomes that are counted, the counts there can be, and the rows a   *)
(* transaction can have changed.                                            *)
Outcomes == {"open", "treated", "rejected"}
Sizes == {Cardinality(F) : F \in SUBSET Findings}
Writes == {<<>>} \cup UNION {[F -> Standing] : F \in SUBSET Findings}
(* A transaction that is open.                                              *)
OpenRow == [step : {"idle", "decided", "counted"}, writes : Writes, holds : BOOLEAN,
            target : Runs \cup {None}, metrics : [Outcomes -> Sizes]]

(* The types of the state.                                                  *)
SummaryTyped ==
    /\ ended \in [Runs -> CollectionRun]
    /\ observed \subseteq Runs \X Findings
    /\ standing \in [Findings -> Standing]
    /\ open \in [Writers -> OpenRow]
    /\ doomed \subseteq Runs \X Findings
    /\ summary.run \in Successful \cup {None}

(* A finding was last judged by a run that is not older than those that saw *)
(* it, and no decision changes that.                                        *)
JudgedSince ==
    /\ \A r \in Runs, f \in Findings :
          <<r, f>> \in observed => r \in Successful /\ standing[f].judged >= r
    /\ \A w \in Writers : \A f \in DOMAIN open[w].writes :
          /\ f \in Findings /\ open[w].writes[f] \in Standing
          /\ open[w].writes[f].judged = standing[f].judged

(* One transaction holds the row of the summary, once there is one.         *)
OneHolds ==
    \A w \in Writers :
        /\ open[w].holds => open[w].step = "counted" /\ summary.run # None
                            /\ \A v \in Writers : open[v].holds => v = w
        /\ open[w].step = "counted" => open[w].target \in Successful

(* What a transaction that will have its way has counted of the latest run. *)
CountedRight ==
    \A w \in Writers :
        /\ open[w].step = "counted" /\ (open[w].holds \/ summary.run = None)
        /\ open[w].target = Latest
        => open[w].metrics = Metrics(Latest, RowsOf(w))

(* Only runs that are not the latest lose their observations.               *)
NewestIsDetailed ==
    /\ \A o \in doomed : \E q \in Successful : q > o[1]
    /\ \A r \in Runs : ~ended[r].detailed => \E q \in Successful : q > r

(* The row of the latest run.                                               *)
RowIsRight ==
    summary.run = Latest /\ Latest # None =>
        /\ summary.metrics = Metrics(Latest, standing)
        /\ \/ summary.changes = Changes(Latest, standing)
           \/ Baseline(Latest) > summary.changes.baseline
           \/ summary.changes.has /\ ~ended[summary.changes.baseline].detailed

(* The changes of the summary are changes since a successful run.           *)
BaselineIsRun == summary.changes.baseline \in Successful \cup {None}
                 /\ (summary.changes.has => summary.changes.baseline # None)

(* What holds of the summary and of the transactions that refresh it.       *)
SummaryInv ==
    /\ SummaryTyped /\ JudgedSince /\ OneHolds /\ CountedRight /\ NewestIsDetailed
    /\ RowIsRight /\ BaselineIsRun

-----------------------------------------------------------------------------
(* The counts, as what they depend on. *)

(* The metrics, of the findings they count.                                 *)
CountBy(F, rows) ==
    [s \in Outcomes |-> Cardinality({f \in F : ~rows[f].archived /\ rows[f].status = s})]

(* The changes, of the findings they count.                                 *)
ChangesBy(c, new, gone) ==
    [NoChanges EXCEPT
       !.baseline = c.baseline, !.has = c.has, !.changed = c.changed, !.unknown = c.unknown,
       !.new = IF c.has THEN Cardinality(new) ELSE 0,
       !.gone = IF c.has THEN Cardinality(gone) ELSE 0]

(* What is not part of the count does not change it.                        *)
LEMMA SameCount ==
    ASSUME NEW F, NEW R, NEW S,
           \A f \in F : R[f].archived = S[f].archived /\ R[f].status = S[f].status
    PROVE  CountBy(F, R) = CountBy(F, S)
<1>1. ASSUME NEW s \in Outcomes
      PROVE  {f \in F : ~R[f].archived /\ R[f].status = s}
                 = {f \in F : ~S[f].archived /\ S[f].status = s}
    OBVIOUS
<1> QED BY <1>1 DEF CountBy

(* What is not part of being operational does not change it.                *)
LEMMA SameOperational ==
    ASSUME NEW F, NEW R, NEW S,
           \A f \in F : R[f].archived = S[f].archived /\ R[f].status = S[f].status
    PROVE  Operational(F, R) = Operational(F, S)
BY DEF Operational

(* The metrics count the findings of a run.                                 *)
LEMMA MetricsIs == \A r, rows : Metrics(r, rows) = CountBy(In(r), rows)
BY DEF Metrics, CountBy, Outcomes

(* The changes count what is new since the baseline and what is gone.       *)
LEMMA ChangesIs ==
    \A t, rows : Changes(t, rows) =
        ChangesBy(Context(t), Operational(NewIn(Context(t).baseline, t), rows),
                  NoLongerIn(Context(t).baseline, t))
BY DEF Changes, ChangesBy

(* Metrics are numbers of findings.                                         *)
LEMMA CountTyped ==
    ASSUME SummaryTyped, NEW r, NEW rows
    PROVE  Metrics(r, rows) \in [Outcomes -> Sizes]
<1>1. \A s \in Outcomes :
         {f \in In(r) : ~rows[f].archived /\ rows[f].status = s} \in SUBSET Findings
    BY DEF In
<1> QED BY <1>1 DEF Metrics, Outcomes, Sizes

(* The latest run is the greatest of the successful ones.                   *)
LatestFacts ==
    /\ Latest \in Successful \cup {None} /\ Latest \in Nat
    /\ \A r \in Successful : r <= Latest /\ r > 0 /\ r \in Runs /\ r \in Nat

(* A baseline is the greatest successful run of its scope before the run.   *)
BaselineFacts(t) ==
    /\ Baseline(t) \in Nat
    /\ Baseline(t) # None => Baseline(t) \in Successful /\ Baseline(t) < t
                             /\ SameScope(t, Baseline(t))
    /\ \A q \in Successful : q < t /\ SameScope(t, q) => q <= Baseline(t)

(* By the definition of the greatest.                                       *)
LEMMA LatestIs == LatestFacts
<1>1. Successful \subseteq Runs
    BY DEF Successful
<1>2. Latest \in Successful \cup {None} /\ \A r \in Successful \cup {None} : r <= Latest
    BY <1>1, MaxIs DEF Latest
<1>3. \A r \in Runs : r \in Nat /\ r > 0
    BY SummaryAssumption DEF Runs
<1> QED BY <1>1, <1>2, <1>3 DEF None, LatestFacts

(* By the definition of the greatest.                                       *)
LEMMA BaselineIs == \A t \in Runs : BaselineFacts(t)
<1> SUFFICES ASSUME NEW t \in Runs PROVE BaselineFacts(t)
    OBVIOUS
<1> DEFINE S == {q \in Successful : q < t /\ SameScope(t, q)} \cup {None}
<1>1. S \subseteq Runs \cup {None} /\ S # {}
    BY DEF Successful
<1>2. Baseline(t) \in S /\ \A q \in S : q <= Baseline(t)
    BY <1>1, MaxIs DEF Baseline
<1>3. \A r \in Runs : r \in Nat
    BY SummaryAssumption DEF Runs
<1> QED BY <1>1, <1>2, <1>3 DEF None, BaselineFacts

(* There is no run and no summary.                                          *)
LEMMA SummaryBegins == SummaryInit => SummaryInv
<1> SUFFICES ASSUME SummaryInit PROVE SummaryInv
    OBVIOUS
<1> USE SummaryAssumption
<1>1. PICK scope \in [Runs -> Snapshots \cup {Unrecorded}],
           version \in [Runs -> Versions \cup {Unrecorded}] :
         ended = [r \in Runs |-> [status |-> "RUNNING", covered |-> {}, detailed |-> TRUE,
                                  scope |-> scope[r], version |-> version[r]]]
    BY DEF SummaryInit
<1>2. \A r \in Runs : ended[r] \in CollectionRun /\ ended[r].status = "RUNNING" /\ ended[r].detailed
    BY <1>1 DEF CollectionRun
<1>3. Successful = {}
    BY <1>2 DEF Successful
<1>4. Idle \in OpenRow /\ Idle.step = "idle" /\ ~Idle.holds /\ Idle.writes = <<>>
    <2>1. NoSummary.metrics \in [Outcomes -> Sizes]
        <3>1. 0 \in Sizes
            BY FS_EmptySet DEF Sizes
        <3> QED BY <3>1 DEF NoSummary, Outcomes
    <2> QED BY <2>1 DEF Idle, OpenRow, Writes, None
<1>5. \A w \in Writers : open[w] = Idle
    BY DEF SummaryInit
<1>6. SummaryTyped
    <2>1. ended \in [Runs -> CollectionRun]
        BY <1>1, <1>2
    <2>2. standing \in [Findings -> Standing]
        <3>1. [status |-> "open", archived |-> FALSE, known |-> FALSE, judged |-> None] \in Standing
            BY DEF Standing
        <3> QED BY <3>1 DEF SummaryInit
    <2>3. open \in [Writers -> OpenRow]
        BY <1>4 DEF SummaryInit
    <2>4. summary.run = None
        BY DEF SummaryInit, NoSummary
    <2> QED BY <2>1, <2>2, <2>3, <2>4 DEF SummaryTyped, SummaryInit
<1>7. JudgedSince
    <2>1. DOMAIN <<>> = {}
        OBVIOUS
    <2> QED BY <1>4, <1>5, <2>1 DEF SummaryInit, JudgedSince
<1>8. OneHolds /\ CountedRight
    BY <1>4, <1>5 DEF OneHolds, CountedRight
<1>9. NewestIsDetailed
    BY <1>2 DEF SummaryInit, NewestIsDetailed
<1>10. BaselineIsRun /\ RowIsRight
    <2>1. summary.changes.baseline = None /\ ~summary.changes.has
        BY DEF SummaryInit, NoSummary, NoChanges
    <2>2. Latest = None
        BY <1>3, LatestIs DEF LatestFacts
    <2> QED BY <2>1, <2>2 DEF BaselineIsRun, RowIsRight
<1> QED BY <1>6, <1>7, <1>8, <1>9, <1>10 DEF SummaryInv

(* What of a run does not change leaves its counts and comparison as they   *)
(* are.                                                                     *)
LEMMA SameMetrics ==
    ASSUME NEW t \in Runs, In(t)' = In(t),
           \A f \in In(t) : standing'[f].archived = standing[f].archived
                            /\ standing'[f].status = standing[f].status
    PROVE  Metrics(t, standing)' = Metrics(t, standing)
<1>1. CountBy(In(t), standing') = CountBy(In(t), standing)
    BY SameCount
<1>2. Metrics(t, standing)' = CountBy(In(t)', standing')
    BY DEF Metrics, CountBy, Outcomes
<1> QED BY <1>1, <1>2, MetricsIs

(* Who has counted has counted right as long as the rows of the run stay.   *)
LEMMA SameCounted ==
    ASSUME NEW t \in Runs, NEW w \in Writers, In(t)' = In(t), In(t) \subseteq Findings,
           UNCHANGED open,
           \A f \in In(t) : standing'[f].archived = standing[f].archived
                            /\ standing'[f].status = standing[f].status
    PROVE  Metrics(t, RowsOf(w))' = Metrics(t, RowsOf(w))
<1>1. \A f \in In(t) : RowsOf(w)'[f].archived = RowsOf(w)[f].archived
                       /\ RowsOf(w)'[f].status = RowsOf(w)[f].status
    BY DEF RowsOf
<1>2. CountBy(In(t), RowsOf(w)') = CountBy(In(t), RowsOf(w))
    BY <1>1, SameCount
<1>3. Metrics(t, RowsOf(w))' = CountBy(In(t)', RowsOf(w)')
    BY DEF Metrics, CountBy, Outcomes
<1> QED BY <1>2, <1>3, MetricsIs

(* The changes stay as long as the rows of the run and of its baseline do.  *)
LEMMA SameChanges ==
    ASSUME NEW t \in Runs, In(t)' = In(t),
           \A f \in In(t) : standing'[f].archived = standing[f].archived
                            /\ standing'[f].status = standing[f].status,
           Context(t)' = Context(t), ended'[t].covered = ended[t].covered,
           Context(t).has => In(Context(t).baseline)' = In(Context(t).baseline)
    PROVE  Changes(t, standing)' = Changes(t, standing)
<1> DEFINE c == Context(t)
           b == c.baseline
           new == Operational(NewIn(b, t), standing)
           gone == NoLongerIn(b, t)
<1>1. Changes(t, standing) = ChangesBy(c, new, gone)
    BY ChangesIs
<1>2. Changes(t, standing)' = ChangesBy(c', new', gone')
    BY DEF Changes, ChangesBy
<1>3. CASE c.has
    <2>1. In(b)' = In(b) /\ c' = c /\ b' = b
        BY <1>3
    <2>2. NewIn(b, t)' = NewIn(b, t) /\ gone' = gone
        BY <2>1 DEF NewIn, NoLongerIn
    <2>3. \A f \in NewIn(b, t) : standing'[f].archived = standing[f].archived
                                 /\ standing'[f].status = standing[f].status
        BY DEF NewIn
    <2>4. Operational(NewIn(b, t), standing') = Operational(NewIn(b, t), standing)
        BY <2>3, SameOperational
    <2>5. new' = Operational(NewIn(b, t)', standing')
        BY DEF Operational
    <2>6. new' = new
        BY <2>2, <2>4, <2>5
    <2> QED BY <1>1, <1>2, <2>1, <2>2, <2>6
<1>4. CASE ~c.has
    <2>1. c' = c /\ ~c'.has
        BY <1>4
    <2> HIDE DEF c, b, new, gone
    <2>2. ChangesBy(c, new, gone) = ChangesBy(c, {}, {})
        BY <1>4 DEF ChangesBy
    <2>3. ChangesBy(c', new', gone') = ChangesBy(c', {}, {})
        BY <2>1 DEF ChangesBy
    <2> QED BY <1>1, <1>2, <2>1, <2>2, <2>3
<1> QED BY <1>3, <1>4

(* The baseline counts only for a detailed run.                             *)
LEMMA ContextIs ==
    ASSUME NEW t, NEW b, b = IF ended[t].detailed THEN Baseline(t) ELSE None
    PROVE  /\ Context(t).baseline = b
           /\ Context(t).has <=> b # None /\ ended[b].detailed
BY DEF Context

-----------------------------------------------------------------------------
(* A run is committed. *)

(* What the end of a successful run does to the runs, the rows and the      *)
(* summary.                                                                 *)
LEMMA PersistDoes ==
    ASSUME SummaryInv, NEW r \in Runs, NEW saw \in SUBSET Findings,
           NEW covered \in SUBSET Findings, NEW absent \in SUBSET Findings,
           Persist(r, saw, covered, absent)
    PROVE  /\ r \notin Successful /\ Successful' = Successful \cup {r}
           /\ ended' \in [Runs -> CollectionRun]
           /\ \A q \in Runs : /\ q # r => ended'[q] = ended[q]
                              /\ ended'[q].scope = ended[q].scope
                              /\ ended'[q].version = ended[q].version
                              /\ ended'[q].detailed = ended[q].detailed
           /\ \A q : q # r => In(q)' = In(q)
           /\ observed' \subseteq Runs \X Findings
           /\ \A q \in Runs, f \in Findings :
                 <<q, f>> \in observed' => <<q, f>> \in observed \/ (q = r /\ f \in saw)
           /\ standing' \in [Findings -> Standing]
           /\ \A f \in Findings :
                 /\ standing'[f].status = standing[f].status
                 /\ standing'[f].judged >= standing[f].judged
                 /\ f \in saw => standing'[f].judged >= r
                 /\ standing[f].judged > r => standing'[f].archived = standing[f].archived
                 /\ f \in Locked => standing'[f].judged = standing[f].judged
           /\ UNCHANGED <<summary, open, doomed>>
<1>a. /\ ended \in [Runs -> CollectionRun] /\ observed \subseteq Runs \X Findings
      /\ standing \in [Findings -> Standing]
    BY DEF SummaryInv, SummaryTyped
<1>b. \A q \in Runs : q \in Nat /\ q > 0
    BY SummaryAssumption DEF Runs
<1>1. /\ ended[r].status = "RUNNING" /\ (saw \cup covered) \cap Locked = {}
      /\ absent \subseteq {f \in covered \ saw : standing[f].known /\ standing[f].judged < r}
      /\ ended' = [ended EXCEPT ![r] = [ended[r] EXCEPT !.status = "SUCCESS", !.covered = covered]]
      /\ observed' = observed \cup ({r} \X saw)
      /\ UNCHANGED <<summary, open, doomed>>
    BY <1>a DEF Persist
<1>2. PICK put \in CollectionRun :
         /\ put.status = "SUCCESS" /\ put.scope = ended[r].scope
         /\ put.version = ended[r].version /\ put.detailed = ended[r].detailed
         /\ ended' = [ended EXCEPT ![r] = put]
    <2> DEFINE put == [ended[r] EXCEPT !.status = "SUCCESS", !.covered = covered]
    <2>1. /\ put \in CollectionRun /\ put.status = "SUCCESS" /\ put.scope = ended[r].scope
          /\ put.version = ended[r].version /\ put.detailed = ended[r].detailed
        BY <1>a DEF CollectionRun
    <2> QED BY <1>1, <2>1
<1>3. /\ ended' \in [Runs -> CollectionRun] /\ ended'[r] = put
      /\ \A q \in Runs : q # r => ended'[q] = ended[q]
    BY <1>a, <1>2
<1>4. r \notin Successful /\ Successful' = Successful \cup {r}
    BY <1>1, <1>2, <1>3 DEF Successful
<1>5. /\ \A q : q # r => In(q)' = In(q)
      /\ observed' \subseteq Runs \X Findings
      /\ \A q \in Runs, f \in Findings :
            <<q, f>> \in observed' => <<q, f>> \in observed \/ (q = r /\ f \in saw)
    BY <1>1, <1>a DEF In
<1>6. /\ DOMAIN standing' = Findings /\ standing' = [f \in Findings |-> standing'[f]]
    BY DEF Persist
<1>7. ASSUME NEW f \in Findings
      PROVE  /\ standing'[f] \in Standing
             /\ standing'[f].status = standing[f].status
             /\ standing'[f].judged >= standing[f].judged
             /\ f \in saw => standing'[f].judged >= r
             /\ standing[f].judged > r => standing'[f].archived = standing[f].archived
             /\ f \in Locked => standing'[f].judged = standing[f].judged
    <2> DEFINE o == standing[f]
               again == f \in saw /\ o.judged <= r
               n == standing'[f]
    <2>1. n = [o EXCEPT !.known = @ \/ f \in saw,
                        !.judged = IF again \/ f \in absent THEN r ELSE @,
                        !.archived = @ /\ ~(again /\ o.status # "rejected")]
        BY DEF Persist
    <2>2. o \in Standing
        BY <1>a
    <2>3. o.judged \in Nat /\ o.judged \in Runs \cup {None}
        BY <2>2, <1>b DEF Standing, None
    <2>4. /\ n.status = o.status
          /\ n.judged = IF again \/ f \in absent THEN r ELSE o.judged
          /\ n.archived = (o.archived /\ ~(again /\ o.status # "rejected"))
          /\ n.known = (o.known \/ f \in saw)
          /\ n \in Standing
        <3> HIDE DEF again, o
        <3>1. o.known \in BOOLEAN /\ o.archived \in BOOLEAN
            BY <2>2 DEF Standing
        <3>2. /\ (o.known \/ f \in saw) \in BOOLEAN
              /\ (o.archived /\ ~(again /\ o.status # "rejected")) \in BOOLEAN
              /\ (IF again \/ f \in absent THEN r ELSE o.judged) \in Runs \cup {None}
            BY <2>3
        <3> HIDE DEF n
        <3> QED BY <2>1, <2>2, <3>2 DEF Standing
    <2>5. f \in absent => f \in covered /\ f \notin saw /\ o.judged < r
        BY <1>1
    <2>6. f \in Locked => f \notin saw /\ f \notin absent
        BY <1>1, <2>5
    <2> HIDE DEF n
    <2>7. o.judged > r => ~again
        BY <2>3, <1>b
    <2>8. n.judged >= o.judged /\ (f \in saw => n.judged >= r)
        BY <2>3, <2>4, <2>5, <1>b
    <2>9. o.judged > r => n.archived = o.archived
        <3> HIDE DEF again, o
        <3> QED BY <2>2, <2>4, <2>7 DEF Standing
    <2> QED BY <2>4, <2>6, <2>8, <2>9 DEF n
<1>8. standing' \in [Findings -> Standing]
    BY <1>6, <1>7
<1> QED BY <1>1, <1>2, <1>3, <1>4, <1>5, <1>7, <1>8

(* The end of a successful run writes the row of the summary itself.        *)
LEMMA PersistKept ==
    ASSUME SummaryInv, NEW r \in Runs, NEW saw \in SUBSET Findings,
           NEW covered \in SUBSET Findings, NEW absent \in SUBSET Findings,
           Persist(r, saw, covered, absent)
    PROVE  SummaryInv'
<1>1. /\ r \notin Successful /\ Successful' = Successful \cup {r}
      /\ ended' \in [Runs -> CollectionRun]
      /\ \A q \in Runs : /\ q # r => ended'[q] = ended[q]
                         /\ ended'[q].scope = ended[q].scope
                         /\ ended'[q].version = ended[q].version
                         /\ ended'[q].detailed = ended[q].detailed
      /\ \A q : q # r => In(q)' = In(q)
      /\ observed' \subseteq Runs \X Findings
      /\ \A q \in Runs, f \in Findings :
            <<q, f>> \in observed' => <<q, f>> \in observed \/ (q = r /\ f \in saw)
      /\ standing' \in [Findings -> Standing]
      /\ \A f \in Findings :
            /\ standing'[f].status = standing[f].status
            /\ standing'[f].judged >= standing[f].judged
            /\ f \in saw => standing'[f].judged >= r
            /\ standing[f].judged > r => standing'[f].archived = standing[f].archived
            /\ f \in Locked => standing'[f].judged = standing[f].judged
      /\ UNCHANGED <<summary, open, doomed>>
    BY PersistDoes
<1>2. /\ SummaryTyped /\ JudgedSince /\ OneHolds /\ CountedRight /\ NewestIsDetailed
      /\ RowIsRight /\ BaselineIsRun
    BY DEF SummaryInv
<1>3. SummaryTyped'
    BY <1>1, <1>2 DEF SummaryTyped
<1>b. /\ \A q \in Runs : q \in Nat /\ q > 0
      /\ \A f \in Findings : standing[f].judged \in Nat /\ standing'[f].judged \in Nat
    <2>1. \A q \in Runs : q \in Nat /\ q > 0
        BY SummaryAssumption DEF Runs
    <2>2. \A o \in Standing : o.judged \in Nat
        BY <2>1 DEF Standing, None
    <2> QED BY <1>1, <1>2, <2>1, <2>2 DEF SummaryTyped
<1>4. JudgedSince'
    <2>1. ASSUME NEW q \in Runs, NEW f \in Findings, <<q, f>> \in observed'
          PROVE  q \in Successful' /\ standing'[f].judged >= q
        <3>1. CASE <<q, f>> \in observed
            <4>1. q \in Successful /\ standing[f].judged >= q
                BY <1>2, <3>1 DEF JudgedSince
            <4> QED BY <1>1, <1>b, <4>1
        <3>2. CASE q = r /\ f \in saw
            BY <1>1, <3>2
        <3> QED BY <1>1, <2>1, <3>1, <3>2
    <2>2. ASSUME NEW w \in Writers, NEW f \in DOMAIN open[w].writes
          PROVE  /\ f \in Findings /\ open[w].writes[f] \in Standing
                 /\ open[w].writes[f].judged = standing'[f].judged
        <3>1. f \in Locked
            BY DEF Locked
        <3> QED BY <1>1, <1>2, <3>1 DEF JudgedSince
    <2> QED BY <1>1, <2>1, <2>2 DEF JudgedSince
<1>5. OneHolds' /\ NewestIsDetailed'
    BY <1>1, <1>2 DEF OneHolds, NewestIsDetailed
<1>6. BaselineIsRun'
    BY <1>1, <1>2 DEF BaselineIsRun
<1>7. LatestFacts /\ LatestFacts'
    BY LatestIs, PTL
<1>8. (\A t \in Runs : BaselineFacts(t)) /\ (\A t \in Runs : BaselineFacts(t))'
    BY BaselineIs, PTL
<1>9. CASE r > Latest
    <2>1. Latest' = r
        BY <1>1, <1>7, <1>9, <1>b DEF LatestFacts, None
    <2>2. CountedRight'
        BY <1>1, <1>2, <2>1 DEF CountedRight, OneHolds
    <2>3. RowIsRight'
        BY <1>1, <1>2, <1>b, <2>1 DEF RowIsRight, SummaryTyped, None
    <2> QED BY <1>3, <1>4, <1>5, <1>6, <2>2, <2>3 DEF SummaryInv
<1>10. CASE r < Latest
    <2>a. PICK t \in Runs : t = Latest
        BY <1>7, <1>10, <1>b DEF LatestFacts, None
    <2>1. t \in Successful /\ t \in Runs /\ t # r /\ t # None
        BY <1>7, <1>10, <1>b, <2>a DEF LatestFacts, None
    <2>2. Latest' = t
        BY <1>1, <1>7, <1>10, <1>b, <2>a, <2>1 DEF LatestFacts, None
    <2>3. In(t)' = In(t) /\ In(t) \subseteq Findings
        BY <1>1, <2>1 DEF In
    <2>4. \A f \in In(t) : standing'[f].archived = standing[f].archived
                           /\ standing'[f].status = standing[f].status
        <3> SUFFICES ASSUME NEW f \in In(t)
                     PROVE  standing'[f].archived = standing[f].archived
                            /\ standing'[f].status = standing[f].status
            OBVIOUS
        <3>1. f \in Findings /\ <<t, f>> \in observed
            BY DEF In
        <3>2. standing[f].judged >= t
            BY <1>2, <2>1, <3>1 DEF JudgedSince
        <3>3. standing[f].judged > r
            BY <1>10, <1>b, <2>a, <3>1, <3>2
        <3> QED BY <1>1, <3>1, <3>3
    <2>5. ASSUME NEW w \in Writers
          PROVE  Metrics(t, RowsOf(w))' = Metrics(t, RowsOf(w))
        BY <1>1, <2>1, <2>3, <2>4, SameCounted
    <2>6. CountedRight'
        <3> SUFFICES ASSUME NEW w \in Writers, open[w].step = "counted",
                            open[w].holds \/ summary.run = None, open[w].target = t
                     PROVE  open[w].metrics = Metrics(Latest, RowsOf(w))'
            BY <1>1, <2>2 DEF CountedRight
        <3>1. open[w].metrics = Metrics(t, RowsOf(w))
            BY <1>2, <2>a DEF CountedRight
        <3>2. Metrics(Latest, RowsOf(w))' = Metrics(t, RowsOf(w))'
            BY <2>2 DEF Metrics
        <3> QED BY <2>5, <3>1, <3>2
    <2>7. RowIsRight'
        <3> SUFFICES ASSUME summary.run = t
                     PROVE  /\ summary.metrics = Metrics(t, standing)'
                            /\ \/ summary.changes = Changes(t, standing)'
                               \/ Baseline(t)' > summary.changes.baseline
                               \/ /\ summary.changes.has
                                  /\ ~ended'[summary.changes.baseline].detailed
            BY <1>1, <2>2 DEF RowIsRight
        <3> DEFINE b == Baseline(t)
                   x == summary.changes.baseline
        <3>1. /\ summary.metrics = Metrics(t, standing)
              /\ \/ summary.changes = Changes(t, standing)
                 \/ b > x
                 \/ summary.changes.has /\ ~ended[x].detailed
            BY <1>2, <2>a, <2>1 DEF RowIsRight
        <3>2. Metrics(t, standing)' = Metrics(t, standing)
            BY <2>3, <2>4, SameMetrics
        <3>3. BaselineFacts(t) /\ BaselineFacts(t)'
            BY <1>8
        <3>4. \A q \in Runs : SameScope(t, q)' = SameScope(t, q)
            BY <1>1 DEF SameScope
        <3>5. b \in Nat /\ b' \in Nat /\ b' >= b
            <4>1. b = None \/ b <= b'
                BY <1>1, <3>3, <3>4 DEF BaselineFacts, Successful
            <4> QED BY <3>3, <4>1 DEF BaselineFacts, None
        <3>6. x \in Successful \cup {None} /\ x \in Nat /\ (summary.changes.has => x # None)
            BY <1>2, <1>b DEF BaselineIsRun, Successful, None
        <3>7. CASE b > x
            BY <3>1, <3>2, <3>5, <3>6, <3>7
        <3>8. CASE summary.changes.has /\ ~ended[x].detailed
            <4>1. x \in Runs
                BY <3>6, <3>8 DEF Successful
            <4>2. ~ended'[x].detailed
                BY <1>1, <3>8, <4>1
            <4> QED BY <3>1, <3>2, <3>8, <4>2
        <3>9. CASE summary.changes = Changes(t, standing)
            <4>1. x = Context(t).baseline /\ x <= b
                <5>1. Changes(t, standing).baseline = Context(t).baseline
                    BY DEF Changes, NoChanges
                <5>2. Context(t).baseline \in {b, None}
                    BY DEF Context
                <5> QED BY <3>5, <3>9, <5>1, <5>2 DEF None
            <4>2. CASE b' > b
                BY <3>1, <3>2, <3>5, <3>6, <4>1, <4>2
            <4>3. CASE b' = b
                <5>1. b # None => b \in Successful /\ b \in Runs /\ b # r
                    BY <1>1, <3>3 DEF BaselineFacts, Successful
                <5>2. ended'[t] = ended[t] /\ (b # None => ended'[b] = ended[b])
                    BY <1>1, <2>1, <5>1
                <5>3. Context(t)' = Context(t)
                    BY <4>3, <5>2 DEF Context
                <5>4. Context(t).has => In(Context(t).baseline)' = In(Context(t).baseline)
                    <6>1. Context(t).has => Context(t).baseline = b /\ b # None
                        BY DEF Context
                    <6> QED BY <1>1, <4>3, <5>1, <5>3, <6>1 DEF In
                <5>5. Changes(t, standing)' = Changes(t, standing)
                    BY <2>3, <2>4, <5>2, <5>3, <5>4, SameChanges
                <5> QED BY <3>1, <3>2, <3>9, <5>5
            <4> QED BY <3>5, <4>2, <4>3
        <3> QED BY <3>1, <3>7, <3>8, <3>9
    <2> QED BY <1>3, <1>4, <1>5, <1>6, <2>6, <2>7 DEF SummaryInv
<1> QED BY <1>1, <1>7, <1>9, <1>10, <1>b DEF LatestFacts, None

-----------------------------------------------------------------------------
(* Observations are deleted, and runs fail. *)

(* What changes neither a success nor an open transaction.                  *)
LEMMA RunsStand ==
    ASSUME SummaryInv, ended' \in [Runs -> CollectionRun], Successful' = Successful,
           \A q \in Runs : /\ ended'[q].scope = ended[q].scope
                           /\ ended'[q].version = ended[q].version,
           UNCHANGED <<standing, summary, open>>,
           observed' \subseteq observed, doomed' \subseteq Runs \X Findings,
           NewestIsDetailed', In(Latest)' = In(Latest),
           Latest # None => ended'[Latest] = ended[Latest],
           \A q \in Successful :
              \/ In(q)' = In(q) /\ ended'[q].detailed = ended[q].detailed
              \/ ~ended'[q].detailed,
           \A q \in Successful : ~ended[q].detailed => ~ended'[q].detailed
    PROVE  SummaryInv'
<1>2. /\ SummaryTyped /\ JudgedSince /\ OneHolds /\ CountedRight /\ NewestIsDetailed
      /\ RowIsRight /\ BaselineIsRun
    BY DEF SummaryInv
<1>3. SummaryTyped'
    BY <1>2 DEF SummaryTyped
<1>4. JudgedSince' /\ OneHolds' /\ BaselineIsRun'
    BY <1>2 DEF JudgedSince, OneHolds, BaselineIsRun
<1>7. LatestFacts /\ LatestFacts' /\ Latest' = Latest
    <2>1. LatestFacts /\ LatestFacts'
        BY LatestIs, PTL
    <2> QED BY <2>1 DEF Latest
<1>8. (\A t \in Runs : BaselineFacts(t)) /\ (\A t \in Runs : BaselineFacts(t))'
    BY BaselineIs, PTL
<1>9. CASE Latest = None
    <2>1. Successful = {}
        BY <1>7, <1>9 DEF LatestFacts, None
    <2> QED BY <1>2, <1>3, <1>4, <1>7, <1>9, <2>1
            DEF SummaryInv, CountedRight, OneHolds, RowIsRight
<1>10. CASE Latest # None
    <2>1. PICK t \in Runs : t = Latest
        BY <1>7, <1>10 DEF LatestFacts
    <2>2. /\ t \in Successful /\ Latest' = t /\ t # None /\ ended'[t] = ended[t]
          /\ In(t)' = In(t) /\ In(t) \subseteq Findings
        BY <1>2, <1>7, <1>10, <2>1 DEF LatestFacts, In, SummaryTyped
    <2>3. CountedRight'
        <3> SUFFICES ASSUME NEW w \in Writers, open[w].step = "counted",
                            open[w].holds \/ summary.run = None, open[w].target = t
                     PROVE  open[w].metrics = Metrics(Latest, RowsOf(w))'
            BY <2>2 DEF CountedRight
        <3>1. open[w].metrics = Metrics(t, RowsOf(w))
            BY <1>2, <2>1 DEF CountedRight
        <3>2. Metrics(Latest, RowsOf(w))' = Metrics(t, RowsOf(w))'
            BY <2>2 DEF Metrics
        <3>3. Metrics(t, RowsOf(w))' = Metrics(t, RowsOf(w))
            BY <2>2, SameCounted
        <3> QED BY <3>1, <3>2, <3>3
    <2>4. RowIsRight'
        <3> SUFFICES ASSUME summary.run = t
                     PROVE  /\ summary.metrics = Metrics(t, standing)'
                            /\ \/ summary.changes = Changes(t, standing)'
                               \/ Baseline(t)' > summary.changes.baseline
                               \/ /\ summary.changes.has
                                  /\ ~ended'[summary.changes.baseline].detailed
            BY <2>2 DEF RowIsRight
        <3> DEFINE b == Baseline(t)
                   x == summary.changes.baseline
        <3>1. /\ summary.metrics = Metrics(t, standing)
              /\ \/ summary.changes = Changes(t, standing)
                 \/ b > x
                 \/ summary.changes.has /\ ~ended[x].detailed
            BY <1>2, <2>1, <2>2 DEF RowIsRight
        <3>2. Metrics(t, standing)' = Metrics(t, standing)
            BY <2>2, SameMetrics
        <3>3. b' = b /\ BaselineFacts(t)
            <4>1. \A q \in Runs : SameScope(t, q)' = SameScope(t, q)
                BY DEF SameScope
            <4>2. {q \in Successful : q < t /\ SameScope(t, q)}
                      = {q \in Successful' : q < t /\ SameScope(t, q)'}
                BY <4>1 DEF Successful
            <4> QED BY <1>8, <4>2 DEF Baseline
        <3>6. x \in Successful \cup {None} /\ (summary.changes.has => x # None)
            BY <1>2 DEF BaselineIsRun
        <3>7. CASE b > x
            BY <3>1, <3>2, <3>3, <3>7
        <3>8. CASE summary.changes.has /\ ~ended[x].detailed
            BY <3>1, <3>2, <3>6, <3>8
        <3>9. CASE summary.changes = Changes(t, standing)
            <4>1. x = Context(t).baseline /\ (summary.changes.has <=> Context(t).has)
                BY <3>9 DEF Changes, NoChanges, Context
            <4>2. /\ x \in {b, None}
                  /\ Context(t).has <=> x # None /\ ended[x].detailed
                BY <4>1 DEF Context
            <4>3. CASE Context(t).has /\ ~ended'[x].detailed
                BY <3>1, <3>2, <4>1, <4>3
            <4>4. CASE ~(Context(t).has /\ ~ended'[x].detailed)
                <5>1. x # None => x \in Successful /\ x \in Runs
                    BY <3>6 DEF Successful
                <5>2. Context(t)' = Context(t)
                    <6>1. Context(t).has <=> x # None /\ ended'[x].detailed
                        BY <4>2, <4>4, <5>1
                    <6>2. Context(t) =
                            [baseline |-> x, has |-> x # None /\ ended[x].detailed,
                             changed |-> x # None
                                         /\ Unrecorded \notin {ended[x].version, ended[t].version}
                                         /\ ended[x].version # ended[t].version,
                             unknown |-> x # None
                                         /\ Unrecorded \in {ended[x].version, ended[t].version}]
                        BY <4>1 DEF Context
                    <6>3. Context(t)' =
                            [baseline |-> x, has |-> x # None /\ ended'[x].detailed,
                             changed |-> x # None
                                         /\ Unrecorded \notin {ended'[x].version, ended'[t].version}
                                         /\ ended'[x].version # ended'[t].version,
                             unknown |-> x # None
                                         /\ Unrecorded \in {ended'[x].version, ended'[t].version}]
                        <7>1. x = IF ended'[t].detailed THEN Baseline(t)' ELSE None
                            BY <2>2, <3>3, <4>1 DEF Context
                        <7> QED BY <7>1 DEF Context
                    <6>4. x # None => ended'[x].version = ended[x].version
                        BY <5>1
                    <6>5. (x # None /\ ended'[x].detailed) = (x # None /\ ended[x].detailed)
                        BY <4>2, <6>1
                    <6> HIDE DEF x
                    <6> QED BY <2>2, <6>2, <6>3, <6>4, <6>5
                <5>4. Context(t).has => In(Context(t).baseline)' = In(Context(t).baseline)
                    <6>1. Context(t).has => In(x)' = In(x)
                        BY <4>2, <4>4, <5>1
                    <6>2. x' = x
                        BY <4>1
                    <6> QED BY <4>1, <5>2, <6>1, <6>2
                <5>5. Changes(t, standing)' = Changes(t, standing)
                    BY <2>2, <5>2, <5>4, SameChanges
                <5> QED BY <3>1, <3>2, <3>9, <5>5
            <4> QED BY <4>3, <4>4
        <3> QED BY <3>1, <3>7, <3>8, <3>9
    <2> QED BY <1>2, <1>3, <1>4, <2>3, <2>4 DEF SummaryInv
<1> QED BY <1>9, <1>10

(* The end of a run that failed changes nothing the summary counts.         *)
LEMMA FailKept ==
    ASSUME SummaryInv, NEW r \in Runs, Fail(r)
    PROVE  SummaryInv'
<1>1. PICK put \in CollectionRun :
         /\ put.status = "FAILED" /\ put.scope = ended[r].scope
         /\ put.version = ended[r].version /\ put.detailed = ended[r].detailed
         /\ ended' = [ended EXCEPT ![r] = put]
    <2> DEFINE put == [ended[r] EXCEPT !.status = "FAILED"]
    <2>1. ended \in [Runs -> CollectionRun]
        BY DEF SummaryInv, SummaryTyped
    <2>2. /\ put \in CollectionRun /\ put.status = "FAILED" /\ put.scope = ended[r].scope
          /\ put.version = ended[r].version /\ put.detailed = ended[r].detailed
        BY <2>1 DEF CollectionRun
    <2>3. ended' = [ended EXCEPT ![r] = put]
        BY <2>1 DEF Fail
    <2> QED BY <2>2, <2>3
<1>2. /\ ended \in [Runs -> CollectionRun] /\ ended[r].status = "RUNNING"
      /\ UNCHANGED <<observed, standing, summary, open, doomed>> /\ NewestIsDetailed
      /\ doomed \subseteq Runs \X Findings
    BY DEF SummaryInv, SummaryTyped, Fail
<1>3. /\ ended' \in [Runs -> CollectionRun] /\ ended'[r] = put
      /\ \A q \in Runs : q # r => ended'[q] = ended[q]
    BY <1>1, <1>2
<1>4. Successful' = Successful /\ r \notin Successful
    BY <1>1, <1>2, <1>3 DEF Successful
<1>5. NewestIsDetailed'
    BY <1>1, <1>2, <1>3, <1>4 DEF NewestIsDetailed
<1>6. \A q : In(q)' = In(q)
    BY <1>2 DEF In
<1>7. \A q \in Runs : /\ ended'[q].scope = ended[q].scope
                      /\ ended'[q].version = ended[q].version
                      /\ ended'[q].detailed = ended[q].detailed
    BY <1>1, <1>3
<1>8. /\ In(Latest)' = In(Latest) /\ (Latest # None => ended'[Latest] = ended[Latest])
      /\ Successful \subseteq Runs
    <2>1. Latest' = Latest
        BY <1>4 DEF Latest
    <2>2. Latest # None => Latest \in Successful /\ Latest \in Runs
        BY LatestIs DEF LatestFacts
    <2> QED BY <1>2, <1>3, <1>4, <2>1, <2>2 DEF In, Successful
<1> QED BY <1>2, <1>3, <1>4, <1>5, <1>6, <1>7, <1>8, RunsStand

(* The cleanup deletes no observation of the latest run or of its baseline. *)
LEMMA BatchKept ==
    ASSUME SummaryInv, (\E D \in SUBSET observed : SelectBatch(D)) \/ DeleteBatch
    PROVE  SummaryInv'
<1>1. /\ ended \in [Runs -> CollectionRun] /\ observed \subseteq Runs \X Findings
      /\ doomed \subseteq Runs \X Findings /\ NewestIsDetailed /\ Successful \subseteq Runs
    BY DEF SummaryInv, SummaryTyped, Successful
<1>2. LatestFacts /\ (Latest # None => Latest \in Successful /\ Latest \in Runs)
    BY LatestIs DEF LatestFacts
<1>b. \A r \in Runs : r \in Nat
    BY SummaryAssumption DEF Runs
<1>3. ASSUME NEW D \in SUBSET observed, SelectBatch(D) PROVE SummaryInv'
    <2>1. UNCHANGED <<ended, observed, standing, summary, open>> /\ doomed' = D
          /\ D \subseteq {o \in observed : ~Protected(o[1])}
        BY <1>3 DEF SelectBatch
    <2>2. Successful' = Successful /\ \A q : In(q)' = In(q)
        BY <2>1 DEF Successful, In
    <2>3. ASSUME NEW o \in D PROVE \E q \in Successful : q > o[1]
        <3>1. ~Protected(o[1])
            BY <2>1
        <3>2. {q \in Successful : q > o[1]} # {}
            BY <3>1, FS_EmptySet DEF Protected
        <3> QED BY <3>2
    <2>4. NewestIsDetailed' /\ doomed' \subseteq Runs \X Findings
        BY <1>1, <2>1, <2>2, <2>3 DEF NewestIsDetailed
    <2>5. In(Latest)' = In(Latest) /\ ended'[Latest] = ended[Latest]
        BY <2>1 DEF In, Latest, Successful
    <2> QED BY <1>1, <2>1, <2>2, <2>4, <2>5, RunsStand
<1>4. CASE DeleteBatch
    <2>1. /\ ended' = [r \in Runs |->
                 [ended[r] EXCEPT !.detailed = @ /\ \A o \in doomed : o[1] # r]]
          /\ observed' = observed \ doomed /\ doomed' = {}
          /\ UNCHANGED <<standing, summary, open>>
        BY <1>4 DEF DeleteBatch
    <2>2. ASSUME NEW r \in Runs
          PROVE  /\ ended'[r] \in CollectionRun
                 /\ ended'[r].status = ended[r].status
                 /\ ended'[r].scope = ended[r].scope /\ ended'[r].version = ended[r].version
                 /\ ended'[r].detailed <=> ended[r].detailed /\ \A o \in doomed : o[1] # r
                 /\ (\A o \in doomed : o[1] # r) => ended'[r] = ended[r]
        <3> DEFINE clean == \A o \in doomed : o[1] # r
        <3>1. ended[r] \in CollectionRun
            BY <1>1
        <3>2. ended'[r] = [ended[r] EXCEPT !.detailed = ended[r].detailed /\ clean]
            BY <2>1
        <3> HIDE DEF clean
        <3>3. (ended[r].detailed /\ clean) \in BOOLEAN
            OBVIOUS
        <3>4. /\ ended'[r] \in CollectionRun
              /\ ended'[r].status = ended[r].status
              /\ ended'[r].scope = ended[r].scope /\ ended'[r].version = ended[r].version
              /\ ended'[r].detailed = (ended[r].detailed /\ clean)
            BY <3>1, <3>2, <3>3 DEF CollectionRun
        <3>5. ASSUME clean PROVE ended'[r] = ended[r]
            <4>1. (ended[r].detailed /\ clean) = ended[r].detailed
                BY <3>1, <3>5 DEF CollectionRun
            <4> QED BY <3>1, <3>2, <4>1 DEF CollectionRun
        <3> QED BY <3>4, <3>5 DEF clean
    <2>3. ended' \in [Runs -> CollectionRun]
        BY <2>1, <2>2
    <2>4. Successful' = Successful
        BY <2>2 DEF Successful
    <2>5. NewestIsDetailed'
        <3>1. ASSUME NEW r \in Runs, ~ended'[r].detailed
              PROVE  \E q \in Successful : q > r
            BY <1>1, <2>2, <3>1 DEF NewestIsDetailed
        <3> QED BY <2>1, <2>4, <3>1 DEF NewestIsDetailed
    <2>6. ASSUME NEW q \in Runs, \A o \in doomed : o[1] # q PROVE In(q)' = In(q)
        BY <2>1, <2>6 DEF In
    <2>7. \A o \in doomed : o[1] # Latest
        <3> SUFFICES ASSUME NEW o \in doomed, o[1] = Latest PROVE FALSE
            OBVIOUS
        <3>1. PICK q \in Successful : q > o[1]
            BY <1>1 DEF NewestIsDetailed
        <3>2. q <= Latest /\ q \in Nat /\ Latest \in Nat
            BY <1>2 DEF LatestFacts
        <3> QED BY <3>1, <3>2
    <2>8. Latest' = Latest
        BY <2>4 DEF Latest
    <2>9. In(Latest)' = In(Latest) /\ (Latest # None => ended'[Latest] = ended[Latest])
        <3>1. Latest # None => ended'[Latest] = ended[Latest]
            BY <1>2, <2>2, <2>7
        <3>2. \A f : <<Latest, f>> \notin doomed
            BY <2>7
        <3> QED BY <2>1, <2>8, <3>1, <3>2 DEF In
    <2>10. /\ \A q \in Runs : /\ ended'[q].scope = ended[q].scope
                              /\ ended'[q].version = ended[q].version
           /\ \A q \in Successful :
                 \/ In(q)' = In(q) /\ ended'[q].detailed = ended[q].detailed
                 \/ ~ended'[q].detailed
           /\ \A q \in Successful : ~ended[q].detailed => ~ended'[q].detailed
        BY <1>1, <2>2, <2>6
    <2> QED BY <2>1, <2>3, <2>4, <2>5, <2>9, <2>10, RunsStand
<1> QED BY <1>3, <1>4

-----------------------------------------------------------------------------
(* Transactions. *)

(* What a transaction does before it commits changes only what it holds.    *)
LEMMA OpenChanges ==
    ASSUME SummaryInv, NEW w \in Writers, NEW put \in OpenRow,
           open' = [open EXCEPT ![w] = put],
           UNCHANGED <<ended, observed, standing, summary, doomed>>,
           \A f \in DOMAIN put.writes : f \in Findings /\ put.writes[f] \in Standing
                                        /\ put.writes[f].judged = standing[f].judged,
           put.holds => put.step = "counted" /\ summary.run # None
                        /\ \A v \in Writers : v # w => ~open[v].holds,
           put.step = "counted" => put.target \in Successful,
           put.step = "counted" =>
               put.metrics = Metrics(Latest, [f \in Findings |->
                   IF f \in DOMAIN put.writes THEN put.writes[f] ELSE standing[f]])
    PROVE  SummaryInv'
<1>2. /\ SummaryTyped /\ JudgedSince /\ OneHolds /\ CountedRight /\ NewestIsDetailed
      /\ RowIsRight /\ BaselineIsRun
    BY DEF SummaryInv
<1>3. /\ open' \in [Writers -> OpenRow] /\ open'[w] = put
      /\ \A v \in Writers : v # w => open'[v] = open[v]
    BY <1>2 DEF SummaryTyped
<1>4. Successful' = Successful /\ Latest' = Latest
    BY DEF Successful, Latest
<1>5. SummaryTyped' /\ BaselineIsRun' /\ NewestIsDetailed'
    BY <1>2, <1>3, <1>4 DEF SummaryTyped, BaselineIsRun, NewestIsDetailed
<1>6. JudgedSince'
    <2>1. ASSUME NEW v \in Writers, NEW f \in DOMAIN open'[v].writes
          PROVE  /\ f \in Findings /\ open'[v].writes[f] \in Standing
                 /\ open'[v].writes[f].judged = standing[f].judged
        BY <1>2, <1>3 DEF JudgedSince
    <2> QED BY <1>2, <1>4, <2>1 DEF JudgedSince
<1>7. OneHolds'
    BY <1>2, <1>3, <1>4 DEF OneHolds
<1>8. CountedRight'
    <2> SUFFICES ASSUME NEW v \in Writers, open'[v].step = "counted",
                        open'[v].holds \/ summary.run = None, open'[v].target = Latest
                 PROVE  open'[v].metrics = Metrics(Latest, RowsOf(v))'
        BY <1>4 DEF CountedRight
    <2>1. Metrics(Latest, RowsOf(v))' = Metrics(Latest, RowsOf(v)')
        BY <1>4 DEF Metrics, In
    <2>2. CASE v = w
        <3>1. RowsOf(w)' = [f \in Findings |->
                  IF f \in DOMAIN put.writes THEN put.writes[f] ELSE standing[f]]
            BY <1>3 DEF RowsOf
        <3> QED BY <1>3, <2>1, <2>2, <3>1
    <2>3. CASE v # w
        <3>1. RowsOf(v)' = RowsOf(v) /\ open'[v] = open[v]
            BY <1>3, <2>3 DEF RowsOf
        <3> QED BY <1>2, <2>1, <3>1 DEF CountedRight
    <2> QED BY <2>2, <2>3
<1>9. RowIsRight'
    <2>1. Metrics(Latest, standing)' = Metrics(Latest, standing)
        BY <1>4 DEF Metrics, In
    <2>2. \A t : Baseline(t)' = Baseline(t)
        BY <1>4 DEF Baseline, SameScope
    <2>3. \A t : Context(t)' = Context(t)
        BY <2>2 DEF Context
    <2>4. \A t, b : NewIn(b, t)' = NewIn(b, t) /\ NoLongerIn(b, t)' = NoLongerIn(b, t)
        BY DEF NewIn, NoLongerIn, In
    <2>5. Changes(Latest, standing)' = Changes(Latest, standing)
        BY <1>4, <2>3, <2>4 DEF Changes, Operational
    <2> QED BY <1>2, <1>4, <2>1, <2>2, <2>5 DEF RowIsRight
<1> QED BY <1>5, <1>6, <1>7, <1>8, <1>9 DEF SummaryInv

(* A decision leaves a standing, and whom it was judged by.                 *)
LEMMA MovesTyped ==
    ASSUME NEW o \in Standing, NEW m \in Moves(o)
    PROVE  m \in Standing /\ m.judged = o.judged
<1>1. o.archived \in BOOLEAN /\ (o.archived /\ o.status # "rejected") \in BOOLEAN
    BY DEF Standing
<1> QED BY <1>1 DEF Moves, Standing

(* A decision is not seen before it commits.                                *)
LEMMA DecideKept ==
    ASSUME SummaryInv, NEW w \in Writers, NEW F \in SUBSET Findings, Decide(w, F)
    PROVE  SummaryInv'
<1>1. /\ standing \in [Findings -> Standing] /\ open \in [Writers -> OpenRow] /\ OneHolds
    BY DEF SummaryInv, SummaryTyped
<1>2. PICK writes \in [F -> UNION {Moves(standing[f]) : f \in F}] :
         /\ \A f \in F : writes[f] \in Moves(standing[f])
         /\ open' = [open EXCEPT ![w].step = "decided", ![w].writes = writes]
    BY DEF Decide
<1>3. /\ open[w].step = "idle" /\ UNCHANGED <<ended, observed, standing, summary, doomed>>
    BY DEF Decide
<1>4. \A f \in F : /\ f \in Findings /\ writes[f] \in Standing
                   /\ writes[f].judged = standing[f].judged
    BY <1>1, <1>2, MovesTyped
<1>5. writes \in [F -> Standing]
    BY <1>2, <1>4
<1>6. writes \in Writes /\ DOMAIN writes = F
    BY <1>5 DEF Writes
<1> DEFINE put == [open[w] EXCEPT !.step = "decided", !.writes = writes]
<1>7. open' = [open EXCEPT ![w] = put]
    BY <1>1, <1>2
<1>8. /\ put \in OpenRow /\ put.step = "decided" /\ put.writes = writes
      /\ put.holds = open[w].holds
    BY <1>1, <1>6 DEF OpenRow
<1>9. ~open[w].holds
    BY <1>1, <1>3 DEF OneHolds
<1> HIDE DEF put
<1> QED BY <1>3, <1>4, <1>6, <1>7, <1>8, <1>9, OpenChanges

(* Who holds the row counts what it is going to commit.                     *)
LEMMA LockKept ==
    ASSUME SummaryInv, NEW w \in Writers, Lock(w)
    PROVE  SummaryInv'
<1>1. /\ standing \in [Findings -> Standing] /\ open \in [Writers -> OpenRow] /\ OneHolds
      /\ JudgedSince
    BY DEF SummaryInv, SummaryTyped
<1>2. /\ MutexFree /\ Latest # None /\ UNCHANGED <<ended, observed, standing, summary, doomed>>
      /\ open' = [open EXCEPT ![w].step = "counted", ![w].target = Latest,
                              ![w].holds = (summary.run # None),
                              ![w].metrics = Metrics(Latest, RowsOf(w))]
    BY DEF Lock
<1>3. /\ Latest \in Successful /\ Latest \in Runs
    BY <1>2, LatestIs DEF LatestFacts
<1>4. Metrics(Latest, RowsOf(w)) \in [Outcomes -> Sizes]
    BY CountTyped DEF SummaryInv
<1> DEFINE m == Metrics(Latest, RowsOf(w))
           put == [open[w] EXCEPT !.step = "counted", !.target = Latest,
                                  !.holds = (summary.run # None), !.metrics = m]
<1>5. open' = [open EXCEPT ![w] = put]
    BY <1>1, <1>2
<1>6. m = Metrics(Latest, [f \in Findings |->
              IF f \in DOMAIN open[w].writes THEN open[w].writes[f] ELSE standing[f]])
    BY DEF RowsOf
<1>7. /\ put \in OpenRow /\ put.step = "counted" /\ put.writes = open[w].writes
      /\ put.target = Latest /\ put.holds = (summary.run # None) /\ put.metrics = m
    <2> HIDE DEF m
    <2> QED BY <1>1, <1>3, <1>4 DEF OpenRow, m
<1>8. \A v \in Writers : ~open[v].holds
    BY <1>2 DEF MutexFree
<1>9. \A f \in DOMAIN open[w].writes :
         /\ f \in Findings /\ open[w].writes[f] \in Standing
         /\ open[w].writes[f].judged = standing[f].judged
    BY <1>1 DEF JudgedSince
<1> HIDE DEF put, m
<1>10. put.metrics = Metrics(Latest, [f \in Findings |->
               IF f \in DOMAIN put.writes THEN put.writes[f] ELSE standing[f]])
    BY <1>6, <1>7
<1>11. put.holds => summary.run # None
    BY <1>7
<1>12. \A f \in DOMAIN put.writes :
          /\ f \in Findings /\ put.writes[f] \in Standing
          /\ put.writes[f].judged = standing[f].judged
    BY <1>7, <1>9
<1> QED BY <1>2, <1>3, <1>5, <1>7, <1>8, <1>10, <1>11, <1>12, OpenChanges

(* Nothing remains of a transaction.                                        *)
LEMMA EndKept ==
    ASSUME SummaryInv, NEW w \in Writers, open' = [open EXCEPT ![w] = Idle],
           UNCHANGED <<ended, observed, standing, summary, doomed>>
    PROVE  SummaryInv'
<1>1. Idle \in OpenRow /\ Idle.step = "idle" /\ ~Idle.holds /\ Idle.writes = <<>>
    <2>1. NoSummary.metrics \in [Outcomes -> Sizes]
        <3>1. 0 \in Sizes
            BY FS_EmptySet DEF Sizes
        <3> QED BY <3>1 DEF NoSummary, Outcomes
    <2> QED BY <2>1 DEF Idle, OpenRow, Writes, None
<1>2. DOMAIN <<>> = {}
    OBVIOUS
<1> QED BY <1>1, <1>2, OpenChanges

(* The counts become the row with the rows they count.                      *)
LEMMA RefreshKept ==
    ASSUME SummaryInv, NEW w \in Writers, Refresh(w)
    PROVE  SummaryInv'
<1>1. /\ SummaryTyped /\ JudgedSince /\ OneHolds /\ CountedRight /\ NewestIsDetailed
    BY DEF SummaryInv
<1>2. /\ open[w].step = "counted" /\ open' = [open EXCEPT ![w] = Idle]
      /\ UNCHANGED <<ended, observed, doomed>>
    BY DEF Refresh
<1>3. CASE ~(open[w].holds \/ summary.run = None)
    BY <1>2, <1>3, EndKept DEF Refresh
<1>4. CASE open[w].holds \/ summary.run = None
    <2>1. PICK t \in Runs : t = open[w].target /\ t \in Successful /\ t # None
        <3>1. open[w].target \in Successful
            BY <1>1, <1>2 DEF OneHolds
        <3>2. /\ open[w].target \in Runs /\ open[w].target \in Nat
              /\ open[w].target > 0
            BY <3>1, LatestIs DEF LatestFacts
        <3>3. open[w].target # None
            BY <3>2 DEF None
        <3> QED BY <3>1, <3>2, <3>3
    <2>2. /\ summary' = [run |-> t, metrics |-> open[w].metrics, changes |-> Changes(t, RowsOf(w))]
          /\ standing' = RowsOf(w)
        BY <1>4, <2>1 DEF Refresh
    <2>3. Successful' = Successful /\ Latest' = Latest
        BY <1>2 DEF Successful, Latest
    <2>4. /\ standing' \in [Findings -> Standing]
          /\ \A f \in Findings : standing'[f].judged = standing[f].judged
        BY <1>1, <2>2 DEF RowsOf, JudgedSince, SummaryTyped
    <2>5. /\ open' \in [Writers -> OpenRow] /\ open'[w].writes = <<>>
          /\ open'[w].step = "idle" /\ ~open'[w].holds
          /\ \A v \in Writers : v # w => open'[v] = open[v]
        <3>1. NoSummary.metrics \in [Outcomes -> Sizes]
            <4>1. 0 \in Sizes
                BY FS_EmptySet DEF Sizes
            <4> QED BY <4>1 DEF NoSummary, Outcomes
        <3>2. Idle \in OpenRow /\ Idle.step = "idle" /\ ~Idle.holds /\ Idle.writes = <<>>
            BY <3>1 DEF Idle, OpenRow, Writes, None
        <3> QED BY <1>1, <1>2, <3>2 DEF SummaryTyped
    <2>6. summary'.run = t
        BY <2>2
    <2>7. SummaryTyped'
        BY <1>1, <1>2, <2>1, <2>3, <2>4, <2>5, <2>6 DEF SummaryTyped
    <2>8. JudgedSince'
        <3>1. \A r \in Runs, f \in Findings :
                 <<r, f>> \in observed => r \in Successful /\ standing'[f].judged >= r
            BY <1>1, <2>4 DEF JudgedSince
        <3>2. ASSUME NEW v \in Writers, NEW f \in DOMAIN open'[v].writes
              PROVE  /\ f \in Findings /\ open'[v].writes[f] \in Standing
                     /\ open'[v].writes[f].judged = standing'[f].judged
            <4>1. v # w
                <5>1. DOMAIN <<>> = {}
                    OBVIOUS
                <5> QED BY <2>5, <3>2, <5>1
            <4> QED BY <1>1, <2>4, <2>5, <4>1 DEF JudgedSince
        <3> QED BY <1>2, <2>3, <3>1, <3>2 DEF JudgedSince
    <2>9. \A v \in Writers : ~open'[v].holds
        BY <1>1, <1>4, <2>5 DEF OneHolds
    <2>10. OneHolds'
        BY <1>1, <2>3, <2>5, <2>9 DEF OneHolds
    <2>11. CountedRight'
        BY <2>1, <2>6, <2>9 DEF CountedRight
    <2>12. NewestIsDetailed'
        BY <1>1, <1>2, <2>3 DEF NewestIsDetailed
    <2>13. Changes(t, RowsOf(w)) = Changes(t, standing)'
        <3>1. \A q : Baseline(q)' = Baseline(q)
            BY <1>2, <2>3 DEF Baseline, SameScope
        <3>2. Context(t)' = Context(t)
            BY <1>2, <3>1 DEF Context
        <3>3. \A b : NewIn(b, t)' = NewIn(b, t) /\ NoLongerIn(b, t)' = NoLongerIn(b, t)
            BY <1>2 DEF NewIn, NoLongerIn, In
        <3> QED BY <2>2, <3>2, <3>3 DEF Changes, Operational
    <2>14. RowIsRight'
        <3> SUFFICES ASSUME t = Latest
                     PROVE  /\ summary'.metrics = Metrics(t, standing)'
                            /\ summary'.changes = Changes(t, standing)'
            BY <2>3, <2>6 DEF RowIsRight
        <3>1. open[w].metrics = Metrics(t, RowsOf(w))
            BY <1>1, <1>2, <1>4, <2>1 DEF CountedRight
        <3>2. Metrics(t, RowsOf(w)) = Metrics(t, standing)'
            BY <1>2, <2>2 DEF Metrics, In
        <3> QED BY <2>2, <2>13, <3>1, <3>2
    <2>15. BaselineIsRun'
        <3>1. Baseline(t) \in Successful \cup {None}
            BY BaselineIs DEF BaselineFacts
        <3>2. /\ Context(t).baseline \in {Baseline(t), None}
              /\ Context(t).has => Context(t).baseline # None
            BY DEF Context
        <3>3. /\ Changes(t, RowsOf(w)).baseline = Context(t).baseline
              /\ Changes(t, RowsOf(w)).has = Context(t).has
            BY DEF Changes, NoChanges
        <3>4. summary'.changes = Changes(t, RowsOf(w))
            BY <2>2
        <3> QED BY <2>3, <3>1, <3>2, <3>3, <3>4 DEF BaselineIsRun
    <2> QED BY <2>7, <2>8, <2>10, <2>11, <2>12, <2>14, <2>15 DEF SummaryInv
<1> QED BY <1>3, <1>4

(* No step of a collection, a decision, a refresh or the cleanup breaks it. *)
LEMMA SummaryHolds == SummarySpec => []SummaryInv
<1>1. ASSUME SummaryInv, SummaryNext PROVE SummaryInv'
    <2>1. observed \subseteq Runs \X Findings
        BY <1>1 DEF SummaryInv, SummaryTyped
    <2>2. ASSUME NEW w \in Writers, RollBack(w) PROVE SummaryInv'
        BY <1>1, <2>2, EndKept DEF RollBack
    <2> QED BY <1>1, <2>2, PersistKept, FailKept, BatchKept, DecideKept, LockKept, RefreshKept
            DEF SummaryNext
<1>2. ASSUME SummaryInv, UNCHANGED summaryVars PROVE SummaryInv'
    <2>1. UNCHANGED <<ended, observed, standing, summary, open, doomed>>
        BY <1>2 DEF summaryVars
    <2>2. /\ ended \in [Runs -> CollectionRun] /\ doomed \subseteq Runs \X Findings
          /\ NewestIsDetailed
        BY <1>2 DEF SummaryInv, SummaryTyped
    <2>3. Successful' = Successful /\ Latest' = Latest
        BY <2>1 DEF Successful, Latest
    <2>4. \A q : In(q)' = In(q)
        BY <2>1 DEF In
    <2>5. In(Latest)' = In(Latest)
        BY <2>1, <2>3 DEF In
    <2>6. NewestIsDetailed'
        BY <2>1, <2>2, <2>3 DEF NewestIsDetailed
    <2> QED BY <1>2, <2>1, <2>2, <2>3, <2>4, <2>5, <2>6, RunsStand
<1> QED BY <1>1, <1>2, SummaryBegins, PTL DEF SummarySpec

(* What the dashboard shows of an account are the counts of its findings,   *)
(* and its comparison is with the latest comparable run but for a run       *)
(* committed late or a baseline that expired, for any number of findings,   *)
(* runs and transactions (refresh_account_summary_after_lifecycle,          *)
(* rebuild_account_summary, dashboard_summary).                             *)
THEOREM DashboardTrue == SummarySpec => []DashboardIsTrue
<1>1. SummaryInv => DashboardIsTrue
    BY DEF SummaryInv, RowIsRight, DashboardIsTrue, Shown, Counted
<1> QED BY <1>1, SummaryHolds, PTL

=============================================================================
