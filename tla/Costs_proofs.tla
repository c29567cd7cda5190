----------------------------- MODULE Costs_proofs -----------------------------
(***************************************************************************)
(* Proofs about prices, billing and the calls of CloudWatch. Whatever      *)
(* administrators do at once, at no instant two versions of a price are in *)
(* effect, and none is lost but by a deactivation; there is one default    *)
(* profile, a query answers what it asked, of every account, and queries   *)
(* of one question tell one sum whatever calls they rest on; a call that   *)
(* is stored is told to be of the run that made it, and is priced once, at *)
(* the price of its position. All for any prices, requests, profiles,      *)
(* accounts, costs, threads, tariffs and instants.                         *)
(***************************************************************************)
EXTENDS PriceCatalog, Billing, CloudWatchUsage, Sums

-----------------------------------------------------------------------------
(* Prices: the inductive invariant. *)

VersionRow == [sku : Skus, from : Instants, until : 1..Never, enabled : BOOLEAN]
WriteRow == [kind : {"none", "create", "reprice", "describe", "deactivate"},
             from : Instants, until : 1..Never, enabled : BOOLEAN]
EditRow == [step : {"idle", "asked", "locked", "ready"}, id : Nat, sku : Skus, write : WriteRow]
EventRow == [kind : {"none", "create", "reprice", "describe", "deactivate"},
             enabled : BOOLEAN, id : Nat]

PriceRowsOK ==
    /\ price \in Seq(VersionRow) /\ audit \in Seq(EventRow) /\ edit \in [Editors -> EditRow]

AtIdentity(a) == edit[a].step \in {"locked", "ready"}

(* The identity of a price is held by one request at a time.               *)
OneHolder ==
    \A a, b \in Editors :
        AtIdentity(a) /\ AtIdentity(b) /\ edit[a].sku = edit[b].sku => a = b

(* A request about a row is about a row of its price.                      *)
NamesItsRow ==
    \A a \in Editors :
        edit[a].id # 0 => edit[a].id \in Ids /\ price[edit[a].id].sku = edit[a].sku

(* What was looked at under the lock still holds when it is written.       *)
StillDecided ==
    \A a \in Editors :
        edit[a].step = "ready" =>
            \/ Creates(a, edit[a].write) \/ Reprices(a, edit[a].write)
            \/ Describes(a, edit[a].write) \/ Deactivates(a, edit[a].write)

Before(i, j) == price[i].until <= price[j].from

(* Enabled versions of a price are in effect one after the other.          *)
InTurn ==
    /\ \A i \in Ids : price[i].from < price[i].until
    /\ \A i, j \in Ids :
          i # j /\ price[i].sku = price[j].sku /\ price[i].enabled /\ price[j].enabled =>
              Before(i, j) \/ Before(j, i)

(* A version the trail says is deactivated is, for good.                   *)
ToldDisabled ==
    \A n \in DOMAIN audit :
        audit[n].kind = "deactivate" => audit[n].id \in Ids /\ ~price[audit[n].id].enabled

(* Every instant has a price, or lost it to a deactivation.                *)
AllPriced ==
    \A s \in Skus, t \in Instants :
        (\E i \in Ids : price[i].sku = s /\ InEffect(i, t)) \/ Withdrawn(s, t)

PriceInv ==
    /\ PriceRowsOK /\ OneHolder /\ NamesItsRow /\ StillDecided
    /\ InTurn /\ ToldDisabled /\ AllPriced

-----------------------------------------------------------------------------
(* The first state. *)

(* As many places as prices, each of another: all of them are there.       *)
LEMMA EverySku ==
    ASSUME NEW s \in [1..Cardinality(Skus) -> Skus],
           \A i, j \in DOMAIN s : s[i] = s[j] => i = j
    PROVE  \A k \in Skus : \E i \in 1..Cardinality(Skus) : s[i] = k
<1>1. IsFiniteSet(Skus) /\ Cardinality(Skus) \in Nat
  BY PriceAssumption, FS_CardinalityType
<1>2. Cardinality(1..Cardinality(Skus)) = Cardinality(Skus)
  BY <1>1, FS_Interval
<1>3. s \in Injection(1..Cardinality(Skus), Skus)
  BY DEF Injection, IsInjective
<1>4. s \in Surjection(1..Cardinality(Skus), Skus)
  BY <1>1, <1>2, <1>3, FS_Injection
<1>5. QED
  BY <1>4 DEF Surjection

LEMMA PricesBegin == PriceInit => PriceInv
<1> SUFFICES ASSUME PriceInit PROVE PriceInv
  OBVIOUS
<1>0. MaxDay \in Nat /\ 0 \in Instants /\ Never \in 1..Never /\ Instants \subseteq Nat
      /\ Cardinality(Skus) \in Nat
  BY PriceAssumption, FS_CardinalityType DEF Instants, Never
<1>1. PICK s \in [1..Cardinality(Skus) -> Skus] :
         /\ \A i, j \in DOMAIN s : s[i] = s[j] => i = j
         /\ price = [i \in DOMAIN s |-> Version(s[i], 0, Never, TRUE)]
  BY DEF PriceInit
<1>2. /\ Ids = 1..Cardinality(Skus)
      /\ \A i \in Ids : /\ price[i].sku = s[i] /\ price[i].from = 0
                        /\ price[i].until = Never /\ price[i].enabled
  <2>1. Ids = 1..Cardinality(Skus)
    BY <1>1 DEF Ids
  <2>2. ASSUME NEW i \in Ids
        PROVE  /\ price[i].sku = s[i] /\ price[i].from = 0
               /\ price[i].until = Never /\ price[i].enabled
    <3>1. price[i] = [sku |-> s[i], from |-> 0, until |-> Never, enabled |-> TRUE]
      BY <1>1, <2>1 DEF Version
    <3>2. QED
      BY <3>1
  <2>3. QED
    BY <2>1, <2>2
<1>3. price \in Seq(VersionRow)
  <2>1. price \in [1..Cardinality(Skus) -> VersionRow]
    BY <1>0, <1>1 DEF Version, VersionRow
  <2>2. QED
    BY <1>0, <2>1
<1>4. audit = <<>> /\ audit \in Seq(EventRow) /\ DOMAIN audit = {}
  BY DEF PriceInit
<1>5. edit \in [Editors -> EditRow] /\ \A a \in Editors : edit[a].step = "idle" /\ edit[a].id = 0
  <2>1. (CHOOSE k \in Skus : TRUE) \in Skus
    BY PriceAssumption
  <2>2. NoEdit(CHOOSE k \in Skus : TRUE) \in EditRow
    BY <1>0, <2>1 DEF NoEdit, NoWrite, EditRow, WriteRow
  <2>3. QED
    BY <2>2 DEF PriceInit, NoEdit
<1>6. PriceRowsOK
  BY <1>3, <1>4, <1>5 DEF PriceRowsOK
<1>7. OneHolder /\ NamesItsRow /\ StillDecided /\ ToldDisabled
  BY <1>4, <1>5 DEF OneHolder, AtIdentity, NamesItsRow, StillDecided, ToldDisabled
<1>8. InTurn
  <2>1. \A i, j \in Ids : price[i].sku = price[j].sku => i = j
    <3>1. DOMAIN s = Ids
      BY <1>2
    <3>2. \A i, j \in Ids : s[i] = s[j] => i = j
      BY <1>1, <3>1
    <3>3. \A i \in Ids : price[i].sku = s[i]
      BY <1>2
    <3>4. QED
      BY <3>2, <3>3
  <2>2. \A i \in Ids : price[i].from < price[i].until
    BY <1>0, <1>2 DEF Never
  <2>3. QED
    BY <2>1, <2>2 DEF InTurn
<1>9. AllPriced
  <2>1. SUFFICES ASSUME NEW k \in Skus, NEW t \in Instants
                 PROVE  \E i \in Ids : price[i].sku = k /\ InEffect(i, t)
    BY DEF AllPriced
  <2>2. PICK i \in Ids : s[i] = k
    BY <1>1, <1>2, EverySku
  <2>3. t \in Nat /\ 0 <= t /\ t < Never
    BY <1>0 DEF Instants, Never
  <2>4. QED
    BY <1>2, <2>2, <2>3 DEF InEffect
<1>10. QED
  BY <1>6, <1>7, <1>8, <1>9 DEF PriceInv

-----------------------------------------------------------------------------
(* Steps that change no price. *)

(* A request that goes a step further, and what it found under the lock is *)
(* of the rows as they are.                                                *)
LEMMA RequestsKept ==
    ASSUME PriceInv, price' = price, audit' = audit,
           NEW a \in Editors, NEW e \in EditRow, edit' = [edit EXCEPT ![a] = e],
           e.id # 0 => e.id \in Ids /\ price[e.id].sku = e.sku,
           e.step \in {"locked", "ready"} =>
               e.sku = edit[a].sku
               /\ (AtIdentity(a) \/ \A b \in Editors \ {a} : ~Holds(b, e.sku)),
           e.step = "ready" =>
               /\ e.id = edit[a].id
               /\ \/ Creates(a, e.write) \/ Reprices(a, e.write)
                  \/ Describes(a, e.write) \/ Deactivates(a, e.write)
    PROVE  PriceInv'
<1>1. \A b \in Editors : edit'[b] = IF b = a THEN e ELSE edit[b]
  BY DEF PriceInv, PriceRowsOK
<1>2. PriceRowsOK'
  BY <1>1 DEF PriceInv, PriceRowsOK, Ids
<1>3. OneHolder'
  BY <1>1 DEF PriceInv, OneHolder, AtIdentity, Holds
<1>4. NamesItsRow'
  BY <1>1 DEF PriceInv, NamesItsRow, Ids
<1>5. StillDecided'
  <2>1. SUFFICES ASSUME NEW b \in Editors, edit'[b].step = "ready",
                        NEW w, w = edit'[b].write
                 PROVE  (Creates(b, w) \/ Reprices(b, w) \/ Describes(b, w) \/ Deactivates(b, w))'
    BY DEF StillDecided
  <2>2. edit'[b].id = edit[b].id /\ edit'[b].sku = edit[b].sku
    <3>1. e.step = "ready" => e.sku = edit[a].sku /\ e.id = edit[a].id
      OBVIOUS
    <3>2. QED
      BY <1>1, <2>1, <3>1
  <2>3. Creates(b, w) \/ Reprices(b, w) \/ Describes(b, w) \/ Deactivates(b, w)
    BY <1>1, <2>1 DEF PriceInv, StillDecided
  <2>4. CASE Creates(b, w)
    BY <2>2, <2>4 DEF Creates, Overlapping, Taken, Ids
  <2>5. CASE Reprices(b, w)
    BY <2>2, <2>5 DEF Reprices, Overlapping, Taken, Ids
  <2>6. CASE Describes(b, w) \/ Deactivates(b, w)
    BY <2>2, <2>6 DEF Describes, Deactivates
  <2>7. QED
    BY <2>3, <2>4, <2>5, <2>6
<1>6. (InTurn /\ ToldDisabled /\ AllPriced)'
  BY DEF PriceInv, InTurn, Before, ToldDisabled, AllPriced, Ids, InEffect, Withdrawn
<1>7. QED
  BY <1>2, <1>3, <1>4, <1>5, <1>6 DEF PriceInv

-----------------------------------------------------------------------------
(* The step that changes prices. *)

(* Rows are added after the others, of the price that was asked about; of  *)
(* the others only one that is enabled, of that price, may change.         *)
LEMMA RowsWritten ==
    ASSUME PriceInv, NEW a \in Editors, CommitEdit(a)
    PROVE  /\ price' \in Seq(VersionRow)
           /\ Ids \subseteq Ids'
           /\ \A i \in Ids : /\ price'[i].sku = price[i].sku /\ price'[i].from = price[i].from
                             /\ price'[i].enabled => price[i].enabled
                             /\ price[i].sku # edit[a].sku => price'[i] = price[i]
                             /\ ~price[i].enabled => price'[i] = price[i]
           /\ \A i \in Ids' \ Ids : price'[i].sku = edit[a].sku
<1> DEFINE w == edit[a].write
<1> DEFINE i == edit[a].id
<1>0. /\ edit[a] \in EditRow /\ price \in Seq(VersionRow) /\ edit[a].step = "ready"
      /\ price' = PricesWritten(a)
      /\ Creates(a, w) \/ Reprices(a, w) \/ Describes(a, w) \/ Deactivates(a, w)
      /\ i # 0 => i \in Ids /\ price[i].sku = edit[a].sku
  BY DEF PriceInv, PriceRowsOK, CommitEdit, StillDecided, NamesItsRow
<1>1. Version(edit[a].sku, w.from, w.until, w.enabled) \in VersionRow
  BY <1>0 DEF Version, VersionRow, EditRow, WriteRow
<1>2. /\ WithVersion(w, a) \in Seq(VersionRow)
      /\ Len(WithVersion(w, a)) = Len(price) + 1 /\ Len(price) \in Nat
      /\ \A j \in Ids : WithVersion(w, a)[j] = price[j]
      /\ WithVersion(w, a)[Len(price) + 1] = Version(edit[a].sku, w.from, w.until, w.enabled)
      /\ WithVersion(w, a)[Len(price) + 1].sku = edit[a].sku
  BY <1>0, <1>1 DEF WithVersion, Ids, Version
<1>3. Ids = 1..Len(price)
  BY <1>0 DEF Ids
<1>4. CASE Creates(a, w)
  <2>1. price' = WithVersion(w, a)
    BY <1>0, <1>4 DEF Creates, PricesWritten
  <2>2. Ids' = 1..(Len(price) + 1)
    BY <1>2, <2>1 DEF Ids
  <2>3. QED
    BY <1>2, <1>3, <2>1, <2>2
<1>5. CASE Reprices(a, w)
  <2>1. price' = [WithVersion(w, a) EXCEPT ![i].until = w.from]
    BY <1>0, <1>5 DEF Reprices, PricesWritten
  <2>2. i \in Ids /\ price[i].enabled /\ price[i].sku = edit[a].sku
    BY <1>0, <1>5 DEF Reprices
  <2>3. w.from \in 1..Never /\ price[i] \in VersionRow
    <3>1. price[i] \in VersionRow /\ w \in WriteRow
      BY <1>0, <1>3, <2>2 DEF EditRow
    <3>2. price[i].from \in Nat /\ w.from \in Nat /\ w.from <= MaxDay
      BY <3>1, PriceAssumption DEF VersionRow, WriteRow, Instants
    <3>3. price[i].from < w.from
      BY <1>5 DEF Reprices
    <3>4. QED
      BY <3>1, <3>2, <3>3, PriceAssumption DEF Never
  <2>4. WithVersion(w, a)[i] = price[i] /\ [price[i] EXCEPT !.until = w.from] \in VersionRow
    BY <1>2, <2>2, <2>3 DEF VersionRow
  <2>5. /\ price' \in Seq(VersionRow) /\ Ids' = 1..(Len(price) + 1)
        /\ price'[i] = [price[i] EXCEPT !.until = w.from]
        /\ \A j \in 1..(Len(price) + 1) \ {i} : price'[j] = WithVersion(w, a)[j]
    BY <1>2, <1>3, <2>1, <2>2, <2>4 DEF Ids
  <2>7. /\ price'[i].sku = price[i].sku /\ price'[i].from = price[i].from
        /\ price'[i].enabled = price[i].enabled
    BY <2>3, <2>5 DEF VersionRow
  <2>8. \A j \in Ids \ {i} : price'[j] = price[j]
    BY <1>2, <1>3, <2>5
  <2>9. \A j \in Ids' \ Ids : price'[j].sku = edit[a].sku
    BY <1>2, <1>3, <2>2, <2>5
  <2>10. Ids \subseteq Ids'
    BY <1>2, <1>3, <2>5
  <2>11. ASSUME NEW j \in Ids
         PROVE  /\ price'[j].sku = price[j].sku /\ price'[j].from = price[j].from
                /\ price'[j].enabled => price[j].enabled
                /\ price[j].sku # edit[a].sku => price'[j] = price[j]
                /\ ~price[j].enabled => price'[j] = price[j]
    <3>1. CASE j = i
      BY <2>2, <2>7, <3>1
    <3>2. CASE j # i
      BY <2>8, <3>2
    <3>3. QED
      BY <3>1, <3>2
  <2>12. QED
    BY <2>5, <2>9, <2>10, <2>11
<1>6. CASE Describes(a, w)
  <2>1. price' = price
    BY <1>0, <1>6 DEF Describes, NoWrite, PricesWritten
  <2>2. QED
    BY <1>0, <2>1 DEF Ids
<1>7. CASE Deactivates(a, w)
  <2>1. price' = [price EXCEPT ![i].enabled = FALSE]
    BY <1>0, <1>7 DEF Deactivates, NoWrite, PricesWritten
  <2>2. i \in Ids /\ price[i].sku = edit[a].sku
    BY <1>0, <1>7 DEF Deactivates
  <2>3. price[i] \in VersionRow
    BY <1>0, <1>3, <2>2
  <2>4. [price[i] EXCEPT !.enabled = FALSE] \in VersionRow
    BY <2>3 DEF VersionRow
  <2>5. /\ price' \in Seq(VersionRow) /\ Ids' = Ids
        /\ price'[i] = [price[i] EXCEPT !.enabled = FALSE]
        /\ \A j \in Ids \ {i} : price'[j] = price[j]
    <3>1. DOMAIN price = 1..Len(price) /\ price \in [1..Len(price) -> VersionRow]
      BY <1>0
    <3>2. price' \in [1..Len(price) -> VersionRow] /\ DOMAIN price' = 1..Len(price)
      BY <1>3, <2>1, <2>2, <2>4, <3>1
    <3>3. price' \in Seq(VersionRow)
      BY <1>2, <3>2
    <3>4. QED
      BY <1>3, <2>1, <2>2, <3>1, <3>2, <3>3 DEF Ids
  <2>6. /\ price'[i].sku = price[i].sku /\ price'[i].from = price[i].from
        /\ price'[i].enabled = FALSE
    BY <2>2, <2>5, <2>3 DEF VersionRow
  <2>7. ~price[i].enabled => price'[i] = price[i]
    BY <2>2, <2>5, <2>3 DEF VersionRow
  <2>8. QED
    BY <2>2, <2>5, <2>6, <2>7
<1>8. QED
  BY <1>0, <1>4, <1>5, <1>6, <1>7

LEMMA AppendIsLonger == ASSUME NEW S, NEW q \in Seq(S), NEW e \in S PROVE Append(q, e) # q
<1>1. Len(Append(q, e)) = Len(q) + 1
  OBVIOUS
<1>2. PICK k \in Nat : k = Len(q)
  OBVIOUS
<1>3. QED
  BY <1>1, <1>2

(* An event is added at the end of the trail, or none.                     *)
LEMMA EventsWritten ==
    ASSUME PriceInv, NEW a \in Editors, CommitEdit(a)
    PROVE  /\ audit' \in Seq(EventRow)
           /\ DOMAIN audit \subseteq DOMAIN audit'
           /\ \A n \in DOMAIN audit : audit'[n] = audit[n]
           /\ price' # price =>
                 DOMAIN audit' = DOMAIN audit \cup {Len(audit) + 1}
                 /\ audit'[Len(audit) + 1] = Event(a)
           /\ \A n \in DOMAIN audit' \ DOMAIN audit : audit'[n] = Event(a)
<1>1. audit \in Seq(EventRow) /\ DOMAIN audit = 1..Len(audit) /\ Len(audit) \in Nat
  BY DEF PriceInv, PriceRowsOK
<1>2. Event(a) \in EventRow
  <2>1. edit[a] \in EditRow /\ edit[a].write \in WriteRow /\ edit[a].id \in Nat
    BY DEF PriceInv, PriceRowsOK, EditRow
  <2>2. Len(price) + 1 \in Nat
    BY DEF PriceInv, PriceRowsOK
  <2>4. PICK id \in Nat : Event(a) = [kind |-> edit[a].write.kind,
                                     enabled |-> edit[a].write.enabled, id |-> id]
    <3>1. CASE edit[a].write.kind \in {"create", "reprice"}
      BY <2>2, <3>1 DEF Event
    <3>2. CASE edit[a].write.kind \notin {"create", "reprice"}
      BY <2>1, <3>2 DEF Event
    <3>3. QED
      BY <3>1, <3>2
  <2>5. \A w \in WriteRow : [kind |-> w.kind, enabled |-> w.enabled, id |-> id] \in EventRow
    BY DEF WriteRow, EventRow
  <2>6. QED
    BY <2>1, <2>4, <2>5
<1>3. CASE audit' = audit
  <2>1. audit' # Append(audit, Event(a))
    BY <1>1, <1>2, <1>3, AppendIsLonger
  <2>2. price' = price
    BY <1>3, <2>1 DEF CommitEdit
  <2>3. QED
    BY <1>1, <1>3, <2>2
<1>4. CASE audit' = Append(audit, Event(a))
  BY <1>1, <1>2, <1>4
<1>5. QED
  BY <1>3, <1>4 DEF CommitEdit

(* The request is over, the others are where they were.                    *)
LEMMA OthersWait ==
    ASSUME PriceInv, NEW a \in Editors, CommitEdit(a)
    PROVE  /\ edit' \in [Editors -> EditRow]
           /\ edit'[a].step = "idle" /\ edit'[a].id = 0
           /\ \A b \in Editors \ {a} : edit'[b] = edit[b]
<1>1. edit \in [Editors -> EditRow] /\ edit' = [edit EXCEPT ![a] = NoEdit(edit[a].sku)]
  BY DEF PriceInv, PriceRowsOK, CommitEdit
<1>2. 0 \in Instants /\ Never \in 1..Never
  BY PriceAssumption DEF Instants, Never
<1>3. NoEdit(edit[a].sku) \in EditRow
  BY <1>1, <1>2 DEF NoEdit, NoWrite, EditRow, WriteRow
<1>4. NoEdit(edit[a].sku).step = "idle" /\ NoEdit(edit[a].sku).id = 0
  BY DEF NoEdit
<1>5. QED
  BY <1>1, <1>3, <1>4

(* What the other requests found under their locks is of other prices.     *)
LEMMA OthersStillDecided ==
    ASSUME PriceInv, NEW a \in Editors, CommitEdit(a)
    PROVE  (OneHolder /\ NamesItsRow /\ StillDecided)'
<1>1. /\ edit'[a].step = "idle" /\ edit'[a].id = 0
      /\ \A b \in Editors \ {a} : edit'[b] = edit[b]
  BY OthersWait
<1>2. /\ Ids \subseteq Ids'
      /\ \A i \in Ids : /\ price'[i].sku = price[i].sku /\ price'[i].from = price[i].from
                        /\ price[i].sku # edit[a].sku => price'[i] = price[i]
      /\ \A i \in Ids' \ Ids : price'[i].sku = edit[a].sku
  BY RowsWritten
<1>3. AtIdentity(a)
  BY DEF CommitEdit, AtIdentity
<1>4. OneHolder'
  BY <1>1 DEF PriceInv, OneHolder, AtIdentity
<1>5. NamesItsRow'
  BY <1>1, <1>2 DEF PriceInv, NamesItsRow
<1>6. ASSUME NEW b \in Editors, edit'[b].step = "ready",
             NEW w, w = edit'[b].write
      PROVE  (Creates(b, w) \/ Reprices(b, w) \/ Describes(b, w) \/ Deactivates(b, w))'
  <2>1. b # a /\ edit'[b] = edit[b] /\ edit[b].step = "ready" /\ w = edit[b].write
    BY <1>1, <1>6
  <2>2. edit[b].sku # edit[a].sku
    BY <1>3, <2>1 DEF PriceInv, OneHolder, AtIdentity
  <2>3. \A i \in Ids' : price'[i].sku = edit[b].sku <=> i \in Ids /\ price[i].sku = edit[b].sku
    BY <1>2, <2>2
  <2>4. \A i \in Ids : price[i].sku = edit[b].sku => price'[i] = price[i]
    BY <1>2, <2>2
  <2>5. \A x, y, except : Overlapping(edit[b].sku, x, y, except)' = Overlapping(edit[b].sku, x, y, except)
    BY <1>2, <2>1, <2>3, <2>4 DEF Overlapping
  <2>6. \A x : Taken(edit[b].sku, x)' = Taken(edit[b].sku, x)
    BY <1>2, <2>1, <2>3, <2>4 DEF Taken
  <2>7. edit[b].id # 0 => edit[b].id \in Ids /\ price[edit[b].id].sku = edit[b].sku
    BY DEF PriceInv, NamesItsRow
  <2>8. Creates(b, w) \/ Reprices(b, w) \/ Describes(b, w) \/ Deactivates(b, w)
    BY <2>1 DEF PriceInv, StillDecided
  <2>9. CASE Creates(b, w)
    BY <2>1, <2>5, <2>6, <2>9 DEF Creates
  <2>10. CASE Reprices(b, w)
    BY <2>1, <2>4, <2>5, <2>6, <2>7, <2>10 DEF Reprices
  <2>11. CASE Describes(b, w) \/ Deactivates(b, w)
    BY <2>1, <2>11 DEF Describes, Deactivates
  <2>12. QED
    BY <2>8, <2>9, <2>10, <2>11
<1>7. StillDecided'
  BY <1>6 DEF StillDecided
<1>8. QED
  BY <1>4, <1>5, <1>7
(* A version that was deactivated is never written again.                  *)
LEMMA WithdrawnStays ==
    ASSUME PriceInv, NEW a \in Editors, CommitEdit(a),
           NEW s \in Skus, NEW t \in Instants, Withdrawn(s, t)
    PROVE  Withdrawn(s, t)'
<1>1. PICK n \in DOMAIN audit :
         /\ audit[n].kind = "deactivate" /\ price[audit[n].id].sku = s
         /\ price[audit[n].id].from <= t /\ t < price[audit[n].id].until
  BY DEF Withdrawn
<1>2. audit[n].id \in Ids /\ ~price[audit[n].id].enabled
  BY <1>1 DEF PriceInv, ToldDisabled
<1>3. price'[audit[n].id] = price[audit[n].id]
  BY <1>2, RowsWritten
<1>4. n \in DOMAIN audit' /\ audit'[n] = audit[n]
  BY EventsWritten
<1>5. QED
  BY <1>1, <1>3, <1>4 DEF Withdrawn

(* What a request writes, by its kind.                                     *)
LEMMA CreatedRow ==
    ASSUME PriceInv, NEW a \in Editors, CommitEdit(a), Creates(a, edit[a].write)
    PROVE  LET w == edit[a].write
               n == Len(price) + 1
           IN /\ Ids' = Ids \cup {n} /\ n \notin Ids
              /\ \A j \in Ids : price'[j] = price[j]
              /\ price'[n] = Version(edit[a].sku, w.from, w.until, w.enabled)
<1>1. price \in Seq(VersionRow)
  BY DEF PriceInv, PriceRowsOK
<1>2. edit[a].write.kind = "create"
  BY DEF Creates
<1>3. price' = Append(price, Version(edit[a].sku, edit[a].write.from, edit[a].write.until,
                                     edit[a].write.enabled))
  BY <1>2 DEF CommitEdit, PricesWritten, WithVersion
<1>4. QED
  BY <1>1, <1>3 DEF Ids

LEMMA RepricedRow ==
    ASSUME PriceInv, NEW a \in Editors, CommitEdit(a), Reprices(a, edit[a].write)
    PROVE  LET w == edit[a].write
               i == edit[a].id
               n == Len(price) + 1
           IN /\ Ids' = Ids \cup {n} /\ n \notin Ids /\ i \in Ids /\ price[i].sku = edit[a].sku
              /\ \A j \in Ids \ {i} : price'[j] = price[j]
              /\ price'[i] = [price[i] EXCEPT !.until = w.from]
              /\ price'[n] = Version(edit[a].sku, w.from, w.until, w.enabled)
<1> DEFINE w == edit[a].write
<1> DEFINE i == edit[a].id
<1> DEFINE n == Len(price) + 1
<1>1. price \in Seq(VersionRow) /\ Len(price) \in Nat /\ Ids = 1..Len(price)
  BY DEF PriceInv, PriceRowsOK, Ids
<1>2. w.kind = "reprice" /\ i \in Ids /\ price[i].sku = edit[a].sku
  BY DEF Reprices, PriceInv, NamesItsRow
<1>3. price' = [WithVersion(w, a) EXCEPT ![i].until = w.from]
  BY <1>2 DEF CommitEdit, PricesWritten
<1>4. /\ DOMAIN WithVersion(w, a) = 1..n
      /\ \A j \in Ids : WithVersion(w, a)[j] = price[j]
      /\ WithVersion(w, a)[n] = Version(edit[a].sku, w.from, w.until, w.enabled)
  BY <1>1 DEF WithVersion
<1>5. /\ DOMAIN price' = 1..n
      /\ price'[i] = [WithVersion(w, a)[i] EXCEPT !.until = w.from]
      /\ \A j \in 1..n : j # i => price'[j] = WithVersion(w, a)[j]
  BY <1>1, <1>2, <1>3, <1>4
<1>6. Ids' = 1..n /\ i # n
  BY <1>1, <1>2, <1>5 DEF Ids
<1>7. QED
  BY <1>1, <1>2, <1>4, <1>5, <1>6

LEMMA DisabledRow ==
    ASSUME PriceInv, NEW a \in Editors, CommitEdit(a), Deactivates(a, edit[a].write)
    PROVE  LET i == edit[a].id
           IN /\ Ids' = Ids /\ i \in Ids /\ price[i].sku = edit[a].sku
              /\ \A j \in Ids \ {i} : price'[j] = price[j]
              /\ price'[i] = [price[i] EXCEPT !.enabled = FALSE]
<1>1. price \in Seq(VersionRow)
  BY DEF PriceInv, PriceRowsOK
<1>2. edit[a].write.kind = "deactivate" /\ edit[a].id \in Ids /\ price[edit[a].id].sku = edit[a].sku
  BY DEF Deactivates, NoWrite, PriceInv, NamesItsRow
<1>3. price' = [price EXCEPT ![edit[a].id].enabled = FALSE]
  BY <1>2 DEF CommitEdit, PricesWritten
<1>4. DOMAIN price = 1..Len(price) /\ price \in [1..Len(price) -> VersionRow]
  BY <1>1
<1>5. DOMAIN price' = DOMAIN price
  BY <1>3, <1>4
<1>6. QED
  BY <1>2, <1>3, <1>4, <1>5 DEF Ids
(* A change of price, a new price and a deactivation leave the versions    *)
(* one after the other.                                                    *)
LEMMA InTurnKept ==
    ASSUME PriceInv, NEW a \in Editors, CommitEdit(a)
    PROVE  InTurn'
<1> DEFINE w == edit[a].write
<1> DEFINE i == edit[a].id
<1> DEFINE n == Len(price) + 1
<1>0. w \in WriteRow /\ \A j \in Ids : price[j] \in VersionRow
  BY DEF PriceInv, PriceRowsOK, EditRow, Ids
<1>1. /\ w.from \in Nat /\ w.until \in Nat
      /\ \A j \in Ids : price[j].from \in Nat /\ price[j].until \in Nat
      /\ \A j \in Ids : price[j].from < price[j].until
  <2>2. Instants \subseteq Nat /\ 1..Never \subseteq Nat
    BY PriceAssumption DEF Instants, Never
  <2>3. QED
    BY <1>0, <2>2 DEF WriteRow, VersionRow, PriceInv, InTurn
<1>2. \A j, k \in Ids :
         j # k /\ price[j].sku = price[k].sku /\ price[j].enabled /\ price[k].enabled =>
             price[j].until <= price[k].from \/ price[k].until <= price[j].from
  BY DEF PriceInv, InTurn, Before
<1>3. Creates(a, w) \/ Reprices(a, w) \/ Describes(a, w) \/ Deactivates(a, w)
  BY DEF CommitEdit, PriceInv, StillDecided
<1>4. CASE Creates(a, w)
  <2>1. /\ Ids' = Ids \cup {n} /\ n \notin Ids
        /\ \A j \in Ids : price'[j] = price[j]
        /\ price'[n].sku = edit[a].sku /\ price'[n].from = w.from
        /\ price'[n].until = w.until /\ price'[n].enabled = w.enabled
    <3>1. price'[n] = Version(edit[a].sku, w.from, w.until, w.enabled)
      BY <1>4, CreatedRow
    <3>2. QED
      BY <1>4, <3>1, CreatedRow DEF Version
  <2>2. w.from < w.until /\ \A j \in Ids :
           price[j].sku = edit[a].sku /\ price[j].enabled /\ w.enabled =>
               ~(price[j].until > w.from /\ price[j].from < w.until)
    BY <1>4 DEF Creates, Overlapping
  <2>3. ASSUME NEW j \in Ids', NEW k \in Ids', j # k, price'[j].sku = price'[k].sku,
               price'[j].enabled, price'[k].enabled
        PROVE  price'[j].until <= price'[k].from \/ price'[k].until <= price'[j].from
    <3>1. CASE j \in Ids /\ k \in Ids
      BY <1>2, <2>1, <2>3, <3>1
    <3>2. CASE j = n
      BY <1>1, <2>1, <2>2, <2>3, <3>2
    <3>3. CASE k = n
      BY <1>1, <2>1, <2>2, <2>3, <3>3
    <3>4. QED
      BY <2>1, <3>1, <3>2, <3>3
  <2>4. QED
    BY <1>1, <2>1, <2>2, <2>3 DEF InTurn, Before
<1>5. CASE Reprices(a, w)
  <2>1. /\ Ids' = Ids \cup {n} /\ n \notin Ids /\ i \in Ids /\ price[i].sku = edit[a].sku
        /\ \A j \in Ids \ {i} : price'[j] = price[j]
        /\ price'[n].sku = edit[a].sku /\ price'[n].from = w.from /\ price'[n].until = w.until
    <3>1. price'[n] = Version(edit[a].sku, w.from, w.until, w.enabled)
      BY <1>5, RepricedRow
    <3>2. price'[n].sku = edit[a].sku /\ price'[n].from = w.from /\ price'[n].until = w.until
      BY <3>1 DEF Version
    <3>3. QED
      BY <1>5, <3>2, RepricedRow
  <2>2. /\ price'[i].sku = price[i].sku /\ price'[i].from = price[i].from
        /\ price'[i].until = w.from
    <3>1. price[i] \in VersionRow
      BY <1>0, <2>1
    <3>2. price'[i] = [price[i] EXCEPT !.until = w.from]
      BY <1>5, RepricedRow
    <3>3. QED
      BY <3>1, <3>2 DEF VersionRow
  <2>3. /\ price[i].enabled /\ price[i].from < w.from /\ w.from < price[i].until
        /\ w.until = price[i].until
        /\ \A j \in Ids \ {i} :
              price[j].sku = edit[a].sku /\ price[j].enabled =>
                  ~(price[j].until > w.from /\ price[j].from < w.until)
    BY <1>5 DEF Reprices, Overlapping
  <2>4. ASSUME NEW j \in Ids', NEW k \in Ids', j # k, price'[j].sku = price'[k].sku,
               price'[j].enabled, price'[k].enabled
        PROVE  price'[j].until <= price'[k].from \/ price'[k].until <= price'[j].from
    <3>1. CASE j \in Ids \ {i} /\ k \in Ids \ {i}
      BY <1>2, <2>1, <2>4, <3>1
    <3>2. CASE j = n
      BY <1>1, <2>1, <2>2, <2>3, <2>4, <3>2
    <3>3. CASE k = n
      BY <1>1, <2>1, <2>2, <2>3, <2>4, <3>3
    <3>4. CASE j = i /\ k \in Ids
      BY <1>1, <1>2, <2>1, <2>2, <2>3, <2>4, <3>4
    <3>5. CASE k = i /\ j \in Ids
      BY <1>1, <1>2, <2>1, <2>2, <2>3, <2>4, <3>5
    <3>6. QED
      BY <2>1, <3>1, <3>2, <3>3, <3>4, <3>5
  <2>5. ASSUME NEW j \in Ids'
        PROVE  price'[j].from < price'[j].until
    BY <1>1, <2>1, <2>2, <2>3
  <2>6. QED
    BY <2>4, <2>5 DEF InTurn, Before
<1>6. CASE Describes(a, w)
  <2>1. price' = price
    BY <1>6 DEF Describes, NoWrite, CommitEdit, PricesWritten
  <2>2. QED
    BY <1>1, <1>2, <2>1 DEF InTurn, Before, Ids
<1>7. CASE Deactivates(a, w)
  <2>1. /\ Ids' = Ids /\ i \in Ids
        /\ \A j \in Ids \ {i} : price'[j] = price[j]
    BY <1>7, DisabledRow
  <2>2. /\ price'[i].sku = price[i].sku /\ price'[i].from = price[i].from
        /\ price'[i].until = price[i].until /\ ~price'[i].enabled
    <3>1. price[i] \in VersionRow
      BY <1>0, <2>1
    <3>2. price'[i] = [price[i] EXCEPT !.enabled = FALSE]
      BY <1>7, DisabledRow
    <3>3. QED
      BY <3>1, <3>2 DEF VersionRow
  <2>3. QED
    BY <1>1, <1>2, <2>1, <2>2 DEF InTurn, Before
<1>8. QED
  BY <1>3, <1>4, <1>5, <1>6, <1>7

(* The trail tells of deactivations only, and they last.                   *)
LEMMA ToldDisabledKept ==
    ASSUME PriceInv, NEW a \in Editors, CommitEdit(a)
    PROVE  ToldDisabled'
<1> SUFFICES ASSUME NEW n \in DOMAIN audit', audit'[n].kind = "deactivate"
             PROVE  (audit[n].id \in Ids /\ ~price[audit[n].id].enabled)'
  BY DEF ToldDisabled
<1>1. CASE n \in DOMAIN audit
  <2>1. audit'[n] = audit[n]
    BY <1>1, EventsWritten
  <2>2. audit[n].id \in Ids /\ ~price[audit[n].id].enabled
    BY <1>1, <2>1 DEF PriceInv, ToldDisabled
  <2>3. audit[n].id \in Ids' /\ price'[audit[n].id] = price[audit[n].id]
    BY <2>2, RowsWritten
  <2>4. QED
    BY <2>1, <2>2, <2>3
<1>2. CASE n \notin DOMAIN audit
  <2>1. audit'[n] = Event(a)
    BY <1>2, EventsWritten
  <2>2. edit[a].write.kind = "deactivate" /\ audit'[n].id = edit[a].id
    BY <2>1 DEF Event
  <2>3. Deactivates(a, edit[a].write)
    BY <2>2 DEF CommitEdit, PriceInv, StillDecided, Creates, Reprices, Describes, NoWrite
  <2>4. edit[a].id \in Ids' /\ price[edit[a].id] \in VersionRow
        /\ price'[edit[a].id] = [price[edit[a].id] EXCEPT !.enabled = FALSE]
    BY <2>3, DisabledRow DEF PriceInv, PriceRowsOK, Ids
  <2>5. QED
    BY <2>2, <2>4 DEF VersionRow
<1>3. QED
  BY <1>1, <1>2
(* Only a deactivation takes the price of an instant away.                 *)
LEMMA AllPricedKept ==
    ASSUME PriceInv, NEW a \in Editors, CommitEdit(a)
    PROVE  AllPriced'
<1> DEFINE w == edit[a].write
<1> DEFINE i == edit[a].id
<1> DEFINE n == Len(price) + 1
<1> SUFFICES ASSUME NEW s \in Skus, NEW t \in Instants
             PROVE  (\E j \in Ids' : price'[j].sku = s /\ InEffect(j, t)') \/ Withdrawn(s, t)'
  BY DEF AllPriced
<1>1. CASE Withdrawn(s, t)
  BY <1>1, WithdrawnStays
<1>2. CASE \E j \in Ids : price[j].sku = s /\ InEffect(j, t) /\ price'[j] = price[j]
  BY <1>2, RowsWritten DEF InEffect
<1>3. CASE \E j \in Ids : price[j].sku = s /\ InEffect(j, t) /\ price'[j] # price[j]
  <2>1. PICK j \in Ids : price[j].sku = s /\ InEffect(j, t) /\ price'[j] # price[j]
    BY <1>3
  <2>2. price[j] \in VersionRow
    BY DEF PriceInv, PriceRowsOK, Ids
  <2>3. price[j].enabled /\ price[j].from <= t /\ t < price[j].until
    BY <2>1 DEF InEffect
  <2>4. ~Creates(a, w)
    BY <2>1, CreatedRow
  <2>5. ~Describes(a, w)
    <3>1. ASSUME Describes(a, w) PROVE price' = price
      BY <3>1 DEF Describes, NoWrite, CommitEdit, PricesWritten
    <3>2. QED
      BY <2>1, <3>1
  <2>6. CASE Reprices(a, w)
    <3>1. j = i /\ n \in Ids' /\ j \in Ids'
      BY <2>1, <2>6, RepricedRow
    <3>2. price'[j] = [price[j] EXCEPT !.until = w.from] /\ price[j].sku = edit[a].sku
      BY <2>6, <3>1, RepricedRow
    <3>3. price'[n] = Version(edit[a].sku, w.from, w.until, w.enabled)
      BY <2>6, RepricedRow
    <3>4. w.enabled /\ w.until = price[j].until /\ w.from \in Nat /\ t \in Nat
      <4>1. w \in WriteRow /\ Instants \subseteq Nat
        BY PriceAssumption DEF PriceInv, PriceRowsOK, EditRow, Instants
      <4>2. w.from \in Instants
        BY <4>1 DEF WriteRow
      <4>3. QED
        BY <2>6, <3>1, <4>1, <4>2 DEF Reprices
    <3>5. CASE t < w.from
      <4>1. /\ price'[j].sku = s /\ price'[j].enabled /\ price'[j].from <= t
            /\ price'[j].until = w.from
        BY <2>1, <2>2, <2>3, <3>2 DEF VersionRow
      <4>2. QED
        BY <3>1, <3>5, <4>1 DEF InEffect
    <3>6. CASE w.from <= t
      <4>1. /\ price'[n].sku = s /\ price'[n].enabled /\ price'[n].from = w.from
            /\ price'[n].until = price[j].until
        BY <2>1, <3>2, <3>3, <3>4 DEF Version
      <4>2. QED
        BY <2>3, <3>1, <3>6, <4>1 DEF InEffect
    <3>7. QED
      BY <3>4, <3>5, <3>6
  <2>7. CASE Deactivates(a, w)
    <3>1. j = i
      BY <2>1, <2>7, DisabledRow
    <3>2. price'[j] = [price[j] EXCEPT !.enabled = FALSE]
      BY <2>7, <3>1, DisabledRow
    <3>3. Len(audit) + 1 \in DOMAIN audit' /\ audit'[Len(audit) + 1] = Event(a)
      BY <2>1, EventsWritten
    <3>4. Event(a).kind = "deactivate" /\ Event(a).id = j
      BY <2>7, <3>1 DEF Deactivates, NoWrite, Event
    <3>5. price'[j].sku = s /\ price'[j].from <= t /\ t < price'[j].until
      BY <2>1, <2>2, <2>3, <3>2 DEF VersionRow
    <3>6. QED
      BY <3>3, <3>4, <3>5 DEF Withdrawn
  <2>8. QED
    BY <2>4, <2>5, <2>6, <2>7 DEF CommitEdit, PriceInv, StillDecided
<1>4. QED
  BY <1>1, <1>2, <1>3 DEF PriceInv, AllPriced

LEMMA CommitKept ==
    ASSUME PriceInv, NEW a \in Editors, CommitEdit(a)
    PROVE  PriceInv'
<1>1. PriceRowsOK'
  BY RowsWritten, EventsWritten, OthersWait DEF PriceRowsOK
<1>2. QED
  BY <1>1, OthersStillDecided, InTurnKept, ToldDisabledKept, AllPricedKept DEF PriceInv

-----------------------------------------------------------------------------
(* Every step. *)

LEMMA PriceStep == PriceInv /\ [PriceNext]_priceVars => PriceInv'
<1> SUFFICES ASSUME PriceInv, [PriceNext]_priceVars PROVE PriceInv'
  OBVIOUS
<1>0. /\ edit \in [Editors -> EditRow] /\ price \in Seq(VersionRow)
      /\ \A i \in Ids : i \in Nat /\ price[i].sku \in Skus
      /\ 0 \in Instants /\ Never \in 1..Never
  <2>1. edit \in [Editors -> EditRow] /\ price \in Seq(VersionRow)
    BY DEF PriceInv, PriceRowsOK
  <2>2. \A i \in Ids : i \in Nat /\ price[i] \in VersionRow
    BY <2>1 DEF Ids
  <2>3. QED
    BY <2>1, <2>2, PriceAssumption DEF VersionRow, Instants, Never
<1>1. NoWrite \in WriteRow /\ \A s \in Skus : NoEdit(s) \in EditRow
  BY <1>0 DEF NoWrite, NoEdit, WriteRow, EditRow
<1>2. ASSUME NEW a \in Editors, AskCreate(a) PROVE PriceInv'
  <2>1. PICK s \in Skus : edit' = [edit EXCEPT ![a] = [NoEdit(s) EXCEPT !.step = "asked"]]
    BY <1>2 DEF AskCreate
  <2>2. [NoEdit(s) EXCEPT !.step = "asked"] \in EditRow
    BY <1>0 DEF NoEdit, NoWrite, WriteRow, EditRow
  <2>3. [NoEdit(s) EXCEPT !.step = "asked"].id = 0
        /\ [NoEdit(s) EXCEPT !.step = "asked"].step = "asked"
    BY DEF NoEdit
  <2>4. QED
    BY <1>2, <2>1, <2>2, <2>3, RequestsKept DEF AskCreate
<1>3. ASSUME NEW a \in Editors, AskEdit(a) PROVE PriceInv'
  <2>1. PICK i \in Ids :
           edit' = [edit EXCEPT ![a] =
                      [step |-> "asked", id |-> i, sku |-> price[i].sku, write |-> NoWrite]]
    BY <1>3 DEF AskEdit
  <2>2. [step |-> "asked", id |-> i, sku |-> price[i].sku, write |-> NoWrite] \in EditRow
    BY <1>0, <1>1 DEF EditRow
  <2>3. QED
    BY <1>3, <2>1, <2>2, RequestsKept DEF AskEdit
<1>4. ASSUME NEW a \in Editors, LockIdentity(a) PROVE PriceInv'
  <2>1. edit' = [edit EXCEPT ![a] = [edit[a] EXCEPT !.step = "locked"]]
    BY <1>0, <1>4 DEF LockIdentity
  <2>2. /\ edit[a] \in EditRow /\ [edit[a] EXCEPT !.step = "locked"] \in EditRow
        /\ [edit[a] EXCEPT !.step = "locked"].id = edit[a].id
        /\ [edit[a] EXCEPT !.step = "locked"].sku = edit[a].sku
        /\ [edit[a] EXCEPT !.step = "locked"].step = "locked"
    BY <1>0 DEF EditRow
  <2>3. edit[a].id # 0 => edit[a].id \in Ids /\ price[edit[a].id].sku = edit[a].sku
    BY DEF PriceInv, NamesItsRow
  <2>4. \A b \in Editors \ {a} : ~Holds(b, edit[a].sku)
    BY <1>4 DEF LockIdentity
  <2>5. QED
    BY <1>4, <2>1, <2>2, <2>3, <2>4, RequestsKept DEF LockIdentity
<1>5. ASSUME NEW a \in Editors, DecideEdit(a) PROVE PriceInv'
  <2>1. PICK w \in Writes :
           /\ Creates(a, w) \/ Reprices(a, w) \/ Describes(a, w) \/ Deactivates(a, w)
           /\ edit' = [edit EXCEPT ![a].step = "ready", ![a].write = w]
    BY <1>5 DEF DecideEdit
  <2>2. w \in WriteRow
    <3>1. \A k \in {"describe", "deactivate"} : [NoWrite EXCEPT !.kind = k] \in WriteRow
      BY <1>0 DEF NoWrite, WriteRow
    <3>2. \A v \in [kind : {"create", "reprice"}, from : Instants, until : 1..Never,
                    enabled : BOOLEAN] : v \in WriteRow
      BY DEF WriteRow
    <3>3. QED
      BY <2>1, <3>1, <3>2 DEF Writes
  <2>3. PICK e \in EditRow :
           /\ edit' = [edit EXCEPT ![a] = e]
           /\ e.id = edit[a].id /\ e.sku = edit[a].sku /\ e.step = "ready" /\ e.write = w
    <3>1. /\ [edit[a] EXCEPT !.step = "ready", !.write = w] \in EditRow
          /\ [edit[a] EXCEPT !.step = "ready", !.write = w].id = edit[a].id
          /\ [edit[a] EXCEPT !.step = "ready", !.write = w].sku = edit[a].sku
          /\ [edit[a] EXCEPT !.step = "ready", !.write = w].step = "ready"
          /\ [edit[a] EXCEPT !.step = "ready", !.write = w].write = w
      BY <1>0, <2>2 DEF EditRow
    <3>2. edit' = [edit EXCEPT ![a] = [edit[a] EXCEPT !.step = "ready", !.write = w]]
      BY <1>0, <2>1
    <3>3. QED
      BY <3>1, <3>2
  <2>4. e.id # 0 => e.id \in Ids /\ price[e.id].sku = e.sku
    BY <2>3 DEF PriceInv, NamesItsRow
  <2>5. AtIdentity(a)
    BY <1>5 DEF DecideEdit, AtIdentity
  <2>6. Creates(a, e.write) \/ Reprices(a, e.write) \/ Describes(a, e.write)
        \/ Deactivates(a, e.write)
    BY <2>1, <2>3
  <2>7. QED
    BY <1>5, <2>3, <2>4, <2>5, <2>6, RequestsKept DEF DecideEdit
<1>6. ASSUME NEW a \in Editors, RefuseEdit(a) PROVE PriceInv'
  <2>1. NoEdit(edit[a].sku) \in EditRow
    BY <1>0, <1>1 DEF EditRow
  <2>2. NoEdit(edit[a].sku).id = 0 /\ NoEdit(edit[a].sku).step = "idle"
    BY DEF NoEdit
  <2>3. QED
    BY <1>6, <2>1, <2>2, RequestsKept DEF RefuseEdit
<1>7. ASSUME NEW a \in Editors, CommitEdit(a) PROVE PriceInv'
  BY <1>7, CommitKept
<1>8. CASE ValueVolume \/ RestartWorker \/ DayPasses \/ UNCHANGED priceVars
  <2>1. price' = price /\ audit' = audit /\ edit' = edit
    BY <1>8 DEF ValueVolume, RestartWorker, DayPasses, priceVars
  <2>2. PriceRowsOK' /\ OneHolder' /\ NamesItsRow' /\ ToldDisabled' /\ InTurn'
    BY <2>1 DEF PriceInv, PriceRowsOK, OneHolder, AtIdentity, NamesItsRow, ToldDisabled, InTurn,
                Before, Ids
  <2>3. AllPriced'
    BY <2>1 DEF PriceInv, AllPriced, Ids, InEffect, Withdrawn
  <2>4. StillDecided'
    BY <2>1 DEF PriceInv, StillDecided, Creates, Reprices, Describes, Deactivates, Overlapping,
                Taken, Ids
  <2>5. QED
    BY <2>2, <2>3, <2>4 DEF PriceInv
<1>9. QED
  BY <1>2, <1>3, <1>4, <1>5, <1>6, <1>7, <1>8 DEF PriceNext

LEMMA PricesAlways == PriceSpec => []PriceInv
<1>1. PriceInit => PriceInv
  BY PricesBegin
<1>2. PriceInv /\ [PriceNext]_priceVars => PriceInv'
  BY PriceStep
<1>3. QED
  BY <1>1, <1>2, PTL DEF PriceSpec

(* Whatever administrators do at once, no instant has two prices, and only *)
(* a deactivation takes one away (pricing_admin.py, pricing_catalog.py).   *)
THEOREM PricesResolve == PriceSpec => []PriceAlwaysResolves
<1>1. PriceInv => PriceAlwaysResolves
  <2> SUFFICES ASSUME PriceInv, NEW s \in Skus, NEW t \in Instants
               PROVE  /\ Cardinality(Effective(s, t)) <= 1
                      /\ Effective(s, t) = {} => Withdrawn(s, t)
    BY DEF PriceAlwaysResolves
  <2>1. ASSUME NEW i \in Effective(s, t), NEW j \in Effective(s, t)
        PROVE  i = j
    <3>1. /\ price[i].sku = price[j].sku /\ price[i].enabled /\ price[j].enabled
          /\ i \in Ids /\ j \in Ids
          /\ price[i].from <= t /\ t < price[i].until /\ price[j].from <= t /\ t < price[j].until
      BY DEF Effective, InEffect
    <3>2. /\ price[i].from \in Nat /\ price[i].until \in Nat
          /\ price[j].from \in Nat /\ price[j].until \in Nat /\ t \in Nat
      <4>1. price[i] \in VersionRow /\ price[j] \in VersionRow
        BY <3>1 DEF PriceInv, PriceRowsOK, Ids
      <4>2. Instants \subseteq Nat /\ 1..Never \subseteq Nat
        BY PriceAssumption DEF Instants, Never
      <4>3. QED
        BY <4>1, <4>2 DEF VersionRow
    <3>3. QED
      BY <3>1, <3>2 DEF PriceInv, InTurn, Before
  <2>2. CASE Effective(s, t) = {}
    BY <2>2, FS_EmptySet DEF PriceInv, AllPriced, Effective
  <2>3. CASE Effective(s, t) # {}
    <3>1. PICK i \in Effective(s, t) : TRUE
      BY <2>3
    <3>2. Effective(s, t) = {i}
      BY <2>1, <3>1
    <3>3. Cardinality(Effective(s, t)) = 1
      BY <3>2, FS_Singleton
    <3>4. QED
      BY <2>3, <3>3
  <2>4. QED
    BY <2>2, <2>3
<1>2. QED
  BY <1>1, PricesAlways, PTL

-----------------------------------------------------------------------------
(* Profiles: the inductive invariant. *)

ProfileRow == [stored : BOOLEAN, default : BOOLEAN, enabled : BOOLEAN, method : Methods]
ChangeRow == [step : {"idle", "looked", "locked"},
              kind : {"none", "ensure", "create", "default", "deactivate"},
              target : Profiles, seen : SUBSET Profiles, default : BOOLEAN]

ProfileRowsOK == profile \in [Profiles -> ProfileRow] /\ change \in [Handlers -> ChangeRow]

(* There is a default from when the system's profile is there, or was seen *)
(* not to be needed as one.                                                *)
SomeDefault ==
    /\ System \in Stored => Defaults # {}
    /\ \A h \in Handlers :
          change[h].step = "looked" /\ change[h].kind = "ensure" /\ ~change[h].default =>
              Defaults # {}

AtMostOne == \A p, q \in Defaults : p = q

(* A profile that is to be marked or deactivated is there.                 *)
TargetsStored ==
    \A h \in Handlers :
        change[h].step # "idle" /\ change[h].kind \in {"default", "deactivate"} =>
            change[h].target \in Stored

ProfileInv == ProfileRowsOK /\ SomeDefault /\ AtMostOne /\ TargetsStored

LEMMA ProfilesBegin == BillingInit => ProfileInv
<1> SUFFICES ASSUME BillingInit PROVE ProfileInv
  OBVIOUS
<1>1. PICK m \in Methods, seeded \in BOOLEAN :
         profile = [p \in Profiles |->
                      [NoProfile(m) EXCEPT !.stored = seeded /\ p = System,
                                           !.default = seeded /\ p = System]]
  BY DEF BillingInit
<1>2. ASSUME NEW p \in Profiles
      PROVE  /\ profile[p] \in ProfileRow
             /\ profile[p].stored <=> (seeded /\ p = System)
             /\ profile[p].default <=> (seeded /\ p = System)
  BY <1>1 DEF NoProfile, ProfileRow
<1>3. \A h \in Handlers : change[h].step = "idle"
  BY DEF BillingInit, NoChange
<1>4. ProfileRowsOK
  <2>1. NoChange \in ChangeRow
    BY BillingAssumption DEF NoChange, ChangeRow
  <2>2. QED
    BY <1>1, <1>2, <2>1 DEF BillingInit, ProfileRowsOK
<1>5. SomeDefault /\ AtMostOne
  BY <1>2, <1>3, BillingAssumption DEF SomeDefault, AtMostOne, Stored, Defaults
<1>6. QED
  BY <1>3, <1>4, <1>5 DEF ProfileInv, TargetsStored

(* A request goes on, and the profiles stay.                               *)
LEMMA ProfilesKept ==
    ASSUME ProfileInv, profile' = profile,
           NEW h \in Handlers, NEW c \in ChangeRow, change' = [change EXCEPT ![h] = c],
           c.step = "looked" /\ c.kind = "ensure" /\ ~c.default => Defaults # {},
           c.step # "idle" /\ c.kind \in {"default", "deactivate"} => c.target \in Stored
    PROVE  ProfileInv'
<1>1. \A g \in Handlers : change'[g] = IF g = h THEN c ELSE change[g]
  BY DEF ProfileInv, ProfileRowsOK
<1>2. Stored' = Stored /\ Defaults' = Defaults
  BY DEF Stored, Defaults
<1>3. ProfileRowsOK'
  BY DEF ProfileInv, ProfileRowsOK
<1>4. SomeDefault' /\ AtMostOne' /\ TargetsStored'
  BY <1>1, <1>2 DEF ProfileInv, SomeDefault, AtMostOne, TargetsStored
<1>5. QED
  BY <1>3, <1>4 DEF ProfileInv

(* Profiles change: those that are there stay, and defaults are replaced.  *)
LEMMA ProfilesChanged ==
    ASSUME ProfileInv, profile' \in [Profiles -> ProfileRow],
           change' = change
           \/ \E h \in Handlers : change' = [change EXCEPT ![h] = NoChange],
           Stored \subseteq Stored',
           \A p, q \in Defaults' : p = q,
           Defaults # {} => Defaults' # {},
           System \in Stored' => System \in Stored \/ Defaults' # {}
    PROVE  ProfileInv'
<1>1. \A g \in Handlers : change'[g] = change[g] \/ change'[g].step = "idle"
  BY DEF ProfileInv, ProfileRowsOK, NoChange
<1>2. ProfileRowsOK'
  <2>1. NoChange \in ChangeRow
    BY BillingAssumption DEF NoChange, ChangeRow
  <2>2. QED
    BY <2>1 DEF ProfileInv, ProfileRowsOK
<1>3. SomeDefault'
  BY <1>1 DEF ProfileInv, SomeDefault
<1>4. AtMostOne'
  BY DEF AtMostOne
<1>5. TargetsStored'
  BY <1>1 DEF ProfileInv, TargetsStored
<1>6. QED
  BY <1>2, <1>3, <1>4, <1>5 DEF ProfileInv
(* What a request of each kind does.                                       *)
LEMMA EnsureKeeps ==
    ASSUME ProfileInv, NEW h \in Handlers, EnsureInserts(h)
    PROVE  ProfileInv'
<1>0. profile \in [Profiles -> ProfileRow] /\ System \in Profiles
  BY BillingAssumption DEF ProfileInv, ProfileRowsOK
<1>1. change' = [change EXCEPT ![h] = NoChange]
  BY DEF EnsureInserts
<1>2. CASE profile' = profile
  <2>1. Stored' = Stored /\ Defaults' = Defaults
    BY <1>2 DEF Stored, Defaults
  <2>2. QED
    BY <1>0, <1>1, <1>2, <2>1, ProfilesChanged DEF ProfileInv, AtMostOne
<1>3. CASE profile' # profile
  <2> DEFINE on == change[h].default
  <2>1. /\ System \notin Stored /\ ~(on /\ Defaults # {})
        /\ profile' = [profile EXCEPT ![System] =
                         [stored |-> TRUE, default |-> on, enabled |-> TRUE, method |-> AnyMethod]]
        /\ change[h].step = "looked" /\ change[h].kind = "ensure"
    BY <1>3 DEF EnsureInserts
  <2>2. [stored |-> TRUE, default |-> on, enabled |-> TRUE, method |-> AnyMethod] \in ProfileRow
    <3>1. AnyMethod \in Methods
      BY BillingAssumption DEF AnyMethod
    <3>2. on \in BOOLEAN
      BY DEF ProfileInv, ProfileRowsOK, ChangeRow
    <3>3. QED
      BY <3>1, <3>2 DEF ProfileRow
  <2>3. /\ profile' \in [Profiles -> ProfileRow]
        /\ profile'[System].stored /\ (profile'[System].default <=> on)
        /\ \A p \in Profiles \ {System} : profile'[p] = profile[p]
    BY <1>0, <2>1, <2>2
  <2>4. Stored' = Stored \cup {System}
    BY <1>0, <2>3 DEF Stored
  <2>5. Defaults' = IF on THEN Defaults \cup {System} ELSE Defaults
    BY <1>0, <2>1, <2>3, <2>4 DEF Defaults
  <2>6. on => Defaults = {}
    BY <2>1
  <2>7. ~on => Defaults # {}
    BY <2>1 DEF ProfileInv, SomeDefault
  <2>8. (\A p, q \in Defaults' : p = q) /\ Defaults' # {}
    BY <2>5, <2>6, <2>7 DEF ProfileInv, AtMostOne
  <2>9. QED
    BY <1>1, <2>3, <2>4, <2>8, ProfilesChanged
<1>4. QED
  BY <1>2, <1>3

LEMMA CreateKeeps ==
    ASSUME ProfileInv, NEW h \in Handlers, CreateCommits(h)
    PROVE  ProfileInv'
<1>0. profile \in [Profiles -> ProfileRow]
  BY DEF ProfileInv, ProfileRowsOK
<1>1. change' = [change EXCEPT ![h] = NoChange]
  BY DEF CreateCommits
<1>2. CASE profile' = profile
  <2>1. Stored' = Stored /\ Defaults' = Defaults
    BY <1>2 DEF Stored, Defaults
  <2>2. QED
    BY <1>0, <1>1, <1>2, <2>1, ProfilesChanged DEF ProfileInv, AtMostOne
<1>3. CASE profile' # profile
  <2>1. PICK new \in Unused, m \in Methods :
           profile' = [p \in Profiles |->
                         IF p = new
                         THEN [NoProfile(m) EXCEPT !.stored = TRUE, !.default = TRUE]
                         ELSE [profile[p] EXCEPT !.default = FALSE]]
    BY <1>3 DEF CreateCommits
  <2>2. ASSUME NEW p \in Profiles
        PROVE  /\ profile'[p] \in ProfileRow
               /\ profile'[p].stored <=> (profile[p].stored \/ p = new)
               /\ profile'[p].default <=> p = new
    BY <1>0, <2>1 DEF NoProfile, ProfileRow
  <2>3. profile' \in [Profiles -> ProfileRow] /\ new \in Profiles /\ new # System
    BY <2>1, <2>2 DEF Unused
  <2>4. Stored' = Stored \cup {new} /\ Defaults' = {new}
    BY <2>2, <2>3 DEF Stored, Defaults
  <2>5. QED
    BY <1>1, <2>3, <2>4, ProfilesChanged
<1>4. QED
  BY <1>2, <1>3

LEMMA MarkingKeeps ==
    ASSUME ProfileInv, NEW h \in Handlers, SetDefaultCommits(h)
    PROVE  ProfileInv'
<1>0. profile \in [Profiles -> ProfileRow]
  BY DEF ProfileInv, ProfileRowsOK
<1>1. change' = [change EXCEPT ![h] = NoChange]
  BY DEF SetDefaultCommits
<1>2. CASE profile' = profile
  <2>1. Stored' = Stored /\ Defaults' = Defaults
    BY <1>2 DEF Stored, Defaults
  <2>2. QED
    BY <1>0, <1>1, <1>2, <2>1, ProfilesChanged DEF ProfileInv, AtMostOne
<1>3. CASE profile' = Marked(change[h])
  <2> DEFINE target == change[h].target
  <2>1. target \in Stored
    BY DEF SetDefaultCommits, ProfileInv, TargetsStored
  <2>2. ASSUME NEW p \in Profiles
        PROVE  /\ profile'[p] \in ProfileRow
               /\ profile'[p].stored <=> profile[p].stored
               /\ profile'[p].default <=> p = target
    BY <1>0, <1>3 DEF Marked, ProfileRow
  <2>3. profile' \in [Profiles -> ProfileRow]
    BY <1>3, <2>2 DEF Marked
  <2>4. Stored' = Stored /\ Defaults' = {target}
    BY <2>1, <2>2 DEF Stored, Defaults
  <2>5. QED
    BY <1>1, <2>3, <2>4, ProfilesChanged
<1>4. QED
  BY <1>2, <1>3 DEF SetDefaultCommits

(* A profile that is stored, and not as the default; or one changed in what *)
(* does not make it a default.                                             *)
LEMMA OneRowWritten ==
    ASSUME ProfileInv, NEW p \in Profiles, NEW r \in ProfileRow,
           profile' = [profile EXCEPT ![p] = r],
           change' = change \/ \E h \in Handlers : change' = [change EXCEPT ![h] = NoChange],
           \/ p \in Stored /\ r.stored /\ (r.default <=> profile[p].default)
           \/ p \notin Stored /\ p # System /\ ~r.default
    PROVE  ProfileInv'
<1>1. /\ profile' \in [Profiles -> ProfileRow] /\ profile'[p] = r
      /\ \A q \in Profiles \ {p} : profile'[q] = profile[q]
  BY DEF ProfileInv, ProfileRowsOK
<1>2. Stored \subseteq Stored' /\ (System \in Stored' => System \in Stored)
  BY <1>1 DEF Stored
<1>3. Defaults' = Defaults
  BY <1>1 DEF Stored, Defaults
<1>4. QED
  BY <1>1, <1>2, <1>3, ProfilesChanged DEF ProfileInv, AtMostOne

LEMMA ProfileStep == ProfileInv /\ [BillingNext]_billingVars => ProfileInv'
<1> SUFFICES ASSUME ProfileInv, [BillingNext]_billingVars PROVE ProfileInv'
  OBVIOUS
<1>0. /\ profile \in [Profiles -> ProfileRow] /\ change \in [Handlers -> ChangeRow]
      /\ Stored \subseteq Profiles /\ System \in Profiles
  BY BillingAssumption DEF ProfileInv, ProfileRowsOK, Stored
<1>1. ASSUME NEW h \in Handlers, EnsureLooks(h) PROVE ProfileInv'
  <2>1. PICK c : /\ c = [NoChange EXCEPT !.step = "looked", !.kind = "ensure",
                                        !.default = (Defaults = {})]
                 /\ change' = [change EXCEPT ![h] = c]
    BY <1>1 DEF EnsureLooks
  <2>2. /\ c \in ChangeRow /\ c.step = "looked" /\ c.kind = "ensure"
        /\ ~c.default => Defaults # {}
    BY <1>0, <2>1 DEF NoChange, ChangeRow
  <2>3. QED
    BY <1>1, <2>1, <2>2, ProfilesKept DEF EnsureLooks
<1>2. ASSUME NEW h \in Handlers, NEW kind \in {"create", "default"}, NEW p \in Profiles,
             LockProfiles(h, kind, p), kind = "default" => p \in Stored
      PROVE  ProfileInv'
  <2>1. PICK c : /\ c = [step |-> "locked", kind |-> kind, target |-> p, seen |-> Stored,
                         default |-> TRUE]
                 /\ change' = [change EXCEPT ![h] = c]
    BY <1>2 DEF LockProfiles
  <2>2. c \in ChangeRow /\ c.step = "locked" /\ c.kind = kind /\ c.target = p
    BY <1>0, <2>1 DEF ChangeRow
  <2>3. QED
    BY <1>2, <2>1, <2>2, ProfilesKept DEF LockProfiles
<1>3. ASSUME NEW h \in Handlers, CreateLocks(h) \/ SetDefaultLocks(h) PROVE ProfileInv'
  BY <1>0, <1>2, <1>3 DEF CreateLocks, SetDefaultLocks
<1>4. ASSUME NEW h \in Handlers, CreatePlain(h) PROVE ProfileInv'
  <2>1. PICK p \in Unused, m \in Methods :
           profile' = [profile EXCEPT ![p] = [NoProfile(m) EXCEPT !.stored = TRUE]]
    BY <1>4 DEF CreatePlain
  <2>2. [NoProfile(m) EXCEPT !.stored = TRUE] \in ProfileRow
        /\ ~[NoProfile(m) EXCEPT !.stored = TRUE].default
    BY DEF NoProfile, ProfileRow
  <2>3. QED
    BY <1>4, <2>1, <2>2, OneRowWritten DEF CreatePlain, Unused
<1>5. ASSUME NEW h \in Handlers, DeactivateLooks(h) PROVE ProfileInv'
  <2>1. PICK p \in Stored :
           change' = [change EXCEPT ![h] =
                        [NoChange EXCEPT !.step = "looked", !.kind = "deactivate", !.target = p]]
    BY <1>5 DEF DeactivateLooks
  <2>2. PICK c : c = [NoChange EXCEPT !.step = "looked", !.kind = "deactivate", !.target = p]
    OBVIOUS
  <2>3. c \in ChangeRow /\ c.step = "looked" /\ c.kind = "deactivate" /\ c.target = p
    BY <1>0, <2>2 DEF NoChange, ChangeRow
  <2>4. QED
    BY <1>5, <2>1, <2>2, <2>3, ProfilesKept DEF DeactivateLooks
<1>6. ASSUME NEW h \in Handlers, DeactivateWrites(h) PROVE ProfileInv'
  <2>1. change[h].target \in Profiles /\ change[h].target \in Stored
    BY <1>0, <1>6 DEF ChangeRow, DeactivateWrites, ProfileInv, TargetsStored
  <2> DEFINE p == change[h].target
  <2> DEFINE r == [profile[p] EXCEPT !.enabled = FALSE]
  <2>2. profile' = [profile EXCEPT ![p] = r]
    BY <1>0, <1>6, <2>1 DEF DeactivateWrites
  <2>3. r \in ProfileRow /\ r.stored = profile[p].stored /\ r.default = profile[p].default
    BY <1>0, <2>1 DEF ProfileRow
  <2>4. QED
    BY <1>6, <2>1, <2>2, <2>3, OneRowWritten DEF DeactivateWrites, Stored
<1>7. ASSUME NEW h \in Handlers, ChangeFails(h) PROVE ProfileInv'
  <2>1. NoChange \in ChangeRow /\ NoChange.step = "idle"
    BY <1>0 DEF NoChange, ChangeRow
  <2>2. QED
    BY <1>7, <2>1, ProfilesKept DEF ChangeFails
<1>8. ASSUME UpdateProfile PROVE ProfileInv'
  <2>1. PICK p \in Stored, m \in Methods : profile' = [profile EXCEPT ![p].method = m]
    BY <1>8 DEF UpdateProfile
  <2>2. p \in Profiles /\ profile[p] \in ProfileRow /\ profile[p].stored
    BY <1>0 DEF Stored
  <2> DEFINE r == [profile[p] EXCEPT !.method = m]
  <2>3. profile' = [profile EXCEPT ![p] = r]
    BY <1>0, <2>1, <2>2
  <2>4. r \in ProfileRow /\ r.stored = profile[p].stored /\ r.default = profile[p].default
    BY <2>2 DEF ProfileRow
  <2>5. QED
    BY <1>8, <2>2, <2>3, <2>4, OneRowWritten DEF UpdateProfile
<1>9. CASE UNCHANGED profileVars
  <2>1. profile' = profile /\ change' = change
    BY <1>9 DEF profileVars
  <2>2. Stored' = Stored /\ Defaults' = Defaults
    BY <2>1 DEF Stored, Defaults
  <2>3. QED
    BY <1>0, <2>1, <2>2, ProfilesChanged DEF ProfileInv, AtMostOne
<1>10. UNCHANGED profileVars
       \/ UpdateProfile
       \/ \E h \in Handlers :
             \/ EnsureLooks(h) \/ EnsureInserts(h) \/ CreateLocks(h) \/ CreatePlain(h)
             \/ CreateCommits(h) \/ SetDefaultLocks(h) \/ SetDefaultCommits(h)
             \/ DeactivateLooks(h) \/ DeactivateWrites(h) \/ ChangeFails(h)
  BY DEF BillingNext, billingVars, profileVars, QueryBegins, FetchFails, QueryAnswers,
         MinutePasses, UseCached, Fetch, KeepFetched
<1>11. QED
  BY <1>1, <1>3, <1>4, <1>5, <1>6, <1>7, <1>8, <1>9, <1>10, EnsureKeeps, CreateKeeps, MarkingKeeps

(* Whatever requests and starting processes do at once, there is one       *)
(* default profile from when the system's is stored (billing_profiles.py). *)
THEOREM DefaultIsOne == BillingSpec => []OneDefault
<1>1. BillingInit => ProfileInv
  BY ProfilesBegin
<1>2. ProfileInv /\ [BillingNext]_billingVars => ProfileInv'
  BY ProfileStep
<1>3. ProfileInv => OneDefault
  <2> SUFFICES ASSUME ProfileInv, System \in Stored PROVE Cardinality(Defaults) = 1
    BY DEF OneDefault
  <2>1. PICK p \in Defaults : TRUE
    BY DEF ProfileInv, SomeDefault
  <2>2. Defaults = {p}
    BY DEF ProfileInv, AtMostOne
  <2>3. QED
    BY <2>2, FS_Singleton
<1>4. QED
  BY <1>1, <1>2, <1>3, PTL DEF BillingSpec
-----------------------------------------------------------------------------
(* Queries: the inductive invariant. *)

Groupings == {"NONE", "SERVICE"}
CostRow == [bucket : Buckets, key : Services \cup {"none"}, amount : Int, estimated : BOOLEAN]
PartRow == [account : AwsAccounts, method : Methods, grouping : Groupings, at : Minutes,
            kept : Nat, used : Nat, rows : SUBSET CostRow]
QueryRow == [step : {"idle", "asking", "answered"}, kind : Kinds, grouping : Groupings,
             method : Methods, wanted : SUBSET AwsAccounts, left : SUBSET AwsAccounts,
             told : SUBSET PartRow, parts : SUBSET PartRow]

(* The rows of a part are what Cost Explorer told of its account.          *)
AsTold(p) == p.rows = Told(bill[p.at][p.account], p.grouping)

(* An entry is of what its key says, and lasts for its time.               *)
EntryTrue(e) ==
    /\ e.part \in PartRow /\ e.key = <<e.part.account, e.part.method, e.part.grouping>>
    /\ AsTold(e.part) /\ e.until = e.part.kept + Ttl
    /\ e.part.at <= e.part.kept /\ e.part.kept <= minute

(* A part of an answer is of what was asked, and was fresh when it came.   *)
PartTrue(p, q) ==
    /\ p.method = q.method /\ p.grouping = q.grouping /\ AsTold(p)
    /\ p.at <= p.kept /\ p.kept <= p.used /\ p.used < p.kept + Ttl

(* So is what has been told and is not yet kept.                           *)
ToldTrue(p, q) ==
    /\ p.method = q.method /\ p.grouping = q.grouping /\ AsTold(p)
    /\ p.at <= minute /\ p.account \in q.left

(* Every account that was asked about is in one part, or still to ask.     *)
PartsTrue(q) ==
    /\ q.kind = "summary" => q.grouping = "NONE"
    /\ \A p \in q.parts : PartTrue(p, q) /\ p.account \notin q.left
    /\ \A p \in q.told : ToldTrue(p, q)
    /\ \A p, o \in q.parts : p.account = o.account => p = o
    /\ {p.account : p \in q.parts} \cup q.left = q.wanted

AnswerTrue(k) ==
    /\ PartsTrue(answer[k]) /\ answer[k].left = {} /\ answer[k].told = {}
    /\ answer[k].kind = k \/ answer[k] = NoQuery

QueryInv ==
    /\ bill \in [Minutes -> [AwsAccounts -> Costs]] /\ minute \in Minutes
    /\ \A e \in cached : EntryTrue(e)
    /\ query \in [Askers -> QueryRow] /\ \A x \in Askers : PartsTrue(query[x])
    /\ answer \in [Kinds -> QueryRow] /\ \A k \in Kinds : AnswerTrue(k)

LEMMA NoQueryTrue == NoQuery \in QueryRow /\ PartsTrue(NoQuery)
<1>1. AnyMethod \in Methods
  BY BillingAssumption DEF AnyMethod
<1>2. NoQuery \in QueryRow
  BY <1>1 DEF NoQuery, QueryRow, Kinds, Groupings
<1>3. PartsTrue(NoQuery)
  BY DEF NoQuery, PartsTrue
<1>4. QED
  BY <1>2, <1>3

LEMMA QueriesBegin == BillingInit => QueryInv
<1> SUFFICES ASSUME BillingInit PROVE QueryInv
  OBVIOUS
<1>1. minute \in Minutes
  <2>1. minute = 0
    BY DEF BillingInit
  <2>2. QED
    BY <2>1, BillingAssumption DEF Minutes
<1>2. query \in [Askers -> QueryRow] /\ answer \in [Kinds -> QueryRow]
  BY NoQueryTrue DEF BillingInit
<1>3. \A x \in Askers : PartsTrue(query[x])
  BY NoQueryTrue DEF BillingInit
<1>4. NoQuery.left = {} /\ NoQuery.told = {}
  BY DEF NoQuery
<1>5. \A k \in Kinds : AnswerTrue(k)
  BY <1>4, NoQueryTrue DEF BillingInit, AnswerTrue
<1>6. QED
  BY <1>1, <1>2, <1>3, <1>5 DEF BillingInit, QueryInv

(* What is true stays true while the costs stay and time passes.           *)
LEMMA TruthKept ==
    ASSUME QueryInv, bill' = bill, minute' \in Minutes, minute' >= minute
    PROVE  /\ \A q \in QueryRow : PartsTrue(q) => PartsTrue(q)'
           /\ \A e : EntryTrue(e) => EntryTrue(e)'
<1>0. minute \in Int /\ minute' \in Int /\ Minutes \subseteq Int
  BY BillingAssumption DEF QueryInv, Minutes
<1>1. \A p : AsTold(p) => AsTold(p)'
  BY DEF AsTold
<1>2. \A e : EntryTrue(e) => EntryTrue(e)'
  <2> SUFFICES ASSUME NEW e, EntryTrue(e) PROVE EntryTrue(e)'
    OBVIOUS
  <2>1. e.part.kept \in Nat
    BY DEF EntryTrue, PartRow
  <2>2. QED
    BY <1>0, <1>1, <2>1 DEF EntryTrue
<1>3. \A q \in QueryRow : PartsTrue(q) => PartsTrue(q)'
  <2> SUFFICES ASSUME NEW q \in QueryRow, PartsTrue(q) PROVE PartsTrue(q)'
    OBVIOUS
  <2>1. \A p \in q.parts : PartTrue(p, q)'
    BY <1>1 DEF PartsTrue, PartTrue
  <2>2. ASSUME NEW p \in q.told PROVE ToldTrue(p, q)'
    <3>1. p.at \in Int
      BY <1>0 DEF QueryRow, PartRow
    <3>2. QED
      BY <1>0, <1>1, <3>1 DEF PartsTrue, ToldTrue
  <2>3. QED
    BY <2>1, <2>2 DEF PartsTrue
<1>4. QED
  BY <1>2, <1>3

(* One query goes on, or is given up.                                      *)
LEMMA QueryGoesOn ==
    ASSUME QueryInv, NEW x \in Askers, NEW q \in QueryRow, PartsTrue(q),
           query' = [query EXCEPT ![x] = q], bill' = bill, minute' = minute,
           \A e \in cached' : EntryTrue(e),
           answer' = answer
           \/ \E k \in Kinds : \E o \in QueryRow :
                 /\ answer' = [answer EXCEPT ![k] = o] /\ PartsTrue(o)
                 /\ o.left = {} /\ o.told = {} /\ o.kind = k
    PROVE  QueryInv'
<1>1. minute' \in Minutes /\ minute' >= minute
  BY BillingAssumption DEF QueryInv, Minutes
<1>2. /\ \A o \in QueryRow : PartsTrue(o) => PartsTrue(o)'
      /\ \A e : EntryTrue(e) => EntryTrue(e)'
  BY <1>1, TruthKept
<1>3. query' \in [Askers -> QueryRow] /\ \A y \in Askers : PartsTrue(query'[y])
  BY DEF QueryInv
<1>4. /\ answer' \in [Kinds -> QueryRow]
      /\ \A k \in Kinds : /\ PartsTrue(answer'[k]) /\ answer'[k].left = {} /\ answer'[k].told = {}
                          /\ answer'[k].kind = k \/ answer'[k] = NoQuery
  BY DEF QueryInv, AnswerTrue
<1>5. \A y \in Askers : PartsTrue(query[y])'
  BY <1>2, <1>3
<1>6. \A k \in Kinds : AnswerTrue(k)'
  <2> TAKE k \in Kinds
  <2>1. PartsTrue(answer[k])'
    BY <1>2, <1>4
  <2>2. NoQuery' = NoQuery
    BY DEF NoQuery, AnyMethod
  <2>3. QED
    BY <1>4, <2>1, <2>2 DEF AnswerTrue
<1>7. QED
  BY <1>1, <1>2, <1>3, <1>4, <1>5, <1>6 DEF QueryInv

(* One more account is answered, from the cache or from the provider.      *)
LEMMA PartAdded ==
    ASSUME NEW q \in QueryRow, PartsTrue(q), NEW p \in PartRow, PartTrue(p, q),
           p.account \in q.left,
           NEW r, r = [q EXCEPT !.left = @ \ {p.account}, !.told = {}, !.parts = @ \cup {p}]
    PROVE  r \in QueryRow /\ PartsTrue(r)
<1>1. /\ r.step = q.step /\ r.kind = q.kind /\ r.grouping = q.grouping /\ r.method = q.method
      /\ r.wanted = q.wanted /\ r.left = q.left \ {p.account} /\ r.told = {}
      /\ r.parts = q.parts \cup {p}
  BY DEF QueryRow
<1>2. r \in QueryRow
  <2>1. r = [step |-> q.step, kind |-> q.kind, grouping |-> q.grouping, method |-> q.method,
             wanted |-> q.wanted, left |-> q.left \ {p.account}, told |-> {},
             parts |-> q.parts \cup {p}]
    BY DEF QueryRow
  <2>2. /\ q.step \in {"idle", "asking", "answered"} /\ q.kind \in Kinds
        /\ q.grouping \in Groupings /\ q.method \in Methods /\ q.wanted \in SUBSET AwsAccounts
        /\ q.left \ {p.account} \in SUBSET AwsAccounts /\ q.parts \cup {p} \in SUBSET PartRow
    BY DEF QueryRow
  <2>3. QED
    BY <2>1, <2>2 DEF QueryRow
<1>3. \A o \in r.parts : PartTrue(o, r) /\ o.account \notin r.left
  BY <1>1 DEF PartsTrue, PartTrue
<1>4. \A o \in q.parts : o.account # p.account
  BY DEF PartsTrue
<1>5. \A o, s \in r.parts : o.account = s.account => o = s
  BY <1>1, <1>4 DEF PartsTrue
<1>6. {o.account : o \in r.parts} \cup r.left = r.wanted
  BY <1>1 DEF PartsTrue
<1>7. QED
  BY <1>1, <1>2, <1>3, <1>5, <1>6 DEF PartsTrue

(* What an account costs in a bucket is a sum, and so are rows of any kind. *)
LEMMA InAllIsSum ==
    ASSUME NEW c \in Costs, NEW b \in Buckets
    PROVE  InAll(c, b) = Sum(c[b].cost, Services) /\ InAll(c, b) \in Int
<1> DEFINE f == c[b].cost
<1>0. f \in [Services -> Int]
  BY DEF Costs
<1>1. InAll(c, b) =
        (CHOOSE g : g = [t \in SUBSET Services |->
             IF t = {} THEN 0 ELSE c[b].cost[Pick(t)] + g[t \ {Pick(t)}]])[Services]
  BY DEF InAll, MapThenSumSet, MapThenFoldSet, Pick
<1>2. \A g : (g = [t \in SUBSET Services |->
                     IF t = {} THEN 0 ELSE c[b].cost[Pick(t)] + g[t \ {Pick(t)}]])
             <=> IsFold(f, Services, g)
  BY DEF IsFold
<1>3. InAll(c, b) = Sum(f, Services)
  BY <1>1, <1>2 DEF Sum
<1>4. Sum(f, Services) \in Int
  <2>1. \A s \in Services : f[s] \in Int
    BY <1>0
  <2> HIDE DEF f
  <2>2. QED
    BY <2>1, BillingAssumption, SumType
<1>5. QED
  BY <1>3, <1>4

LEMMA ToldIsRows ==
    ASSUME NEW c \in Costs, NEW g \in Groupings
    PROVE  Told(c, g) \in SUBSET CostRow
<1>1. \A b \in Buckets : InAll(c, b) \in Int /\ c[b].estimated \in BOOLEAN
  BY InAllIsSum DEF Costs
<1>2. \A b \in Buckets : CostLine(c, b, "none", InAll(c, b)) \in CostRow
  BY <1>1 DEF CostLine, CostRow
<1>3. \A b \in Buckets : \A s \in Services : CostLine(c, b, s, c[b].cost[s]) \in CostRow
  BY <1>1 DEF CostLine, CostRow, Costs
<1>4. CASE g = "NONE"
  BY <1>2, <1>4 DEF Told
<1>5. CASE g # "NONE"
  <2>1. Told(c, g) = UNION {{CostLine(c, b, s, c[b].cost[s]) : s \in {r \in Services : c[b].cost[r] # 0}}
                             : b \in Buckets}
    BY <1>5 DEF Told
  <2>2. QED
    BY <1>3, <2>1
<1>6. QED
  BY <1>4, <1>5

LEMMA QueryStep == QueryInv /\ ProfileInv /\ [BillingNext]_billingVars => QueryInv'
<1> SUFFICES ASSUME QueryInv, ProfileInv, [BillingNext]_billingVars PROVE QueryInv'
  OBVIOUS
<1>0. /\ AnyMethod \in Methods /\ minute \in Minutes /\ Minutes \subseteq Nat
      /\ bill \in [Minutes -> [AwsAccounts -> Costs]] /\ Ttl \in Nat /\ Ttl > 0
      /\ query \in [Askers -> QueryRow]
  BY BillingAssumption DEF AnyMethod, QueryInv, Minutes
<1>1. ASSUME NEW x \in Askers, QueryBegins(x) PROVE QueryInv'
  <2>1. PICK p \in {DefaultProfile} \cup {q \in Stored : profile[q].enabled},
             wanted \in SUBSET AwsAccounts \ {{}}, kind \in Kinds, grouping \in {"NONE", "SERVICE"} :
          /\ kind = "summary" => grouping = "NONE"
          /\ query' = [query EXCEPT ![x] =
                          [step |-> "asking", kind |-> kind, grouping |-> grouping,
                           method |-> MethodOf(p), wanted |-> wanted, left |-> wanted,
                           told |-> {}, parts |-> {}]]
    BY <1>1 DEF QueryBegins
  <2>2. MethodOf(p) \in Methods
    <3>1. p = 0 \/ p \in Profiles
      BY BillingAssumption DEF DefaultProfile, Stored, Defaults
    <3>2. \A q \in Profiles : profile[q].method \in Methods
      BY DEF ProfileInv, ProfileRowsOK, ProfileRow
    <3>3. QED
      BY <1>0, <3>1, <3>2 DEF MethodOf
  <2> DEFINE q == [step |-> "asking", kind |-> kind, grouping |-> grouping,
                   method |-> MethodOf(p), wanted |-> wanted, left |-> wanted,
                   told |-> {}, parts |-> {}]
  <2>3. q \in QueryRow
    BY <2>2 DEF QueryRow, Groupings
  <2>4. PartsTrue(q)
    BY <2>1 DEF PartsTrue
  <2>5. query' = [query EXCEPT ![x] = q]
    BY <2>1
  <2> HIDE DEF q
  <2>6. QED
    BY <1>1, <2>3, <2>4, <2>5, QueryGoesOn DEF QueryBegins, profileVars, QueryInv
<1>2. ASSUME NEW x \in Askers, NEW a \in AwsAccounts, FetchFails(x, a) PROVE QueryInv'
  BY <1>2, NoQueryTrue, QueryGoesOn DEF FetchFails, Failed, QueryInv
<1>3. ASSUME NEW x \in Askers, QueryAnswers(x) PROVE QueryInv'
  <2>1. PICK o : o = [query[x] EXCEPT !.step = "answered"]
    OBVIOUS
  <2>2. query[x] \in QueryRow /\ PartsTrue(query[x])
    BY DEF QueryInv
  <2>3. /\ o.kind = query[x].kind /\ o.grouping = query[x].grouping
        /\ o.method = query[x].method /\ o.wanted = query[x].wanted /\ o.left = query[x].left
        /\ o.told = query[x].told /\ o.parts = query[x].parts
    BY <2>1, <2>2 DEF QueryRow
  <2>4. o \in QueryRow
    BY <2>1, <2>2 DEF QueryRow
  <2>5. PartsTrue(o)
    BY <2>2, <2>3 DEF PartsTrue, PartTrue, ToldTrue
  <2>6. o.left = {} /\ o.told = {} /\ o.kind \in Kinds
    BY <1>3, <2>2, <2>3 DEF QueryAnswers, QueryRow
  <2>7. answer' = [answer EXCEPT ![o.kind] = o]
    BY <1>3, <2>1, <2>3 DEF QueryAnswers
  <2>8. /\ query' = [query EXCEPT ![x] = NoQuery] /\ bill' = bill /\ minute' = minute
        /\ cached' = cached
    BY <1>3 DEF QueryAnswers
  <2>9. \A e \in cached' : EntryTrue(e)
    BY <2>8 DEF QueryInv
  <2>10. QED
    BY <2>4, <2>5, <2>6, <2>7, <2>8, <2>9, NoQueryTrue, QueryGoesOn
<1>4. ASSUME NEW x \in Askers, NEW a \in AwsAccounts, UseCached(x, a) PROVE QueryInv'
  <2>0. query[x] \in QueryRow /\ PartsTrue(query[x])
    BY DEF QueryInv
  <2>1. PICK e \in KeptParts(x, a) :
           query' = [query EXCEPT ![x].left = @ \ {a},
                                  ![x].parts = @ \cup {[e.part EXCEPT !.used = minute]}]
    BY <1>4 DEF UseCached
  <2>2. /\ EntryTrue(e) /\ e.key = <<a, query[x].method, query[x].grouping>>
        /\ minute < e.until
    BY DEF KeptParts, CacheKey, QueryInv
  <2>3. /\ e.part \in PartRow /\ e.part.account = a /\ e.part.method = query[x].method
        /\ e.part.grouping = query[x].grouping /\ AsTold(e.part)
        /\ e.part.at <= e.part.kept /\ e.part.kept <= minute /\ minute < e.part.kept + Ttl
    BY <2>2 DEF EntryTrue
  <2>4. PICK p : p = [e.part EXCEPT !.used = minute]
    OBVIOUS
  <2>5. /\ p \in PartRow /\ p.account = a /\ p.method = e.part.method
        /\ p.grouping = e.part.grouping /\ p.rows = e.part.rows
        /\ p.used = minute /\ p.at = e.part.at /\ p.kept = e.part.kept
    BY <1>0, <2>3, <2>4 DEF PartRow
  <2>6. PartTrue(p, query[x])
    BY <2>3, <2>5 DEF PartTrue, AsTold
  <2>7. /\ a \in query[x].left /\ query[x].told = {} /\ bill' = bill /\ cached' = cached
        /\ answer' = answer /\ minute' = minute
    BY <1>4 DEF UseCached
  <2>8. PICK r : r = [query[x] EXCEPT !.left = @ \ {p.account}, !.told = {}, !.parts = @ \cup {p}]
    OBVIOUS
  <2>9. query' = [query EXCEPT ![x] = r]
    <3>1. r = [query[x] EXCEPT !.left = @ \ {a}, !.parts = @ \cup {p}]
      BY <2>0, <2>5, <2>7, <2>8 DEF QueryRow
    <3>2. QED
      BY <1>0, <2>1, <2>4, <3>1
  <2>10. r \in QueryRow /\ PartsTrue(r)
    BY <2>0, <2>5, <2>6, <2>7, <2>8, PartAdded
  <2>11. \A d \in cached' : EntryTrue(d)
    BY <2>7 DEF QueryInv
  <2>12. QED
    BY <2>7, <2>9, <2>10, <2>11, QueryGoesOn
<1>5. ASSUME NEW x \in Askers, NEW a \in AwsAccounts, Fetch(x, a) PROVE QueryInv'
  <2>0. query[x] \in QueryRow /\ PartsTrue(query[x])
    BY DEF QueryInv
  <2>1. PICK p : p = [account |-> a, method |-> query[x].method,
                      grouping |-> query[x].grouping, at |-> minute, kept |-> minute,
                      used |-> minute, rows |-> Told(bill[minute][a], query[x].grouping)]
    OBVIOUS
  <2>2. p \in PartRow
    <3>1. query[x].method \in Methods /\ query[x].grouping \in Groupings
      BY <2>0 DEF QueryRow
    <3>2. bill[minute][a] \in Costs
      BY <1>0
    <3>3. Told(bill[minute][a], query[x].grouping) \in SUBSET CostRow
      BY <3>1, <3>2, ToldIsRows
    <3>4. QED
      BY <1>0, <2>1, <3>1, <3>3 DEF PartRow
  <2>3. PICK r : r = [query[x] EXCEPT !.told = {p}]
    OBVIOUS
  <2>4. /\ query' = [query EXCEPT ![x] = r] /\ a \in query[x].left /\ bill' = bill
        /\ cached' = cached /\ answer' = answer /\ minute' = minute
    BY <1>0, <1>5, <2>1, <2>3 DEF Fetch
  <2>5. /\ r.kind = query[x].kind /\ r.grouping = query[x].grouping
        /\ r.method = query[x].method /\ r.wanted = query[x].wanted
        /\ r.left = query[x].left /\ r.told = {p} /\ r.parts = query[x].parts
    BY <2>0, <2>3 DEF QueryRow
  <2>6. r \in QueryRow
    <3>1. {p} \in SUBSET PartRow
      BY <2>2
    <3>2. QED
      BY <2>0, <2>3, <3>1 DEF QueryRow
  <2>7. ToldTrue(p, r)
    <3>1. /\ p.method = query[x].method /\ p.grouping = query[x].grouping /\ p.at = minute
          /\ p.account = a /\ p.rows = Told(bill[minute][a], query[x].grouping)
      BY <2>1
    <3>2. QED
      BY <1>0, <2>4, <2>5, <3>1 DEF ToldTrue, AsTold
  <2>8. \A o \in r.parts : PartTrue(o, r)
    BY <2>0, <2>5 DEF PartsTrue, PartTrue
  <2>9. PartsTrue(r)
    BY <2>0, <2>5, <2>7, <2>8 DEF PartsTrue
  <2>10. \A d \in cached' : EntryTrue(d)
    BY <2>4 DEF QueryInv
  <2>11. QED
    BY <2>4, <2>6, <2>9, <2>10, QueryGoesOn
<1>6. ASSUME NEW x \in Askers, KeepFetched(x) PROVE QueryInv'
  <2>0. query[x] \in QueryRow /\ PartsTrue(query[x])
    BY DEF QueryInv
  <2>0a. PICK fetched \in query[x].told :
          LET k == CacheKey(fetched.account, fetched.method, fetched.grouping)
              part == [fetched EXCEPT !.kept = minute, !.used = minute]
          IN /\ cached' = {e \in cached : e.key # k}
                          \cup {[key |-> k, part |-> part, until |-> minute + Ttl]}
             /\ query' = [query EXCEPT ![x].left = @ \ {fetched.account}, ![x].told = {},
                                       ![x].parts = @ \cup {part}]
    BY <1>6 DEF KeepFetched
  <2>0b. PICK key, p :
           /\ key = CacheKey(fetched.account, fetched.method, fetched.grouping)
           /\ p = [fetched EXCEPT !.kept = minute, !.used = minute]
    OBVIOUS
  <2>1. /\ key = CacheKey(fetched.account, fetched.method, fetched.grouping)
        /\ p = [fetched EXCEPT !.kept = minute, !.used = minute]
        /\ cached' = {e \in cached : e.key # key}
                     \cup {[key |-> key, part |-> p, until |-> minute + Ttl]}
        /\ query' = [query EXCEPT ![x].left = @ \ {fetched.account}, ![x].told = {},
                                  ![x].parts = @ \cup {p}]
    BY <2>0a, <2>0b
  <2>2. fetched \in PartRow /\ ToldTrue(fetched, query[x])
    BY <2>0 DEF QueryRow, PartsTrue
  <2>3. /\ p \in PartRow /\ p.account = fetched.account /\ p.method = fetched.method
        /\ p.grouping = fetched.grouping /\ p.rows = fetched.rows /\ p.at = fetched.at
        /\ p.kept = minute /\ p.used = minute
    BY <1>0, <2>1, <2>2 DEF PartRow
  <2>4. AsTold(p) /\ p.at <= minute /\ p.account \in query[x].left
    BY <2>2, <2>3 DEF ToldTrue, AsTold
  <2>5. PartTrue(p, query[x])
    BY <1>0, <2>2, <2>3, <2>4 DEF PartTrue, ToldTrue
  <2>6. PICK r : r = [query[x] EXCEPT !.left = @ \ {p.account}, !.told = {}, !.parts = @ \cup {p}]
    OBVIOUS
  <2>7. query' = [query EXCEPT ![x] = r]
    BY <1>0, <2>1, <2>3, <2>6
  <2>8. r \in QueryRow /\ PartsTrue(r)
    BY <2>0, <2>3, <2>4, <2>5, <2>6, PartAdded
  <2>9. ASSUME NEW e \in cached' PROVE EntryTrue(e)
    <3>1. CASE e \in cached
      BY <3>1 DEF QueryInv
    <3>2. CASE e = [key |-> key, part |-> p, until |-> minute + Ttl]
      <4>1. /\ e.part = p /\ e.key = <<p.account, p.method, p.grouping>>
            /\ e.until = minute + Ttl
        BY <2>1, <2>3, <3>2 DEF CacheKey
      <4>2. QED
        BY <1>0, <2>3, <2>4, <4>1 DEF EntryTrue
    <3>3. QED
      BY <2>1, <3>1, <3>2
  <2>10. bill' = bill /\ minute' = minute /\ answer' = answer
    BY <1>6 DEF KeepFetched
  <2>11. QED
    BY <2>7, <2>8, <2>9, <2>10, QueryGoesOn
<1>7. ASSUME bill' = bill, cached' = cached, query' = query, answer' = answer,
             minute' \in Minutes, minute' >= minute
      PROVE  QueryInv'
  <2>1. /\ \A o \in QueryRow : PartsTrue(o) => PartsTrue(o)'
        /\ \A e : EntryTrue(e) => EntryTrue(e)'
    BY <1>7, TruthKept
  <2>2. \A y \in Askers : PartsTrue(query[y])'
    BY <1>0, <1>7, <2>1 DEF QueryInv
  <2>3. \A k \in Kinds : AnswerTrue(k)'
    <3> TAKE k \in Kinds
    <3>1. answer[k] \in QueryRow /\ AnswerTrue(k)
      BY DEF QueryInv
    <3>2. PartsTrue(answer[k])'
      BY <1>7, <2>1, <3>1 DEF AnswerTrue
    <3>3. NoQuery' = NoQuery
      BY DEF NoQuery, AnyMethod
    <3>4. QED
      BY <1>7, <3>1, <3>2, <3>3 DEF AnswerTrue
  <2>4. QED
    BY <1>0, <1>7, <2>1, <2>2, <2>3 DEF QueryInv
<1>8. ASSUME MinutePasses PROVE QueryInv'
  <2>1. minute' \in Minutes /\ minute' >= minute
    BY <1>8, BillingAssumption DEF MinutePasses, Minutes, QueryInv
  <2>2. QED
    BY <1>7, <1>8, <2>1 DEF MinutePasses
<1>9. CASE UNCHANGED queryVars
  <2>1. minute' = minute /\ minute >= minute
    BY <1>0, <1>9 DEF queryVars
  <2>2. QED
    BY <1>0, <1>7, <1>9, <2>1 DEF queryVars
<1>10. \/ UNCHANGED queryVars
       \/ MinutePasses
       \/ \E x \in Askers :
             \/ QueryBegins(x) \/ KeepFetched(x) \/ QueryAnswers(x)
             \/ \E a \in AwsAccounts : UseCached(x, a) \/ Fetch(x, a) \/ FetchFails(x, a)
  BY DEF BillingNext, billingVars, queryVars, EnsureLooks, EnsureInserts, CreateLocks, CreatePlain,
         CreateCommits, SetDefaultLocks, SetDefaultCommits, LockProfiles, DeactivateLooks,
         DeactivateWrites, ChangeFails, UpdateProfile
<1>11. QED
  BY <1>1, <1>2, <1>3, <1>4, <1>5, <1>6, <1>8, <1>9, <1>10

(* What a query answers is what it asked: of every account it was asked    *)
(* about, of each once, what Cost Explorer told of it, and no older than it *)
(* may be, whatever other queries had put into the cache of the process     *)
(* (aws_billing.py).                                                       *)
THEOREM AnsweredAsAsked == BillingSpec => []AnswersAsAsked
<1>1. BillingInit => ProfileInv /\ QueryInv
  BY ProfilesBegin, QueriesBegin
<1>2. ProfileInv /\ QueryInv /\ [BillingNext]_billingVars => (ProfileInv /\ QueryInv)'
  BY ProfileStep, QueryStep
<1>3. QueryInv => AnswersAsAsked
  <2> SUFFICES ASSUME QueryInv, NEW k \in Kinds
               PROVE  LET q == answer[k]
                      IN /\ {p.account : p \in q.parts} = q.wanted
                         /\ \A p, o \in q.parts : o.account = p.account => o = p
                         /\ \A p \in q.parts :
                               /\ p.method = q.method
                               /\ p.rows = Told(bill[p.at][p.account], q.grouping)
                               /\ p.at <= p.kept /\ p.kept <= p.used /\ p.used < p.kept + Ttl
    BY DEF AnswersAsAsked
  <2>1. PartsTrue(answer[k]) /\ answer[k].left = {}
    BY DEF QueryInv, AnswerTrue
  <2>2. QED
    BY <2>1 DEF PartsTrue, PartTrue, AsTold
<1>4. QED
  BY <1>1, <1>2, <1>3, PTL DEF BillingSpec

-----------------------------------------------------------------------------
(* What is made of an answer: sums of finitely many rows, in parts.        *)

(* What any rows, points or groups amount to.                              *)
LEMMA AmountsAreSum ==
    ASSUME NEW S
    PROVE  MapThenSumSet(LAMBDA x : x.amount, S) = Sum([x \in S |-> x.amount], S)
<1> DEFINE f == [x \in S |-> x.amount]
<1>1. MapThenSumSet(LAMBDA x : x.amount, S) =
        (CHOOSE g : g = [t \in SUBSET S |->
             IF t = {} THEN 0 ELSE Pick(t).amount + g[t \ {Pick(t)}]])[S]
  BY DEF MapThenSumSet, MapThenFoldSet, Pick
<1>2. \A t \in SUBSET S : t # {} => f[Pick(t)] = Pick(t).amount
  BY Picked
<1>3. \A g : (g = [t \in SUBSET S |->
                     IF t = {} THEN 0 ELSE Pick(t).amount + g[t \ {Pick(t)}]])
             <=> IsFold(f, S, g)
  BY <1>2 DEF IsFold
<1>4. QED
  BY <1>1, <1>3 DEF Sum

LEMMA AmountIsSum ==
    ASSUME NEW R
    PROVE  Amount(R) = Sum([x \in R |-> x[2].amount], R)
<1> DEFINE f == [x \in R |-> x[2].amount]
<1>1. Amount(R) =
        (CHOOSE g : g = [t \in SUBSET R |->
             IF t = {} THEN 0 ELSE Pick(t)[2].amount + g[t \ {Pick(t)}]])[R]
  BY DEF Amount, MapThenSumSet, MapThenFoldSet, Pick
<1>2. \A t \in SUBSET R : t # {} => f[Pick(t)] = Pick(t)[2].amount
  BY Picked
<1>3. \A g : (g = [t \in SUBSET R |->
                     IF t = {} THEN 0 ELSE Pick(t)[2].amount + g[t \ {Pick(t)}]])
             <=> IsFold(f, R, g)
  BY <1>2 DEF IsFold
<1>4. QED
  BY <1>1, <1>3 DEF Sum

(* Finitely many rows.                                                     *)
Countable(R) ==
    /\ IsFiniteSet(R)
    /\ \A x \in R : x[2].amount \in Int /\ x[2].bucket \in Buckets /\ x[2].estimated \in BOOLEAN

(* Some rows count by themselves as in the whole.                          *)
LEMMA PartAmount ==
    ASSUME NEW R, Countable(R), NEW T \in SUBSET R
    PROVE  /\ Countable(T) /\ Amount(T) \in Int
           /\ Amount(T) = Sum([x \in R |-> x[2].amount], T)
<1> DEFINE f == [x \in R |-> x[2].amount]
           g == [x \in T |-> x[2].amount]
<1>1. IsFiniteSet(T) /\ Countable(T)
  BY FS_Subset DEF Countable
<1>2. \A x \in T : f[x] \in Int /\ g[x] = f[x]
  BY DEF Countable
<1>3. Amount(T) = Sum(g, T)
  BY AmountIsSum
<1> HIDE DEF f, g
<1>4. Sum(g, T) = Sum(f, T)
  BY <1>1, <1>2, SumSame
<1>5. Sum(f, T) \in Int
  BY <1>1, <1>2, SumType
<1>6. QED
  BY <1>1, <1>3, <1>4, <1>5 DEF f

(* The groups of any rows add up to them.                                  *)
LEMMA GroupsAddUp ==
    ASSUME NEW R, Countable(R)
    PROVE  InSum(Groups(R)) = Amount(R)
<1> DEFINE S == {x[2].key : x \in R}
           m == [s \in S |-> [key |-> s, amount |-> Amount({x \in R : x[2].key = s}),
                              status |-> Status({x \in R : x[2].key = s})]]
           parts == [s \in S |-> Amount({x \in R : x[2].key = s})]
           f == [x \in R |-> x[2].amount]
           h == [x \in R |-> x[2].key]
           amounts == [x \in Groups(R) |-> x.amount]
<1>1. IsFiniteSet(R) /\ Amount(R) = Sum(f, R) /\ \A x \in R : f[x] \in Int
  BY PartAmount DEF Countable
<1>2. IsFiniteSet(S)
  <2>1. S = {h[x] : x \in R}
    OBVIOUS
  <2> HIDE DEF h, S
  <2>2. QED
    BY <1>1, <2>1, FiniteImage
<1>3. Groups(R) = {m[s] : s \in S}
  BY DEF Groups
<1>4. \A s \in S : parts[s] = Sum(f, {x \in R : h[x] = s}) /\ parts[s] \in Int
  <2> TAKE s \in S
  <2>1. {x \in R : h[x] = s} = {x \in R : x[2].key = s}
    OBVIOUS
  <2>2. {x \in R : x[2].key = s} \in SUBSET R
    OBVIOUS
  <2>3. QED
    BY <2>1, <2>2, PartAmount
<1>5. \A s \in S : amounts[m[s]] = parts[s]
  BY <1>3
<1>6. \A s, t \in S : m[s] = m[t] => s = t
  <2> TAKE s, t \in S
  <2> HAVE m[s] = m[t]
  <2>1. m[s].key = s /\ m[t].key = t
    OBVIOUS
  <2>2. QED
    BY <2>1
<1>7. \A x \in R : f[x] \in Int /\ h[x] \in S
  BY <1>1
<1>8. InSum(Groups(R)) = Sum(amounts, Groups(R))
  BY AmountsAreSum DEF InSum
<1> HIDE DEF S, m, parts, f, h, amounts
<1>9. Sum(amounts, {m[s] : s \in S}) = Sum(parts, S)
  <2>1. \A s \in S : parts[s] \in Int /\ amounts[m[s]] = parts[s]
    BY <1>4, <1>5
  <2>2. QED
    BY <1>2, <1>6, <2>1, SumMap
<1>10. Sum(parts, S) = Sum(f, R)
  BY <1>1, <1>2, <1>4, <1>7, SumParts
<1>11. QED
  BY <1>1, <1>3, <1>8, <1>9, <1>10

(* So do the points, one for each bucket.                                  *)
LEMMA PointsAddUp ==
    ASSUME NEW R, Countable(R), NEW grouping
    PROVE  InSum(Points(R, grouping)) = Amount(R)
<1> DEFINE G(b) == IF grouping = "NONE" THEN {} ELSE Groups(Of(R, b))
           m == [b \in Buckets |->
                    [bucket |-> b, amount |-> Amount(Of(R, b)), status |-> Status(Of(R, b)),
                     groups |-> G(b)]]
           parts == [b \in Buckets |-> Amount(Of(R, b))]
           f == [x \in R |-> x[2].amount]
           h == [x \in R |-> x[2].bucket]
           P == Points(R, grouping)
           amounts == [x \in P |-> x.amount]
<1>1. IsFiniteSet(R) /\ Amount(R) = Sum(f, R) /\ \A x \in R : f[x] \in Int
  BY PartAmount DEF Countable
<1>2. InSum(P) = Sum(amounts, P)
  BY AmountsAreSum DEF InSum
<1>3. CASE R = {}
  <2>1. P = {}
    BY <1>3 DEF Points
  <2> HIDE DEF f, amounts, P
  <2>2. QED
    BY <1>1, <1>2, <1>3, <2>1, SumOfNothing DEF P
<1>4. CASE R # {}
  <2>1. P = {m[b] : b \in Buckets}
    BY <1>4 DEF Points
  <2>2. \A b \in Buckets : parts[b] = Sum(f, {x \in R : h[x] = b}) /\ parts[b] \in Int
    <3> TAKE b \in Buckets
    <3>1. {x \in R : h[x] = b} = Of(R, b) /\ Of(R, b) \in SUBSET R
      BY DEF Of
    <3>2. QED
      BY <3>1, PartAmount
  <2>3. \A b \in Buckets : amounts[m[b]] = parts[b]
    BY <2>1
  <2>4. \A b, c \in Buckets : m[b] = m[c] => b = c
    <3> TAKE b, c \in Buckets
    <3> HAVE m[b] = m[c]
    <3>1. m[b].bucket = b /\ m[c].bucket = c
      OBVIOUS
    <3>2. QED
      BY <3>1
  <2>5. \A x \in R : f[x] \in Int /\ h[x] \in Buckets
    BY <1>1 DEF Countable
  <2>6. IsFiniteSet(Buckets)
    BY BillingAssumption
  <2> HIDE DEF m, parts, f, h, amounts, P
  <2>7. Sum(amounts, {m[b] : b \in Buckets}) = Sum(parts, Buckets)
    <3>1. \A b \in Buckets : parts[b] \in Int /\ amounts[m[b]] = parts[b]
      BY <2>2, <2>3
    <3>2. QED
      BY <2>4, <2>6, <3>1, SumMap
  <2>8. Sum(parts, Buckets) = Sum(f, R)
    BY <1>1, <2>2, <2>5, <2>6, SumParts
  <2>9. QED
    BY <1>1, <1>2, <2>1, <2>7, <2>8 DEF P
<1>5. QED
  BY <1>3, <1>4

(* What is told of an account adds up to what it costs, grouped or not.    *)
Total(c) == Sum([b \in Buckets |-> InAll(c, b)], Buckets)

LEMMA ToldPlain ==
    ASSUME NEW c \in Costs
    PROVE  /\ IsFiniteSet(Told(c, "NONE"))
           /\ Sum([r \in Told(c, "NONE") |-> r.amount], Told(c, "NONE")) = Total(c)
<1> DEFINE T == Told(c, "NONE")
           m == [b \in Buckets |-> CostLine(c, b, "none", InAll(c, b))]
           f == [b \in Buckets |-> InAll(c, b)]
           g == [r \in T |-> r.amount]
<1>1. T = {m[b] : b \in Buckets}
  BY DEF Told
<1>2. \A b \in Buckets : f[b] \in Int /\ g[m[b]] = f[b]
  BY <1>1, InAllIsSum DEF CostLine
<1>3. \A b, d \in Buckets : m[b] = m[d] => b = d
  <2> TAKE b, d \in Buckets
  <2> HAVE m[b] = m[d]
  <2>1. m[b].bucket = b /\ m[d].bucket = d
    BY DEF CostLine
  <2>2. QED
    BY <2>1
<1>4. Total(c) = Sum(f, Buckets)
  BY DEF Total
<1> HIDE DEF T, m, f, g
<1>5. IsFiniteSet({m[b] : b \in Buckets}) /\ Sum(g, {m[b] : b \in Buckets}) = Sum(f, Buckets)
  <2>1. IsFiniteSet(Buckets)
    BY BillingAssumption
  <2>2. \A b \in Buckets : f[b] \in Int /\ g[m[b]] = f[b]
    BY <1>2
  <2>3. Sum(g, {m[b] : b \in Buckets}) = Sum(f, Buckets)
    BY <1>3, <2>1, <2>2, SumMap
  <2>4. IsFiniteSet({m[b] : b \in Buckets})
    BY <2>1, FiniteImage
  <2>5. QED
    BY <2>3, <2>4
<1>6. QED
  BY <1>1, <1>4, <1>5 DEF T, g

Costly(c, b) == {s \in Services : c[b].cost[s] # 0}

(* Of one bucket: what costs nothing is not told, and adds nothing.        *)
LEMMA ToldOfBucket ==
    ASSUME NEW c \in Costs, NEW b \in Buckets, NEW T, NEW g,
           T = {CostLine(c, b, s, c[b].cost[s]) : s \in Costly(c, b)},
           \A r \in T : g[r] = r.amount
    PROVE  IsFiniteSet(T) /\ Sum(g, T) = InAll(c, b)
<1> DEFINE f == c[b].cost
           S == Costly(c, b)
           m == [s \in S |-> CostLine(c, b, s, c[b].cost[s])]
<1>1. f \in [Services -> Int] /\ S \in SUBSET Services
  BY DEF Costs, Costly
<1>2. IsFiniteSet(Services) /\ IsFiniteSet(S)
  BY <1>1, BillingAssumption, FS_Subset
<1>3. T = {m[s] : s \in S}
  OBVIOUS
<1>4. \A s \in S : f[s] \in Int /\ g[m[s]] = f[s]
  BY <1>1, <1>3 DEF CostLine
<1>5. \A s, t \in S : m[s] = m[t] => s = t
  <2> TAKE s, t \in S
  <2> HAVE m[s] = m[t]
  <2>1. m[s].key = s /\ m[t].key = t
    BY DEF CostLine
  <2>2. QED
    BY <2>1
<1>6. InAll(c, b) = Sum(f, Services)
  BY InAllIsSum
<1>7. \A s \in Services : f[s] \in Int
  BY <1>1
<1>8. \A s \in Services \ S : f[s] = 0
  BY DEF Costly
<1> HIDE DEF f, S, m
<1>9. Sum(f, Services) = Sum(f, S)
  BY <1>1, <1>2, <1>7, <1>8, SumWithout
<1>10. IsFiniteSet({m[s] : s \in S}) /\ Sum(g, {m[s] : s \in S}) = Sum(f, S)
  <2>1. \A s \in S : f[s] \in Int /\ g[m[s]] = f[s]
    BY <1>4
  <2>2. Sum(g, {m[s] : s \in S}) = Sum(f, S)
    BY <1>2, <1>5, <2>1, SumMap
  <2>3. IsFiniteSet({m[s] : s \in S})
    BY <1>2, FiniteImage
  <2>4. QED
    BY <2>2, <2>3
<1>11. QED
  BY <1>3, <1>6, <1>9, <1>10

LEMMA ToldGrouped ==
    ASSUME NEW c \in Costs
    PROVE  /\ IsFiniteSet(Told(c, "SERVICE"))
           /\ Sum([r \in Told(c, "SERVICE") |-> r.amount], Told(c, "SERVICE")) = Total(c)
<1> DEFINE T == Told(c, "SERVICE")
           InBucket(b) == {CostLine(c, b, s, c[b].cost[s]) : s \in Costly(c, b)}
           f == [r \in T |-> r.amount]
           h == [r \in T |-> r.bucket]
           g == [b \in Buckets |-> InAll(c, b)]
<1>1. T = UNION {InBucket(b) : b \in Buckets}
  BY DEF Told, Costly
<1>2. T \in SUBSET CostRow
  BY ToldIsRows DEF Groupings
<1>3. \A b \in Buckets : \A r \in InBucket(b) : r.bucket = b
  BY DEF CostLine
<1>4. \A b \in Buckets : {r \in T : h[r] = b} = InBucket(b)
  BY <1>1, <1>3
<1>5. \A b \in Buckets : IsFiniteSet(InBucket(b)) /\ Sum(f, InBucket(b)) = InAll(c, b)
  <2> TAKE b \in Buckets
  <2>1. \A r \in InBucket(b) : f[r] = r.amount
    BY <1>1
  <2>2. QED
    BY <2>1, ToldOfBucket
<1>6. IsFiniteSet(T)
  <2>1. IsFiniteSet({InBucket(b) : b \in Buckets})
    <3> DEFINE k == [b \in Buckets |-> InBucket(b)]
    <3>1. {InBucket(b) : b \in Buckets} = {k[b] : b \in Buckets}
      OBVIOUS
    <3> HIDE DEF k, InBucket
    <3>2. QED
      BY <3>1, BillingAssumption, FiniteImage
  <2>2. \A U \in {InBucket(b) : b \in Buckets} : IsFiniteSet(U)
    BY <1>5
  <2> HIDE DEF T, InBucket
  <2>3. QED
    BY <1>1, <2>1, <2>2, FS_UNION
<1>7. \A r \in T : f[r] \in Int /\ h[r] \in Buckets
  BY <1>2 DEF CostRow
<1>8. \A b \in Buckets : g[b] = Sum(f, {r \in T : h[r] = b})
  BY <1>4, <1>5
<1>9. Total(c) = Sum(g, Buckets)
  BY DEF Total
<1> HIDE DEF T, InBucket, f, h, g
<1>10. Sum(g, Buckets) = Sum(f, T)
  BY <1>6, <1>7, <1>8, BillingAssumption, SumParts
<1>11. QED
  BY <1>6, <1>9, <1>10 DEF T, f

LEMMA ToldInSum ==
    ASSUME NEW c \in Costs, NEW grouping \in Groupings
    PROVE  /\ IsFiniteSet(Told(c, grouping)) /\ Told(c, grouping) \in SUBSET CostRow
           /\ Sum([r \in Told(c, grouping) |-> r.amount], Told(c, grouping)) = Total(c)
<1>1. grouping = "NONE" \/ grouping = "SERVICE"
  BY DEF Groupings
<1>2. QED
  BY <1>1, ToldPlain, ToldGrouped, ToldIsRows

LEMMA TotalIsInt == ASSUME NEW c \in Costs PROVE Total(c) \in Int
<1> DEFINE f == [b \in Buckets |-> InAll(c, b)]
<1>1. \A b \in Buckets : f[b] \in Int
  BY InAllIsSum
<1>2. Total(c) = Sum(f, Buckets)
  BY DEF Total
<1> HIDE DEF f
<1>3. QED
  BY <1>1, <1>2, BillingAssumption, SumType

-----------------------------------------------------------------------------
(* An answer is of the costs that were told of each account.               *)

(* What a whole answer is of.                                              *)
Whole(q) ==
    /\ q \in QueryRow /\ PartsTrue(q) /\ q.left = {}

PartOf(q, a) == CHOOSE p \in q.parts : p.account = a
ToldOf(q, a) == bill[PartOf(q, a).at][a]

LEMMA WholeHasParts ==
    ASSUME NEW q, Whole(q), bill \in [Minutes -> [AwsAccounts -> Costs]], NEW a \in q.wanted
    PROVE  /\ PartOf(q, a) \in q.parts /\ PartOf(q, a).account = a
           /\ \A p \in q.parts : p.account = a => p = PartOf(q, a)
           /\ a \in AwsAccounts /\ ToldOf(q, a) \in Costs
           /\ PartOf(q, a).rows = Told(ToldOf(q, a), q.grouping)
<1>1. a \in {p.account : p \in q.parts}
  BY DEF Whole, PartsTrue
<1>2. PartOf(q, a) \in q.parts /\ PartOf(q, a).account = a
  BY <1>1 DEF PartOf
<1>3. a \in AwsAccounts /\ PartOf(q, a) \in PartRow
  BY <1>2 DEF Whole, QueryRow
<1>4. ToldOf(q, a) \in Costs
  BY <1>3 DEF ToldOf, PartRow
<1>5. PartOf(q, a).rows = Told(ToldOf(q, a), q.grouping)
  BY <1>2 DEF Whole, PartsTrue, PartTrue, AsTold, ToldOf
<1>6. QED
  BY <1>2, <1>3, <1>4, <1>5 DEF Whole, PartsTrue

(* Its rows of an account are what was told of that.                       *)
LEMMA RowsOfAccount ==
    ASSUME NEW q, Whole(q), bill \in [Minutes -> [AwsAccounts -> Costs]]
    PROVE  /\ \A x \in AnswerRows(q) : x[1] \in q.wanted
           /\ \A a \in q.wanted :
                 {x \in AnswerRows(q) : x[1] = a}
                     = {<<a, r>> : r \in Told(ToldOf(q, a), q.grouping)}
<1>1. \A p \in q.parts : p.account \in q.wanted
  BY DEF Whole, PartsTrue
<1>2. \A x : x \in AnswerRows(q) <=> \E p \in q.parts : \E r \in p.rows : x = <<p.account, r>>
  BY DEF AnswerRows
<1>3. ASSUME NEW a \in q.wanted
      PROVE  {x \in AnswerRows(q) : x[1] = a} = {<<a, r>> : r \in Told(ToldOf(q, a), q.grouping)}
  <2>1. /\ PartOf(q, a) \in q.parts /\ PartOf(q, a).account = a
        /\ \A p \in q.parts : p.account = a => p = PartOf(q, a)
        /\ PartOf(q, a).rows = Told(ToldOf(q, a), q.grouping)
    BY <1>3, WholeHasParts
  <2>2. ASSUME NEW x \in AnswerRows(q), x[1] = a
        PROVE  x \in {<<a, r>> : r \in Told(ToldOf(q, a), q.grouping)}
    BY <1>2, <2>1, <2>2
  <2>3. ASSUME NEW r \in Told(ToldOf(q, a), q.grouping)
        PROVE  <<a, r>> \in AnswerRows(q) /\ <<a, r>>[1] = a
    BY <1>2, <2>1, <2>3
  <2>4. QED
    BY <2>2, <2>3
<1>4. QED
  BY <1>1, <1>2, <1>3

LEMMA AnswerInSum ==
    ASSUME NEW q, Whole(q), bill \in [Minutes -> [AwsAccounts -> Costs]]
    PROVE  /\ Countable(AnswerRows(q))
           /\ Amount(AnswerRows(q)) = Sum([a \in q.wanted |-> Total(ToldOf(q, a))], q.wanted)
<1> DEFINE R == AnswerRows(q)
           Rows(a) == {<<a, r>> : r \in Told(ToldOf(q, a), q.grouping)}
           f == [x \in R |-> x[2].amount]
           h == [x \in R |-> x[1]]
           g == [a \in q.wanted |-> Total(ToldOf(q, a))]
           W == q.wanted
<1>0. q.grouping \in Groupings /\ W \in SUBSET AwsAccounts
  BY DEF Whole, QueryRow
<1>1. IsFiniteSet(W)
  BY <1>0, BillingAssumption, FS_Subset
<1>2. \A x \in R : h[x] \in W
  BY RowsOfAccount
<1>3. \A a \in W : {x \in R : h[x] = a} = Rows(a)
  BY RowsOfAccount
<1>4. \A a \in W : \A x \in Rows(a) : x \in R
  BY <1>3
<1>5. ASSUME NEW a \in W
      PROVE  /\ IsFiniteSet(Rows(a)) /\ Sum(f, Rows(a)) = g[a]
             /\ \A x \in Rows(a) : x[2] \in CostRow
  <2> DEFINE T == Told(ToldOf(q, a), q.grouping)
             m == [r \in T |-> <<a, r>>]
             k == [r \in T |-> r.amount]
  <2>1. ToldOf(q, a) \in Costs
    BY <1>5, WholeHasParts
  <2>2. IsFiniteSet(T) /\ T \in SUBSET CostRow /\ Sum(k, T) = Total(ToldOf(q, a))
    BY <1>0, <2>1, ToldInSum
  <2>3. Rows(a) = {m[r] : r \in T} /\ \A x \in Rows(a) : x[2] \in CostRow
    BY <2>2
  <2>4. \A r \in T : k[r] \in Int /\ f[m[r]] = k[r]
    BY <1>4, <1>5, <2>2, <2>3 DEF CostRow
  <2>5. \A r, s \in T : m[r] = m[s] => r = s
    OBVIOUS
  <2>6. g[a] = Total(ToldOf(q, a))
    BY <1>5
  <2> HIDE DEF T, m, k, f, g, Rows
  <2>7. IsFiniteSet({m[r] : r \in T}) /\ Sum(f, {m[r] : r \in T}) = Sum(k, T)
    BY <2>2, <2>4, <2>5, SumMap
  <2>8. QED
    BY <2>2, <2>3, <2>6, <2>7
<1>6. \A x \in R : x[2] \in CostRow
  <2> TAKE x \in R
  <2>1. x \in Rows(h[x]) /\ h[x] \in W
    BY <1>2, <1>3
  <2> HIDE DEF R, Rows, h, W
  <2>2. QED
    BY <1>5, <2>1
<1>7. R = UNION {Rows(a) : a \in W}
  <2> HIDE DEF R, Rows, W
  <2>1. \A x \in R : x \in Rows(h[x]) /\ h[x] \in W
    BY <1>2, <1>3
  <2>2. QED
    BY <1>4, <2>1
<1>8. IsFiniteSet(R)
  <2>1. IsFiniteSet({Rows(a) : a \in W})
    <3> DEFINE k == [a \in W |-> Rows(a)]
    <3>1. {Rows(a) : a \in W} = {k[a] : a \in W}
      OBVIOUS
    <3> HIDE DEF k, Rows, W
    <3>2. QED
      BY <1>1, <3>1, FiniteImage
  <2>2. \A U \in {Rows(a) : a \in W} : IsFiniteSet(U)
    BY <1>5
  <2> HIDE DEF R, Rows, W
  <2>3. QED
    BY <1>7, <2>1, <2>2, FS_UNION
<1>9. Countable(R)
  BY <1>6, <1>8 DEF Countable, CostRow
<1>10. Amount(R) = Sum(f, R) /\ \A x \in R : f[x] \in Int
  BY <1>9, PartAmount DEF Countable
<1>11. \A a \in W : g[a] = Sum(f, {x \in R : h[x] = a})
  BY <1>3, <1>5
<1> HIDE DEF R, f, h, g, W
<1>12. Sum(g, W) = Sum(f, R)
  BY <1>1, <1>2, <1>8, <1>10, <1>11, SumParts, SMTT(60)
<1>13. QED
  BY <1>9, <1>10, <1>12 DEF R, g, W

(* Whatever an answer is: its results add up to its rows.                  *)
LEMMA ResultInSum ==
    ASSUME NEW q, q.kind \in Kinds, Countable(AnswerRows(q))
    PROVE  InSum(Result(q)) = Amount(AnswerRows(q))
<1> DEFINE R == AnswerRows(q)
<1>1. CASE q.kind = "summary"
  <2> DEFINE s == [amount |-> Amount(R), status |-> Status(R)]
             f == [x \in {s} |-> x.amount]
  <2>1. Result(q) = {s}
    BY <1>1 DEF Result, Summary
  <2>2. InSum({s}) = Sum(f, {s})
    BY AmountsAreSum DEF InSum
  <2>3. f[s] = Amount(R) /\ Amount(R) \in Int
    BY PartAmount
  <2> HIDE DEF f, s, R
  <2>4. Sum(f, {} \cup {s}) = f[s] + Sum(f, {})
    BY <2>3, FS_EmptySet, SumAdd
  <2>5. Sum(f, {}) = 0 /\ {} \cup {s} = {s}
    BY SumOfNothing
  <2>6. QED
    BY <2>1, <2>2, <2>3, <2>4, <2>5 DEF R
<1>2. CASE q.kind = "series"
  BY <1>2, PointsAddUp DEF Result
<1>3. CASE q.kind = "breakdown"
  BY <1>3, GroupsAddUp DEF Result, BreakdownItems
<1>4. QED
  BY <1>1, <1>2, <1>3 DEF Kinds

(* Answers to one question, told of the same costs.                        *)
LEMMA SameTold ==
    ASSUME NEW q, NEW o, Whole(q), Whole(o), bill \in [Minutes -> [AwsAccounts -> Costs]],
           SameQuestion(q, o), SameCosts(q, o)
    PROVE  q.wanted = o.wanted /\ \A a \in q.wanted : ToldOf(q, a) = ToldOf(o, a)
<1>1. q.wanted = o.wanted
  BY DEF SameQuestion
<1>2. ASSUME NEW a \in q.wanted PROVE ToldOf(q, a) = ToldOf(o, a)
  <2>1. /\ PartOf(q, a) \in q.parts /\ PartOf(q, a).account = a
        /\ PartOf(o, a) \in o.parts /\ PartOf(o, a).account = a
    BY <1>1, <1>2, WholeHasParts
  <2>2. QED
    BY <2>1 DEF SameCosts, ToldOf
<1>3. QED
  BY <1>1, <1>2

(* Nothing is an estimate in a summary that is actual, nor in what else is *)
(* told of the same costs.                                                 *)
Certain(R) == \A x \in R : x[2].estimated = FALSE

LEMMA ActualIsCertain ==
    ASSUME NEW R, Countable(R)
    PROVE  Status(R) = "ACTUAL" <=> Certain(R)
<1>1. \A x \in R : x[2].estimated \in BOOLEAN
  BY DEF Countable
<1>2. ASSUME Status(R) = "ACTUAL" PROVE Certain(R)
  <2>1. {x[2].estimated : x \in R} # {TRUE} /\ {x[2].estimated : x \in R} # BOOLEAN
    BY <1>2 DEF Status
  <2> SUFFICES ASSUME NEW x \in R, x[2].estimated = TRUE PROVE FALSE
    BY <1>1 DEF Certain
  <2>2. CASE \E y \in R : y[2].estimated = FALSE
    BY <1>1, <2>1, <2>2
  <2>3. CASE \A y \in R : y[2].estimated = TRUE
    BY <2>1, <2>3
  <2>4. QED
    BY <1>1, <2>2, <2>3
<1>3. ASSUME Certain(R) PROVE Status(R) = "ACTUAL"
  <2>1. {x[2].estimated : x \in R} # {TRUE} /\ {x[2].estimated : x \in R} # BOOLEAN
    BY <1>3 DEF Certain
  <2>2. QED
    BY <2>1 DEF Status
<1>4. QED
  BY <1>2, <1>3

LEMMA CertainResult ==
    ASSUME NEW q, q.kind \in Kinds, Countable(AnswerRows(q)), Certain(AnswerRows(q))
    PROVE  NoEstimate(Result(q))
<1> DEFINE R == AnswerRows(q)
<1>1. ASSUME NEW T \in SUBSET R PROVE Status(T) = "ACTUAL"
  <2>1. Countable(T) /\ Certain(T)
    BY PartAmount DEF Certain
  <2>2. QED
    BY <2>1, ActualIsCertain
<1>2. \A g \in Groups(R) : g.status = "ACTUAL"
  <2> TAKE g \in Groups(R)
  <2>1. PICK k : g = [key |-> k, amount |-> Amount({x \in R : x[2].key = k}),
                      status |-> Status({x \in R : x[2].key = k})]
    BY DEF Groups
  <2>2. Status({x \in R : x[2].key = k}) = "ACTUAL"
    BY <1>1
  <2>3. QED
    BY <2>1, <2>2
<1>3. \A p \in Points(R, q.grouping) : p.status = "ACTUAL"
  <2> TAKE p \in Points(R, q.grouping)
  <2>1. PICK b \in Buckets : p.status = Status(Of(R, b))
    BY DEF Points
  <2>2. Of(R, b) \in SUBSET R
    BY DEF Of
  <2>3. QED
    BY <1>1, <2>1, <2>2
<1>4. \A s \in Summary(R) : s.status = "ACTUAL"
  BY <1>1 DEF Summary
<1>5. QED
  BY <1>2, <1>3, <1>4 DEF NoEstimate, Result, BreakdownItems, Kinds

(* A summary has a row of every bucket of every account.                   *)
LEMMA SummaryTellsEstimates ==
    ASSUME NEW q, NEW o, Whole(q), Whole(o), bill \in [Minutes -> [AwsAccounts -> Costs]],
           SameQuestion(q, o), SameCosts(q, o),
           q.grouping = "NONE", Certain(AnswerRows(q))
    PROVE  Certain(AnswerRows(o))
<1>1. o.wanted = q.wanted /\ \A a \in q.wanted : ToldOf(o, a) = ToldOf(q, a)
  BY SameTold
<1>2. ASSUME NEW a \in q.wanted, NEW b \in Buckets PROVE ToldOf(q, a)[b].estimated = FALSE
  <2> DEFINE c == ToldOf(q, a)
             r == CostLine(c, b, "none", InAll(c, b))
  <2>1. r \in Told(c, "NONE")
    BY DEF Told
  <2>2. <<a, r>> \in AnswerRows(q)
    BY <1>2, <2>1, RowsOfAccount
  <2>3. <<a, r>>[2] = r /\ r.estimated = c[b].estimated
    BY DEF CostLine
  <2> HIDE DEF r, c
  <2>4. QED
    BY <2>2, <2>3 DEF Certain, c
<1>3. ASSUME NEW x \in AnswerRows(o) PROVE x[2].estimated = FALSE
  <2>1. x[1] \in q.wanted
    BY <1>1, RowsOfAccount
  <2> DEFINE a == x[1]
             c == ToldOf(q, a)
  <2>2. x \in {<<a, r>> : r \in Told(c, o.grouping)}
    BY <1>1, <2>1, RowsOfAccount
  <2>3. PICK r \in Told(c, o.grouping) : x = <<a, r>>
    BY <2>2
  <2>4. PICK b \in Buckets : r.estimated = c[b].estimated
    BY <2>3 DEF Told, CostLine
  <2>5. x[2] = r
    BY <2>3
  <2>6. c[b].estimated = FALSE
    BY <1>2, <2>1
  <2>7. QED
    BY <2>4, <2>5, <2>6
<1>4. QED
  BY <1>3 DEF Certain

LEMMA AnswerIsWhole ==
    ASSUME QueryInv, NEW k \in Kinds
    PROVE  /\ Whole(answer[k]) /\ Countable(AnswerRows(answer[k])) /\ answer[k].kind \in Kinds
           /\ bill \in [Minutes -> [AwsAccounts -> Costs]]
<1>1. Whole(answer[k]) /\ bill \in [Minutes -> [AwsAccounts -> Costs]]
  BY DEF QueryInv, AnswerTrue, Whole
<1>2. answer[k].kind \in Kinds
  BY <1>1 DEF Whole, QueryRow
<1>3. QED
  BY <1>1, <1>2, AnswerInSum

LEMMA TotalsAgree ==
    ASSUME QueryInv, NEW k \in Kinds, NEW l \in Kinds,
           SameQuestion(answer[k], answer[l]), SameCosts(answer[k], answer[l])
    PROVE  InSum(Result(answer[k])) = InSum(Result(answer[l]))
<1> DEFINE q == answer[k]
           o == answer[l]
<1>1. /\ Whole(q) /\ Countable(AnswerRows(q)) /\ q.kind \in Kinds
      /\ Whole(o) /\ Countable(AnswerRows(o)) /\ o.kind \in Kinds
      /\ bill \in [Minutes -> [AwsAccounts -> Costs]]
  BY AnswerIsWhole
<1> HIDE DEF q, o
<1>2. InSum(Result(q)) = Amount(AnswerRows(q)) /\ InSum(Result(o)) = Amount(AnswerRows(o))
  BY <1>1, ResultInSum
<1>3. q.wanted = o.wanted /\ \A a \in q.wanted : ToldOf(q, a) = ToldOf(o, a)
  BY <1>1, SameTold DEF q, o
<1>4. [a \in q.wanted |-> Total(ToldOf(q, a))] = [a \in o.wanted |-> Total(ToldOf(o, a))]
  BY <1>3
<1>5. Amount(AnswerRows(q)) = Sum([a \in q.wanted |-> Total(ToldOf(q, a))], q.wanted)
  BY <1>1, AnswerInSum
<1>6. Amount(AnswerRows(o)) = Sum([a \in o.wanted |-> Total(ToldOf(o, a))], o.wanted)
  BY <1>1, AnswerInSum
<1>7. Amount(AnswerRows(q)) = Amount(AnswerRows(o))
  BY <1>3, <1>4, <1>5, <1>6
<1>8. QED
  BY <1>2, <1>7 DEF q, o

LEMMA AllAnswersAgree == QueryInv => AnswersAgree
<1> SUFFICES ASSUME QueryInv PROVE AnswersAgree
  OBVIOUS
<1>1. ASSUME NEW k \in Kinds, NEW l \in Kinds,
             SameQuestion(answer[k], answer[l]), SameCosts(answer[k], answer[l]),
             k = "summary", NoEstimate(Result(answer[k]))
      PROVE  NoEstimate(Result(answer[l]))
  <2> DEFINE q == answer[k]
             o == answer[l]
  <2>1. /\ Whole(q) /\ Countable(AnswerRows(q)) /\ Whole(o) /\ Countable(AnswerRows(o))
        /\ o.kind \in Kinds /\ bill \in [Minutes -> [AwsAccounts -> Costs]]
    BY AnswerIsWhole
  <2>2. q.kind = "summary" /\ q.grouping = "NONE"
    BY <1>1 DEF QueryInv, AnswerTrue, PartsTrue, NoQuery
  <2>3. Status(AnswerRows(q)) = "ACTUAL"
    BY <1>1, <2>2 DEF NoEstimate, Result, Summary
  <2>4. Certain(AnswerRows(q))
    BY <2>1, <2>3, ActualIsCertain
  <2>5. Certain(AnswerRows(o))
    BY <1>1, <2>1, <2>2, <2>4, SummaryTellsEstimates
  <2>6. QED
    BY <2>1, <2>5, CertainResult
<1>2. ASSUME answer["series"].grouping # "NONE", NEW p \in Result(answer["series"])
      PROVE  InSum(p.groups) = p.amount
  <2> DEFINE q == answer["series"]
             R == AnswerRows(q)
  <2>1. "series" \in Kinds
    BY DEF Kinds
  <2>2. q.kind = "series"
    BY <1>2, <2>1 DEF QueryInv, AnswerTrue, NoQuery
  <2>3. Countable(R)
    BY <2>1, AnswerIsWhole
  <2>4. p \in Points(R, q.grouping)
    BY <1>2, <2>2 DEF Result
  <2>5. PICK b \in Buckets : p.amount = Amount(Of(R, b)) /\ p.groups = Groups(Of(R, b))
    BY <1>2, <2>4 DEF Points
  <2>6. Of(R, b) \in SUBSET R
    BY DEF Of
  <2>7. Countable(Of(R, b))
    BY <2>3, <2>6, PartAmount
  <2>8. QED
    BY <2>5, <2>7, GroupsAddUp
<1>3. QED
  BY <1>1, <1>2, TotalsAgree DEF AnswersAgree

(* There is one default profile; a query answers what it asked, of every   *)
(* account it asked about; and a summary, a series and a breakdown, each   *)
(* of calls and entries of its own, tell one sum of one question unless    *)
(* the costs that their calls were told changed: for any costs, buckets,   *)
(* services, accounts and queries (billing_profiles.py, aws_billing.py).   *)
THEOREM BillingFollows == BillingSpec => []BillingFollowsProfiles
<1>1. BillingInit => ProfileInv /\ QueryInv
  BY ProfilesBegin, QueriesBegin
<1>2. ProfileInv /\ QueryInv /\ [BillingNext]_billingVars => (ProfileInv /\ QueryInv)'
  BY ProfileStep, QueryStep
<1>3. QueryInv => AnswersAgree
  BY AllAnswersAgree
<1>4. QED
  BY <1>1, <1>2, <1>3, DefaultIsOne, AnsweredAsAsked, PTL
     DEF BillingSpec, BillingFollowsProfiles

-----------------------------------------------------------------------------
(* Calls of CloudWatch: the inductive invariant. *)

CwRunRow == [account : CwAccounts, started : Nat, finished : Nat, ended : Nat]
CallRow == [n : Nat, at : Nat, account : CwAccounts, made : Nat]
ThreadRow == [run : Nat, buffer : SUBSET CallRow, calls : Nat]

CwRowsOK ==
    /\ cwRun \in Seq(CwRunRow) /\ thread \in [Threads -> ThreadRow]
    /\ cwHour \in Nat /\ cwHour <= MaxHour

(* Runs started before now, and before they ended.                         *)
StartedBefore ==
    \A r \in CwRuns : cwRun[r].started <= cwHour /\ cwRun[r].started <= cwRun[r].ended

(* A thread works on a run of its own that has not ended, and its calls    *)
(* are of it.                                                              *)
WorksOn(w) ==
    /\ thread[w].run \in CwRuns
    /\ cwRun[thread[w].run].finished = Open /\ cwRun[thread[w].run].ended = Open
    /\ \A e \in thread[w].buffer :
          /\ e.made = thread[w].run /\ e.account = cwRun[thread[w].run].account
          /\ cwRun[thread[w].run].started <= e.at /\ e.at <= cwHour

ThreadsWork ==
    /\ \A w \in Threads : IF thread[w].run = 0 THEN thread[w].buffer = {} ELSE WorksOn(w)
    /\ \A v, w \in Threads : thread[v].run = thread[w].run /\ thread[v].run # 0 => v = w

(* UsageIsAttributed, of runs there are.                                   *)
Attributed(e) ==
    /\ e.made \in CwRuns
    /\ e.run # e.made => \E r \in CwRuns : RunsOverlap(e.made, r)

UsageInv ==
    /\ CwRowsOK /\ StartedBefore /\ ThreadsWork
    /\ \A e \in stored : Attributed(e)

LEMMA UsageBegins == CloudWatchInit => UsageInv
<1> SUFFICES ASSUME CloudWatchInit PROVE UsageInv
  OBVIOUS
<1>1. IdleThread \in ThreadRow /\ IdleThread.run = 0 /\ IdleThread.buffer = {}
  BY DEF IdleThread, ThreadRow
<1>2. CwRowsOK
  BY <1>1, CloudWatchAssumption DEF CloudWatchInit, CwRowsOK
<1>3. StartedBefore /\ ThreadsWork
  BY <1>1 DEF CloudWatchInit, StartedBefore, ThreadsWork, CwRuns
<1>4. QED
  BY <1>2, <1>3 DEF CloudWatchInit, UsageInv

(* Runs that are added, and that end, overlap with those they did before.  *)
LEMMA OverlapsStay ==
    ASSUME CwRuns \subseteq CwRuns',
           \A r \in CwRuns : /\ cwRun'[r].account = cwRun[r].account
                             /\ cwRun'[r].started = cwRun[r].started
                             /\ \A s \in CwRuns : cwRun[s].started <= cwRun[r].ended =>
                                                  cwRun[s].started <= cwRun'[r].ended,
           NEW e, Attributed(e)
    PROVE  Attributed(e)'
<1>1. e.made \in CwRuns'
  BY DEF Attributed
<1>2. ASSUME NEW r \in CwRuns, RunsOverlap(e.made, r) PROVE RunsOverlap(e.made, r)'
  BY <1>2 DEF Attributed, RunsOverlap
<1>3. QED
  BY <1>1, <1>2 DEF Attributed

(* What is stored of the calls of a thread is told to be of its run, or of *)
(* one that began while it lasted.                                         *)
LEMMA RowsAttributed ==
    ASSUME UsageInv, NEW w \in Threads, thread[w].run # 0,
           NEW rows \in Flushed(w), NEW row \in rows
    PROVE  Attributed(row)
<1> DEFINE r == thread[w].run
<1>1. PICK told \in ToldRuns(w) : rows = {RowOf(e, told[e.account]) : e \in thread[w].buffer}
  BY DEF Flushed
<1>2. PICK e \in thread[w].buffer : row = RowOf(e, told[e.account])
  BY <1>1
<1>3. row.made = e.made /\ row.run = told[e.account]
  BY <1>2 DEF RowOf
<1>4. /\ e.made = r /\ e.account = cwRun[r].account /\ r \in CwRuns
      /\ cwRun[r].finished = Open /\ cwRun[r].ended = Open
      /\ \A c \in thread[w].buffer : cwRun[r].started <= c.at /\ c.at <= cwHour
  BY DEF UsageInv, ThreadsWork, WorksOn
<1>5. cwRun[r] \in CwRunRow /\ \A s \in CwRuns : cwRun[s] \in CwRunRow
  BY <1>4 DEF UsageInv, CwRowsOK, CwRuns
<1>6. e.account \in CwAccounts /\ e.at \in TimesOf(w, e.account)
  BY <1>4, <1>5 DEF CwRunRow, TimesOf
<1>7. told[e.account] \in ResolvedRun(e.account, TimesOf(w, e.account))
  BY <1>1, <1>6 DEF ToldRuns
<1>8. ASSUME NEW t \in TimesOf(w, e.account)
      PROVE  t \in Nat /\ cwRun[r].started <= t /\ t <= cwHour /\ t <= Open
  <2>1. PICK c \in thread[w].buffer : t = c.at
    BY DEF TimesOf
  <2>2. c \in CallRow
    BY DEF UsageInv, CwRowsOK, ThreadRow
  <2>3. cwHour \in Nat /\ cwHour <= MaxHour /\ MaxHour \in Nat
    BY CloudWatchAssumption DEF UsageInv, CwRowsOK
  <2>4. QED
    BY <1>4, <2>1, <2>2, <2>3 DEF CallRow, Open
<1>9. r \in RunsAround(e.account, TimesOf(w, e.account))
  BY <1>4, <1>8 DEF RunsAround
<1>10. PICK s \in RunsAround(e.account, TimesOf(w, e.account)) :
          told[e.account] = s /\ cwRun[r].started <= cwRun[s].started
  BY <1>7, <1>9 DEF ResolvedRun
<1>11. /\ s \in CwRuns /\ cwRun[s].account = cwRun[r].account
       /\ cwRun[s].started <= e.at /\ cwRun[s].started <= cwRun[s].ended
  BY <1>4, <1>6, <1>10 DEF RunsAround, UsageInv, StartedBefore
<1>12. cwRun[r].started <= cwRun[s].ended /\ cwRun[s].started <= cwRun[r].ended
  <2>1. e.at \in Nat /\ e.at <= Open /\ Open \in Nat
    BY <1>6, <1>8, CloudWatchAssumption DEF Open
  <2>2. cwRun[s] \in CwRunRow
    BY <1>5, <1>11
  <2>3. QED
    BY <1>4, <1>5, <1>10, <1>11, <2>1, <2>2 DEF CwRunRow
<1>13. s # r => RunsOverlap(r, s)
  BY <1>11, <1>12 DEF RunsOverlap
<1>14. QED
  BY <1>3, <1>4, <1>10, <1>11, <1>13 DEF Attributed
(* A thread goes on with its run, or stays idle.                           *)
LEMMA ThreadChanged ==
    ASSUME UsageInv, cwRun' = cwRun, cwHour' = cwHour,
           NEW w \in Threads, thread[w].run # 0, NEW x \in ThreadRow,
           thread' = [thread EXCEPT ![w] = x], x.run = thread[w].run,
           \A e \in x.buffer :
              \/ e \in thread[w].buffer
              \/ e.made = x.run /\ e.account = cwRun[x.run].account /\ e.at = cwHour,
           \A e \in stored' : Attributed(e)
    PROVE  UsageInv'
<1>0. thread'[w] = x /\ \A v \in Threads \ {w} : thread'[v] = thread[v]
  BY DEF UsageInv, CwRowsOK
<1>1. CwRowsOK' /\ StartedBefore'
  BY DEF UsageInv, CwRowsOK, StartedBefore, CwRuns
<1>2. WorksOn(w)'
  <2>1. WorksOn(w) /\ thread[w].run \in CwRuns
    BY DEF UsageInv, ThreadsWork, WorksOn
  <2>2. cwRun[thread[w].run].started <= cwHour /\ cwHour <= cwHour
    BY <2>1 DEF UsageInv, StartedBefore, CwRowsOK
  <2>3. QED
    BY <1>0, <2>1, <2>2 DEF WorksOn, CwRuns
<1>3. \A v \in Threads \ {w} : WorksOn(v) => WorksOn(v)'
  BY <1>0 DEF WorksOn, CwRuns
<1>4. ThreadsWork'
  BY <1>0, <1>2, <1>3 DEF UsageInv, ThreadsWork
<1>5. \A e \in stored' : Attributed(e)'
  BY DEF Attributed, RunsOverlap, CwRuns
<1>6. QED
  BY <1>1, <1>4, <1>5 DEF UsageInv

(* The run of a thread ends, and the thread is idle.                       *)
LEMMA ThreadEnds ==
    ASSUME UsageInv, cwHour' = cwHour,
           NEW w \in Threads, thread[w].run # 0, NEW n \in CwRunRow,
           cwRun' = [cwRun EXCEPT ![thread[w].run] = n],
           n.account = cwRun[thread[w].run].account, n.started = cwRun[thread[w].run].started,
           n.ended = cwHour,
           thread' = [thread EXCEPT ![w] = IdleThread],
           \A e \in stored' : Attributed(e)
    PROVE  UsageInv'
<1> DEFINE r == thread[w].run
<1>1. IdleThread \in ThreadRow /\ IdleThread.run = 0 /\ IdleThread.buffer = {}
  BY DEF IdleThread, ThreadRow
<1>2. thread'[w] = IdleThread /\ \A v \in Threads \ {w} : thread'[v] = thread[v]
  BY DEF UsageInv, CwRowsOK
<1>3. r \in CwRuns /\ cwRun[r].ended = Open /\ cwRun \in Seq(CwRunRow)
  BY DEF UsageInv, ThreadsWork, WorksOn, CwRowsOK
<1>4. /\ CwRuns' = CwRuns /\ cwRun'[r] = n /\ \A s \in CwRuns \ {r} : cwRun'[s] = cwRun[s]
      /\ cwRun' \in Seq(CwRunRow)
  <2>1. CwRuns = 1..Len(cwRun) /\ cwRun \in [1..Len(cwRun) -> CwRunRow] /\ Len(cwRun) \in Nat
    BY <1>3 DEF CwRuns
  <2>2. cwRun' \in [1..Len(cwRun) -> CwRunRow]
    BY <2>1
  <2>3. cwRun' \in Seq(CwRunRow)
    BY <2>1, <2>2
  <2>4. QED
    BY <1>3, <2>1, <2>2, <2>3 DEF CwRuns
<1>5. \A s \in CwRuns : cwRun[s].started <= cwHour /\ cwRun[s].started \in Nat
                        /\ cwRun[s].started <= cwRun[s].ended
  <2>1. \A s \in CwRuns : cwRun[s] \in CwRunRow
    BY <1>3 DEF CwRuns
  <2>2. QED
    BY <2>1 DEF UsageInv, StartedBefore, CwRunRow
<1>6. CwRowsOK'
  BY <1>1, <1>4 DEF UsageInv, CwRowsOK
<1>7. StartedBefore'
  BY <1>4, <1>5 DEF StartedBefore
<1>8. ThreadsWork'
  <2>1. ASSUME NEW v \in Threads \ {w}, thread[v].run # 0
        PROVE  WorksOn(v)'
    <3>1. WorksOn(v) /\ thread[v].run # r /\ thread'[v] = thread[v]
      BY <1>2, <2>1 DEF UsageInv, ThreadsWork
    <3>2. cwRun'[thread[v].run] = cwRun[thread[v].run]
      BY <1>4, <3>1 DEF WorksOn
    <3>3. QED
      BY <1>4, <3>1, <3>2 DEF WorksOn, Open
  <2>2. QED
    BY <1>1, <1>2, <2>1 DEF UsageInv, ThreadsWork
<1>9. ASSUME NEW e \in stored' PROVE Attributed(e)'
  <2>1. \A q \in CwRuns : /\ cwRun'[q].account = cwRun[q].account
                          /\ cwRun'[q].started = cwRun[q].started
    BY <1>4
  <2>2. \A q, s \in CwRuns : cwRun[s].started <= cwRun[q].ended =>
                             cwRun[s].started <= cwRun'[q].ended
    BY <1>4, <1>5
  <2>3. Attributed(e)
    OBVIOUS
  <2>4. QED
    BY <1>4, <2>1, <2>2, <2>3, OverlapsStay
<1>10. QED
  BY <1>6, <1>7, <1>8, <1>9 DEF UsageInv

LEMMA UsageStep == UsageInv /\ [CloudWatchNext]_cloudWatchVars => UsageInv'
<1> SUFFICES ASSUME UsageInv, [CloudWatchNext]_cloudWatchVars PROVE UsageInv'
  OBVIOUS
<1>0. /\ cwRun \in Seq(CwRunRow) /\ thread \in [Threads -> ThreadRow]
      /\ cwHour \in Nat /\ cwHour <= MaxHour /\ MaxHour \in Nat /\ Open \in Nat
      /\ \A e \in stored : Attributed(e)
  BY CloudWatchAssumption DEF UsageInv, CwRowsOK, Open
<1>1. ASSUME NEW w \in Threads, thread[w].run # 0, FlushInto(w)
      PROVE  \A e \in stored' : Attributed(e)
  BY <1>0, <1>1, RowsAttributed DEF FlushInto
<1>2. ASSUME NEW w \in Threads, CwRunStarts(w) PROVE UsageInv'
  <2> DEFINE n == Len(cwRun) + 1
  <2>1. PICK x : /\ \E a \in CwAccounts :
                       x = [account |-> a, started |-> cwHour, finished |-> Open, ended |-> Open]
                 /\ cwRun' = Append(cwRun, x)
    BY <1>2 DEF CwRunStarts
  <2>2. x \in CwRunRow /\ x.started = cwHour /\ x.finished = Open /\ x.ended = Open
        /\ cwHour <= Open
    BY <1>0, <2>1 DEF CwRunRow, Open
  <2>3. /\ cwRun' \in Seq(CwRunRow) /\ CwRuns' = CwRuns \cup {n} /\ n \notin CwRuns
        /\ cwRun'[n] = x /\ \A r \in CwRuns : cwRun'[r] = cwRun[r]
        /\ n \in Nat /\ n # 0
    BY <1>0, <2>1, <2>2 DEF CwRuns
  <2>4. PICK y \in ThreadRow : /\ y.run = n /\ y.buffer = {}
                               /\ thread' = [thread EXCEPT ![w] = y]
    <3>1. /\ [IdleThread EXCEPT !.run = n] \in ThreadRow
          /\ [IdleThread EXCEPT !.run = n].run = n
          /\ [IdleThread EXCEPT !.run = n].buffer = {}
      BY <2>3 DEF IdleThread, ThreadRow
    <3>2. QED
      BY <1>2, <3>1 DEF CwRunStarts
  <2>5. thread'[w] = y /\ \A v \in Threads \ {w} : thread'[v] = thread[v]
    BY <1>0, <2>4
  <2>6. cwHour' = cwHour /\ stored' = stored
    BY <1>2 DEF CwRunStarts
  <2>7. CwRowsOK'
    BY <1>0, <2>3, <2>4, <2>6 DEF CwRowsOK
  <2>8. StartedBefore'
    BY <1>0, <2>2, <2>3, <2>6 DEF UsageInv, StartedBefore
  <2>9. ThreadsWork'
    <3>1. WorksOn(w)'
      BY <2>2, <2>3, <2>4, <2>5 DEF WorksOn, Open
    <3>2. ASSUME NEW v \in Threads \ {w}, thread[v].run # 0
          PROVE  WorksOn(v)' /\ thread'[v].run # n
      <4>1. WorksOn(v) /\ thread'[v] = thread[v] /\ thread[v].run \in CwRuns
        BY <2>5, <3>2 DEF UsageInv, ThreadsWork, WorksOn
      <4>2. QED
        BY <2>3, <2>6, <4>1 DEF WorksOn, Open
    <3>3. QED
      BY <2>3, <2>4, <2>5, <3>1, <3>2 DEF UsageInv, ThreadsWork
  <2>10. \A e \in stored' : Attributed(e)'
    BY <1>0, <2>3, <2>6, OverlapsStay
  <2>11. QED
    BY <2>7, <2>8, <2>9, <2>10 DEF UsageInv
<1>3. ASSUME NEW w \in Threads, CwCall(w) PROVE UsageInv'
  <2> DEFINE r == thread[w].run
  <2>1. PICK c : c = [n |-> thread[w].calls, at |-> cwHour, account |-> cwRun[r].account, made |-> r]
    OBVIOUS
  <2>2. r # 0 /\ r \in CwRuns /\ cwRun[r] \in CwRunRow /\ thread[w] \in ThreadRow
    BY <1>0, <1>3 DEF CwCall, UsageInv, ThreadsWork, WorksOn, CwRuns
  <2>3. /\ c \in CallRow
        /\ c.made = r /\ c.account = cwRun[r].account /\ c.at = cwHour
    BY <1>0, <2>1, <2>2 DEF CallRow, CwRunRow, ThreadRow
  <2>4. PICK x : x = [thread[w] EXCEPT !.buffer = @ \cup {c}, !.calls = @ + 1]
    OBVIOUS
  <2>5. thread' = [thread EXCEPT ![w] = x]
    BY <1>0, <1>3, <2>1, <2>4 DEF CwCall
  <2>6. x \in ThreadRow /\ x.run = r /\ x.buffer = thread[w].buffer \cup {c}
    <3>1. /\ thread[w].buffer \cup {c} \in SUBSET CallRow /\ thread[w].calls + 1 \in Nat
          /\ thread[w].run \in Nat
      BY <2>2, <2>3 DEF ThreadRow
    <3>2. x = [run |-> thread[w].run, buffer |-> thread[w].buffer \cup {c},
               calls |-> thread[w].calls + 1]
      BY <2>2, <2>4 DEF ThreadRow
    <3>3. QED
      BY <3>1, <3>2 DEF ThreadRow
  <2>7. cwRun' = cwRun /\ cwHour' = cwHour /\ stored' = stored
    BY <1>3 DEF CwCall
  <2>8. QED
    BY <1>0, <2>2, <2>3, <2>5, <2>6, <2>7, ThreadChanged
<1>4. ASSUME NEW w \in Threads, CwCommits(w) \/ CwCommitFails(w) PROVE UsageInv'
  <2>1. PICK x : x = [thread[w] EXCEPT !.buffer = {}]
    OBVIOUS
  <2>2. thread' = [thread EXCEPT ![w] = x] /\ thread[w].run # 0
        /\ cwRun' = cwRun /\ cwHour' = cwHour
    BY <1>0, <1>4, <2>1 DEF CwCommits, CwCommitFails
  <2>3. x \in ThreadRow /\ x.run = thread[w].run /\ x.buffer = {}
    BY <1>0, <2>1 DEF ThreadRow
  <2>4. \A e \in stored' : Attributed(e)
    BY <1>0, <1>1, <1>4, <2>2 DEF CwCommits, CwCommitFails
  <2>5. QED
    BY <2>2, <2>3, <2>4, ThreadChanged
<1>5. ASSUME NEW w \in Threads, CwRunEnds(w) \/ CwDies(w) PROVE UsageInv'
  <2> DEFINE r == thread[w].run
  <2>1. r # 0 /\ r \in CwRuns /\ cwRun[r] \in CwRunRow
    BY <1>0, <1>5 DEF CwRunEnds, CwDies, UsageInv, ThreadsWork, WorksOn, CwRuns
  <2>2. PICK n \in CwRunRow : /\ cwRun' = [cwRun EXCEPT ![r] = n] /\ n.ended = cwHour
                              /\ n.account = cwRun[r].account /\ n.started = cwRun[r].started
    <3>1. CASE CwRunEnds(w)
      <4>1. PICK x : x = [cwRun[r] EXCEPT !.finished = cwHour, !.ended = cwHour]
        OBVIOUS
      <4>2. cwRun' = [cwRun EXCEPT ![r] = x]
        BY <1>0, <2>1, <3>1, <4>1 DEF CwRunEnds, CwRuns
      <4>3. x \in CwRunRow /\ x.ended = cwHour /\ x.account = cwRun[r].account
            /\ x.started = cwRun[r].started
        BY <1>0, <2>1, <4>1 DEF CwRunRow
      <4>4. QED
        BY <4>2, <4>3
    <3>2. CASE CwDies(w)
      <4>1. PICK x : x = [cwRun[r] EXCEPT !.ended = cwHour]
        OBVIOUS
      <4>2. cwRun' = [cwRun EXCEPT ![r] = x]
        BY <1>0, <2>1, <3>2, <4>1 DEF CwDies, CwRuns
      <4>3. x \in CwRunRow /\ x.ended = cwHour /\ x.account = cwRun[r].account
            /\ x.started = cwRun[r].started
        BY <1>0, <2>1, <4>1 DEF CwRunRow
      <4>4. QED
        BY <4>2, <4>3
    <3>3. QED
      BY <1>5, <3>1, <3>2
  <2>3. \A e \in stored' : Attributed(e)
    BY <1>0, <1>1, <1>5, <2>1 DEF CwRunEnds, CwDies
  <2>4. thread' = [thread EXCEPT ![w] = IdleThread] /\ cwHour' = cwHour
    BY <1>5 DEF CwRunEnds, CwDies
  <2>5. QED
    BY <2>1, <2>2, <2>3, <2>4, ThreadEnds
<1>6. ASSUME CwHourPasses PROVE UsageInv'
  <2>1. cwHour' \in Nat /\ cwHour' <= MaxHour /\ cwHour <= cwHour'
        /\ cwRun' = cwRun /\ thread' = thread /\ stored' = stored
    BY <1>0, <1>6 DEF CwHourPasses
  <2>2. \A r \in CwRuns : cwRun[r].started \in Nat
    <3>1. \A r \in CwRuns : cwRun[r] \in CwRunRow
      BY <1>0 DEF CwRuns
    <3>2. QED
      BY <3>1 DEF CwRunRow
  <2>3. CwRowsOK' /\ StartedBefore'
    BY <1>0, <2>1, <2>2 DEF UsageInv, CwRowsOK, StartedBefore, CwRuns
  <2>4. ASSUME NEW w \in Threads, WorksOn(w) PROVE WorksOn(w)'
    <3>1. \A e \in thread[w].buffer : e.at \in Nat
      BY <1>0 DEF ThreadRow, CallRow
    <3>2. \A e \in thread[w].buffer : e.at <= cwHour'
      BY <1>0, <2>1, <2>4, <3>1 DEF WorksOn
    <3>3. QED
      BY <2>1, <2>4, <3>2 DEF WorksOn, CwRuns, Open
  <2>5. ThreadsWork'
    BY <2>1, <2>4 DEF UsageInv, ThreadsWork
  <2>6. \A e \in stored' : Attributed(e)'
    BY <1>0, <2>1 DEF Attributed, RunsOverlap, CwRuns
  <2>7. QED
    BY <2>3, <2>5, <2>6 DEF UsageInv
<1>7. CASE UNCHANGED usageVars
  <2>1. cwRun' = cwRun /\ thread' = thread /\ stored' = stored /\ cwHour' = cwHour
    BY <1>7 DEF usageVars
  <2>2. CwRowsOK' /\ StartedBefore' /\ \A w \in Threads : WorksOn(w)' <=> WorksOn(w)
    BY <2>1 DEF UsageInv, CwRowsOK, StartedBefore, WorksOn, CwRuns, Open
  <2>3. ThreadsWork'
    BY <2>1, <2>2 DEF UsageInv, ThreadsWork
  <2>4. \A e \in stored' : Attributed(e)'
    BY <1>0, <2>1 DEF Attributed, RunsOverlap, CwRuns
  <2>5. QED
    BY <2>2, <2>3, <2>4 DEF UsageInv
<1>8. UNCHANGED usageVars \/ CwHourPasses
      \/ \E w \in Threads : \/ CwRunStarts(w) \/ CwCall(w) \/ CwCommits(w) \/ CwCommitFails(w)
                            \/ CwRunEnds(w) \/ CwDies(w)
  BY DEF CloudWatchNext, Calculate, cloudWatchVars
<1>9. QED
  BY <1>2, <1>3, <1>4, <1>5, <1>6, <1>7, <1>8

(* Threads that die, commits that fail, and runs left without an end: a    *)
(* call that is stored is told to be of the run that made it, unless two   *)
(* runs of the account overlapped (cloudwatch_usage.py).                   *)
THEOREM CallsAttributed == CloudWatchSpec => []UsageIsAttributed
<1>1. CloudWatchInit => UsageInv
  BY UsageBegins
<1>2. UsageInv /\ [CloudWatchNext]_cloudWatchVars => UsageInv'
  BY UsageStep
<1>3. UsageInv => UsageIsAttributed
  BY DEF UsageInv, Attributed, UsageIsAttributed
<1>4. QED
  BY <1>1, <1>2, <1>3, PTL DEF CloudWatchSpec

-----------------------------------------------------------------------------
(* What CloudWatch costs. *)

(* A set of numbers that is bounded has a greatest.                         *)
LEMMA GreatestExists ==
    ASSUME NEW N \in Nat, NEW t \in SUBSET (1..N), t # {}
    PROVE  /\ Max(t) \in t
           /\ \A y \in t : Max(t) >= y
<1> DEFINE D == {N - x : x \in t}
<1>0. \A x \in t : x \in Nat /\ x <= N /\ N - x \in Nat
  OBVIOUS
<1>1. D \subseteq Nat /\ D # {}
  BY <1>0
<1>2. PICK n \in D : \A y \in D : ~(<<y, n>> \in OpToRel(<, Nat))
  <2> HIDE DEF D
  <2> QED
    BY <1>1, NatLessThanWellFounded, WFMin
<1>3. \A y \in D : ~(y < n)
  BY <1>1, <1>2 DEF OpToRel
<1>4. PICK x \in t : n = N - x
  BY <1>2
<1>5. \A y \in t : x >= y
  <2> TAKE y \in t
  <2>1. ~(N - y < N - x)
    BY <1>3, <1>4
  <2>2. x \in Nat /\ y \in Nat /\ x <= N /\ y <= N
    BY <1>0, <1>4
  <2> HIDE DEF D
  <2> QED
    BY <2>1, <2>2
<1> QED
  BY <1>5 DEF Max

(* The tiers are taken in the order of a sequence: the fold that does it.   *)
IsTierFold(q, T, g) ==
    g = [t \in SUBSET (DOMAIN T) |-> IF t = {} THEN NothingPriced
                                     ELSE TierStep(q, g[t \ {Max(t)}], T[Max(t)])]

(* The fold over the positions in s, and what it makes of t.                *)
TierFoldOf(q, T, s, g) ==
    g = [t \in SUBSET s |-> IF t = {} THEN NothingPriced
                            ELSE TierStep(q, g[t \ {Max(t)}], T[Max(t)])]

(* Folds over two sets of positions agree on what these have in common.     *)
LEMMA TierFoldOnce ==
    ASSUME NEW q, NEW T, NEW P, IsFiniteSet(P), \A t \in SUBSET P : t # {} => Max(t) \in t,
           NEW s \in SUBSET P, NEW u \in SUBSET P,
           NEW g, NEW h, TierFoldOf(q, T, s, g), TierFoldOf(q, T, u, h)
    PROVE  \A t \in SUBSET s : t \in SUBSET u => g[t] = h[t]
<1> DEFINE C == {t \in SUBSET P : t \in SUBSET s /\ t \in SUBSET u /\ g[t] # h[t]}
<1> SUFFICES ASSUME C # {} PROVE FALSE
    OBVIOUS
<1>1. PICK U \in C : \A V \in C : V \subseteq U => V = U
    <2>1. C \in SUBSET SUBSET P
        OBVIOUS
    <2> HIDE DEF C
    <2> QED
        BY <2>1, SmallestSubset
<1>2. U # {}
    BY <1>1 DEF TierFoldOf
<1>3. Max(U) \in U
    BY <1>1, <1>2
<1>4. g[U \ {Max(U)}] = h[U \ {Max(U)}]
    BY <1>1, <1>3
<1>5. U \in SUBSET s /\ U \in SUBSET u /\ g[U] # h[U]
    BY <1>1
<1>6. g[U] = TierStep(q, g[U \ {Max(U)}], T[Max(U)])
    <2> HIDE DEF C
    <2> QED BY <1>2, <1>5 DEF TierFoldOf
<1>7. h[U] = TierStep(q, h[U \ {Max(U)}], T[Max(U)])
    <2> HIDE DEF C
    <2> QED BY <1>2, <1>5 DEF TierFoldOf
<1> QED
    BY <1>4, <1>5, <1>6, <1>7

LEMMA TierFoldWithin ==
    ASSUME NEW q, NEW T, NEW P, IsFiniteSet(P), \A t \in SUBSET P : t # {} => Max(t) \in t,
           NEW v \in SUBSET P, NEW w \in SUBSET v,
           NEW g, NEW h, TierFoldOf(q, T, v, g), TierFoldOf(q, T, w, h)
    PROVE  h[w] = g[w]
<1>1. w \in SUBSET P /\ w \in SUBSET w /\ w \in SUBSET v
    OBVIOUS
<1>2. \A t \in SUBSET w : t \in SUBSET v => h[t] = g[t]
    BY <1>1, TierFoldOnce
<1> QED
    BY <1>1, <1>2

LEMMA TierFoldExists ==
    ASSUME NEW q, NEW T, NEW P, IsFiniteSet(P), \A t \in SUBSET P : t # {} => Max(t) \in t
    PROVE  \A s \in SUBSET P : \E g : TierFoldOf(q, T, s, g)
<1> DEFINE C == {s \in SUBSET P : ~\E g : TierFoldOf(q, T, s, g)}
<1> SUFFICES ASSUME C # {} PROVE FALSE
    OBVIOUS
<1>1. PICK U \in C : \A V \in C : V \subseteq U => V = U
    <2>1. C \in SUBSET SUBSET P
        OBVIOUS
    <2> HIDE DEF C
    <2> QED
        BY <2>1, SmallestSubset
<1>0. U \in SUBSET P
    BY <1>1
<1>01. \A t \in SUBSET U : t # {} => Max(t) \in t
    BY <1>0
<1> DEFINE G == [u \in SUBSET U |-> CHOOSE g : TierFoldOf(q, T, u, g)]
           h == [t \in SUBSET U |-> IF t = {} THEN NothingPriced
                    ELSE TierStep(q, G[t \ {Max(t)}][t \ {Max(t)}], T[Max(t)])]
<1>2. \A u \in SUBSET U : u # U => TierFoldOf(q, T, u, G[u])
    <2> TAKE u \in SUBSET U
    <2> HAVE u # U
    <2>1. \E g : TierFoldOf(q, T, u, g)
        BY <1>1
    <2> QED
        BY <2>1
<1>3. \A v \in SUBSET U : v # U => h[v] = G[v][v]
    <2> TAKE v \in SUBSET U
    <2> HAVE v # U
    <2>1. TierFoldOf(q, T, v, G[v])
        BY <1>2
    <2>2. CASE v = {}
        <3>1. G[v][v] = NothingPriced
            <4> HIDE DEF G, h, C
            <4>1. v \in SUBSET v
                OBVIOUS
            <4> QED
                BY <4>1, <2>1, <2>2 DEF TierFoldOf
        <3> QED
            BY <2>2, <3>1
    <2>3. CASE v # {}
        <3> DEFINE w == v \ {Max(v)}
        <3>1. w \in SUBSET U /\ w # U /\ w \in SUBSET v
            BY <1>01, <2>3
        <3>2. TierFoldOf(q, T, w, G[w])
            BY <3>1, <1>2
        <3>3. v \in SUBSET P /\ w \in SUBSET P /\ w \in SUBSET w
            BY <1>0, <3>1
        <3>4. G[w][w] = G[v][w]
            <4> HIDE DEF w, G, C
            <4>1. v \in SUBSET P /\ w \in SUBSET v
                BY <3>1, <3>3
            <4> QED
                BY <2>1, <3>2, <4>1, TierFoldWithin
        <3>5. G[v][v] = TierStep(q, G[v][w], T[Max(v)])
            <4> HIDE DEF G
            <4>1. v \in SUBSET v
                OBVIOUS
            <4> QED
                BY <2>1, <2>3, <4>1 DEF TierFoldOf
        <3>6. h[v] = TierStep(q, G[w][w], T[Max(v)])
            BY <2>3
        <3> QED
            BY <3>4, <3>5, <3>6
    <2> QED
        BY <2>2, <2>3
<1>4. \A t \in SUBSET U : t # {} => h[t \ {Max(t)}] = G[t \ {Max(t)}][t \ {Max(t)}]
    <2> TAKE t \in SUBSET U
    <2> HAVE t # {}
    <2>1. t \ {Max(t)} \in SUBSET U /\ t \ {Max(t)} # U
        BY <1>01
    <2> HIDE DEF h, G, C
    <2> QED
        BY <2>1, <1>3
<1>5. TierFoldOf(q, T, U, h)
    <2> DEFINE k == [t \in SUBSET U |-> IF t = {} THEN NothingPriced
                                        ELSE TierStep(q, h[t \ {Max(t)}], T[Max(t)])]
    <2>1. \A t \in SUBSET U : h[t] = k[t]
        <3> TAKE t \in SUBSET U
        <3>1. CASE t = {}
            BY <3>1
        <3>2. CASE t # {}
            <4>1. h[t] = TierStep(q, G[t \ {Max(t)}][t \ {Max(t)}], T[Max(t)])
                BY <3>2
            <4>2. k[t] = TierStep(q, h[t \ {Max(t)}], T[Max(t)])
                <5> HIDE DEF h
                <5> QED BY <3>2
            <4> QED
                BY <4>1, <4>2, <1>4, <3>2
        <3> QED
            BY <3>1, <3>2
    <2>2. h = [t \in SUBSET U |-> h[t]] /\ k = [t \in SUBSET U |-> k[t]]
        OBVIOUS
    <2>3. h = k
        <3> HIDE DEF h, k
        <3> QED BY <2>1, <2>2
    <2> HIDE DEF h
    <2> QED
        BY <2>3 DEF TierFoldOf
<1> QED
    BY <1>1, <1>5

(* What is made of the first tiers, one by one.                             *)
LEMMA TiersOneByOne ==
    ASSUME NEW q, NEW T, NEW N \in Nat, DOMAIN T = 1..N
    PROVE  LET g == CHOOSE h : IsTierFold(q, T, h)
           IN  /\ g[{}] = NothingPriced
               /\ \A k \in 0..(N - 1) : g[1..(k + 1)] = TierStep(q, g[1..k], T[k + 1])
<1> DEFINE g == CHOOSE h : IsTierFold(q, T, h)
<1>1. \A h : IsTierFold(q, T, h) <=> TierFoldOf(q, T, 1..N, h)
    BY DEF IsTierFold, TierFoldOf
<1>2. \E h : IsTierFold(q, T, h)
    <2> DEFINE P == 1..N
    <2>1. IsFiniteSet(P) /\ P \in SUBSET P
        BY FS_Interval
    <2>2. \A t \in SUBSET P : t # {} => Max(t) \in t
        BY GreatestExists
    <2> HIDE DEF P
    <2>3. \E h : TierFoldOf(q, T, P, h)
        BY <2>1, <2>2, TierFoldExists
    <2> QED
        BY <1>1, <2>3 DEF P
<1>3. TierFoldOf(q, T, 1..N, g)
    BY <1>1, <1>2
<1> HIDE DEF g
<1>4. g[{}] = NothingPriced
    <2>1. {} \in SUBSET (1..N)
        OBVIOUS
    <2> QED
        BY <1>3, <2>1 DEF TierFoldOf
<1>5. ASSUME NEW k \in 0..(N - 1)
      PROVE  g[1..(k + 1)] = TierStep(q, g[1..k], T[k + 1])
    <2> DEFINE t == 1..(k + 1)
    <2>1. /\ t \in SUBSET (1..N) /\ t # {} /\ k + 1 \in t /\ k + 1 \in Int
          /\ \A y \in t : k + 1 >= y /\ y \in Int
        <3>1. k \in Nat /\ k + 1 <= N /\ k + 1 >= 1
            OBVIOUS
        <3>2. \A y \in t : y \in Nat /\ 1 <= y /\ y <= k + 1
            BY <3>1
        <3>3. t \subseteq 1..N
            BY <3>1, <3>2
        <3>4. k + 1 \in t
            BY <3>1
        <3> HIDE DEF t
        <3> QED
            BY <3>1, <3>2, <3>3, <3>4
    <2>2. t \ {k + 1} = 1..k
        OBVIOUS
    <2> HIDE DEF t
    <2>3. Max(t) \in t /\ \A y \in t : Max(t) >= y
        <3>1. \A r \in SUBSET (1..N) : r # {} => Max(r) \in r /\ \A y \in r : Max(r) >= y
            BY GreatestExists
        <3> QED
            BY <2>1, <3>1, Zenon
    <2>4. Max(t) = k + 1
        <3>1. Max(t) \in Int /\ k + 1 >= Max(t) /\ Max(t) >= k + 1
            BY <2>1, <2>3
        <3> QED
            BY <2>1, <3>1
    <2>5. g[t] = TierStep(q, g[t \ {Max(t)}], T[Max(t)])
        BY <1>3, <2>1 DEF TierFoldOf
    <2> QED
        BY <2>2, <2>4, <2>5 DEF t
<1> QED
    BY <1>4, <1>5 DEF g

(* Tiers that do not overlap.                                               *)
Apart(v) == \A x, y \in v : x # y => x.high <= y.low \/ y.high <= x.low

(* Tiers that do not overlap can be put in order.                           *)
LEMMA TiersAreSorted ==
    ASSUME NEW v, IsFiniteSet(v), \A x \in v : RuleStands(x), Apart(v)
    PROVE  TiersOf(v) \in [1..Cardinality(v) -> v]
<1> DEFINE N == Cardinality(v)
           below(x) == {y \in v : y.low <= x.low}
           rank == [x \in v |-> Cardinality(below(x))]
<1>1. N \in Nat
    BY FS_CardinalityType
<1>2. \A x \in v : x.low \in Nat /\ x.high \in Nat /\ x.low < x.high
    BY DEF RuleStands
<1>3. \A x \in v : IsFiniteSet(below(x)) /\ Cardinality(below(x)) \in Nat /\ Cardinality(below(x)) <= N
    <2> TAKE x \in v
    <2> DEFINE b == below(x)
    <2>1. b \in SUBSET v
        OBVIOUS
    <2> HIDE DEF b
    <2>2. IsFiniteSet(b) /\ Cardinality(b) <= Cardinality(v)
        BY <2>1, FS_Subset
    <2>3. Cardinality(b) \in Nat
        BY <2>2, FS_CardinalityType
    <2> QED
        BY <2>2, <2>3 DEF b
<1>4. \A x \in v : Cardinality(below(x)) # 0
    <2> TAKE x \in v
    <2> DEFINE b == below(x)
    <2>1. x \in b
        BY <1>2
    <2>2. IsFiniteSet(b)
        BY <1>3
    <2> HIDE DEF b
    <2>3. Cardinality(b) # 0
        BY <2>1, <2>2, FS_EmptySet
    <2> QED
        BY <2>3 DEF b
<1>5. rank \in [v -> 1..N]
    <2> HIDE DEF N, below
    <2>1. \A x \in v : Cardinality(below(x)) \in 1..N
        BY <1>1, <1>3, <1>4
    <2> QED
        BY <2>1
<1>6. \A x, y \in v : x.low < y.low => rank[x] < rank[y]
    <2> TAKE x, y \in v
    <2> HAVE x.low < y.low
    <2> DEFINE a == below(x)
               b == below(y)
    <2>1. a \in SUBSET b /\ y \in b /\ y \notin a
        BY <1>2
    <2>2. IsFiniteSet(a) /\ IsFiniteSet(b) /\ rank[x] = Cardinality(a) /\ rank[y] = Cardinality(b)
        BY <1>3
    <2> HIDE DEF a, b, below, rank, N
    <2>3. Cardinality(a) <= Cardinality(b) /\ Cardinality(a) # Cardinality(b)
        BY <2>1, <2>2, FS_Subset
    <2>4. Cardinality(a) \in Nat /\ Cardinality(b) \in Nat
        BY <2>2, FS_CardinalityType
    <2> QED
        BY <2>2, <2>3, <2>4
<1>7. \A x, y \in v : x # y => x.low < y.low \/ y.low < x.low
    BY <1>2 DEF Apart
<1> HIDE DEF rank
<1>8. \A x, y \in v : x # y => rank[x] # rank[y]
    <2> TAKE x, y \in v
    <2> HAVE x # y
    <2>1. rank[x] \in Nat /\ rank[y] \in Nat
        BY <1>1, <1>5
    <2> QED
        BY <1>6, <1>7, <2>1
<1>9. rank \in Surjection(v, 1..N)
    <2> DEFINE P == 1..N
    <2>1. IsFiniteSet(P) /\ Cardinality(P) = N
        BY <1>1, FS_Interval
    <2>2. rank \in Injection(v, P)
        BY <1>5, <1>8 DEF Injection, IsInjective
    <2>3. Cardinality(v) = N
        OBVIOUS
    <2> HIDE DEF P, N
    <2>4. Cardinality(v) = Cardinality(P) <=> rank \in Surjection(v, P)
        BY <2>1, <2>2, FS_Injection
    <2> QED
        BY <2>1, <2>3, <2>4 DEF P
<1> HIDE DEF N, below
<1> DEFINE s == [k \in 1..N |-> CHOOSE x \in v : rank[x] = k]
<1>10. \A k \in 1..N : s[k] \in v /\ rank[s[k]] = k
    <2> TAKE k \in 1..N
    <2>1. \E x \in v : rank[x] = k
        BY <1>9 DEF Surjection
    <2> QED
        BY <2>1
<1>11. s \in [1..N -> v]
    BY <1>10
<1> HIDE DEF s
<1>12. \A i, j \in 1..N : i # j => s[i] # s[j]
    BY <1>10
<1>13. \A i, j \in 1..N : i < j => s[i].low <= s[j].low
    <2> TAKE i, j \in 1..N
    <2> HAVE i < j
    <2>1. s[i] \in v /\ s[j] \in v /\ rank[s[i]] = i /\ rank[s[j]] = j
        BY <1>10
    <2>2. s[i].low \in Nat /\ s[j].low \in Nat
        BY <1>2, <2>1
    <2>3. ~(s[j].low < s[i].low)
        <3> SUFFICES ASSUME s[j].low < s[i].low PROVE FALSE
            OBVIOUS
        <3>1. j < i
            BY <1>6, <2>1
        <3> QED
            BY <1>1, <3>1
    <2> QED
        BY <2>2, <2>3
<1>14. SetToSeqs(v) = {f \in [1..N -> v] : \A i, j \in 1..N : i # j => f[i] # f[j]}
    BY DEF SetToSeqs, N
<1>15. s \in SetToSeqs(v) /\ \A i, j \in DOMAIN s : i < j => s[i].low <= s[j].low
    BY <1>11, <1>12, <1>13, <1>14
<1>16. TiersOf(v) \in SetToSeqs(v)
    BY <1>15 DEF TiersOf
<1> QED
    BY <1>14, <1>16 DEF N

(* The prices of the first requests, one after the other.                   *)
TurnPrices(q, v) == [k \in 0..(q - 1) |-> PriceAt(v, k)]

(* The positions of one tier have its price.                                *)
LEMMA PriceInTier ==
    ASSUME NEW v, \A x \in v : RuleStands(x), Apart(v), NEW x \in v,
           NEW j \in Nat, x.low <= j, j < x.high
    PROVE  PriceAt(v, j) = x.price /\ x.price \in Nat
<1>1. \A y \in v : y.low \in Nat /\ y.high \in Nat /\ y.low < y.high /\ y.price \in Nat
  BY DEF RuleStands
<1>2. \A y \in v : y.low <= j /\ j < y.high => y = x
  <2> TAKE y \in v
  <2> HAVE y.low <= j /\ j < y.high
  <2> SUFFICES ASSUME y # x PROVE FALSE
    OBVIOUS
  <2>1. y.high <= x.low \/ x.high <= y.low
    BY DEF Apart
  <2> QED
    BY <1>1, <2>1
<1>3. (CHOOSE y \in v : y.low <= j /\ j < y.high) = x
  BY <1>2
<1> QED
  BY <1>1, <1>3 DEF PriceAt

(* A step of the fold: nothing, once all is priced, or one tier more.       *)
LEMMA TierStepDone ==
    ASSUME NEW q, NEW s, NEW x, s.covered >= q, s.begun
    PROVE  TierStep(q, s, x) = s
BY DEF TierStep

LEMMA TierStepTaken ==
    ASSUME NEW q \in Nat, NEW s, NEW x, RuleStands(x), ~(s.covered >= q /\ s.begun)
    PROVE  \E part \in Nat :
              /\ part = (IF q <= x.low THEN 0 ELSE LeastOf(q - x.low, x.high - x.low))
              /\ TierStep(q, s, x) =
                    [begun |-> TRUE, upper |-> x.high, covered |-> s.covered + part,
                     cost |-> s.cost + part * x.price,
                     refused |-> s.refused \/ x.low # s.upper]
<1> DEFINE p == IF q <= x.low THEN 0 ELSE LeastOf(q - x.low, x.high - x.low)
<1>1. p \in Nat
  BY DEF RuleStands, LeastOf
<1>2. TierStep(q, s, x) =
         [begun |-> TRUE, upper |-> x.high, covered |-> s.covered + p,
          cost |-> s.cost + p * x.price, refused |-> s.refused \/ x.low # s.upper]
  BY DEF TierStep
<1> HIDE DEF p
<1>3. p = (IF q <= x.low THEN 0 ELSE LeastOf(q - x.low, x.high - x.low))
  BY DEF p
<1> QED
  BY <1>1, <1>2, <1>3

(* What the tiers looked at so far have made: unless they are refused, they *)
(* begin at 0 and price one request after the other.                        *)
PricesInTurn(q, v, s) ==
    /\ s.covered \in Nat /\ s.upper \in Nat /\ s.cost \in Int
    /\ ~s.refused =>
          /\ s.covered = LeastOf(q, s.upper)
          /\ IF s.begun THEN \E x \in v : x.low = 0 ELSE s.upper = 0
          /\ \A j \in 0..(s.covered - 1) : TurnPrices(q, v)[j] \in Nat
          /\ s.cost = Sum(TurnPrices(q, v), 0..(s.covered - 1))

LEMMA TierStepPrices ==
    ASSUME NEW q \in Nat, q > 0, NEW v, \A x \in v : RuleStands(x), Apart(v), NEW x \in v,
           NEW s, PricesInTurn(q, v, s)
    PROVE  PricesInTurn(q, v, TierStep(q, s, x)) /\ TierStep(q, s, x).begun
<1>1. CASE s.covered >= q /\ s.begun
  BY <1>1, TierStepDone
<1>2. CASE ~(s.covered >= q /\ s.begun)
  <2> DEFINE t == TierStep(q, s, x)
             f == TurnPrices(q, v)
  <2>0. /\ x.low \in Nat /\ x.high \in Nat /\ x.low < x.high /\ x.price \in Nat
        /\ s.covered \in Nat /\ s.upper \in Nat /\ s.cost \in Int
    BY DEF RuleStands, PricesInTurn
  <2>1. PICK part \in Nat :
           /\ part = (IF q <= x.low THEN 0 ELSE LeastOf(q - x.low, x.high - x.low))
           /\ t = [begun |-> TRUE, upper |-> x.high, covered |-> s.covered + part,
                   cost |-> s.cost + part * x.price,
                   refused |-> s.refused \/ x.low # s.upper]
    <3>1. RuleStands(x)
      OBVIOUS
    <3> QED
      BY <1>2, <3>1, TierStepTaken
  <2>2. /\ t.begun = TRUE /\ t.upper = x.high /\ t.covered = s.covered + part
        /\ t.cost = s.cost + part * x.price
    BY <2>1
  <2> HIDE DEF t, f
  <2>3. ~t.refused => ~s.refused /\ x.low = s.upper
    <3>1. t.refused = (s.refused \/ x.low # s.upper)
      BY <2>1
    <3> QED
      BY <3>1, Zenon
  <2>4. t.covered \in Nat /\ t.upper \in Nat /\ t.cost \in Int
    <3>1. part * x.price \in Int
      BY <2>0, <2>1
    <3> QED
      BY <2>0, <2>2, <3>1
  <2>5. ASSUME ~t.refused
        PROVE  /\ t.covered = LeastOf(q, t.upper)
               /\ \E y \in v : y.low = 0
               /\ \A j \in 0..(t.covered - 1) : f[j] \in Nat
               /\ t.cost = Sum(f, 0..(t.covered - 1))
    <3>1. /\ ~s.refused /\ x.low = s.upper /\ s.covered = LeastOf(q, s.upper)
          /\ IF s.begun THEN \E y \in v : y.low = 0 ELSE s.upper = 0
          /\ \A j \in 0..(s.covered - 1) : f[j] \in Nat
          /\ s.cost = Sum(f, 0..(s.covered - 1))
      BY <2>3, <2>5 DEF PricesInTurn, f
    <3>2. s.covered < q
      <4>1. CASE s.begun
        BY <1>2, <2>0, <4>1
      <4>2. CASE ~s.begun
        <5>1. s.upper = 0
          BY <3>1, <4>2
        <5> QED
          BY <3>1, <5>1 DEF LeastOf
      <4> QED
        BY <4>1, <4>2
    <3>3. s.covered = x.low
      BY <2>0, <3>1, <3>2 DEF LeastOf
    <3>4. part = LeastOf(q - x.low, x.high - x.low) /\ x.low < q
      BY <2>0, <2>1, <3>2, <3>3
    <3>5. t.covered = LeastOf(q, x.high) /\ t.covered <= q /\ t.covered <= x.high
          /\ t.covered = x.low + part
      BY <2>0, <2>2, <3>3, <3>4 DEF LeastOf
    <3>6. \E y \in v : y.low = 0
      <4>1. CASE s.begun
        BY <3>1, <4>1
      <4>2. CASE ~s.begun
        BY <3>1, <4>2
      <4> QED
        BY <4>1, <4>2
    <3>7. ASSUME NEW j \in 0..(t.covered - 1)
          PROVE  f[j] \in Nat /\ (x.low <= j => f[j] = x.price)
      <4>1. j \in Nat /\ j < x.high /\ j < q /\ j < t.covered
        BY <2>0, <2>4, <3>5
      <4>2. j \in 0..(q - 1)
        BY <4>1
      <4>3. f[j] = PriceAt(v, j)
        BY <4>2 DEF f, TurnPrices
      <4>4. CASE x.low <= j
        BY <4>1, <4>3, <4>4, PriceInTier
      <4>5. CASE ~(x.low <= j)
        <5>1. j \in 0..(s.covered - 1)
          BY <2>0, <3>3, <4>1, <4>5
        <5> QED
          BY <3>1, <4>5, <5>1
      <4> QED
        BY <4>4, <4>5
    <3>8. t.cost = Sum(f, 0..(t.covered - 1))
      <4> DEFINE m == x.low
                 p == x.price
      <4>1. m \in Nat /\ p \in Int /\ part \in Nat /\ m + part - 1 = t.covered - 1
            /\ m - 1 = s.covered - 1
        BY <2>0, <2>1, <3>3, <3>5
      <4>2. /\ \A j \in 0..(m + part - 1) : f[j] \in Int
            /\ \A j \in 0..(m + part - 1) : m <= j => f[j] = p
        <5>1. \A j \in 0..(t.covered - 1) : f[j] \in Nat /\ (x.low <= j => f[j] = x.price)
          BY <3>7
        <5> QED
          BY <4>1, <5>1
      <4> HIDE DEF m, p
      <4>3. Sum(f, 0..(m + part - 1)) = Sum(f, 0..(m - 1)) + part * p
        BY <4>1, <4>2, SumRun
      <4> QED
        BY <2>2, <3>1, <4>1, <4>3 DEF p
    <3> QED
      BY <2>2, <3>5, <3>6, <3>7, <3>8
  <2>6. \A j \in 0..(t.covered - 1) : ~t.refused => TurnPrices(q, v)[j] \in Nat
    BY <2>5 DEF f
  <2>7. PricesInTurn(q, v, t)
    BY <2>2, <2>4, <2>5 DEF PricesInTurn, f
  <2> QED
    BY <2>2, <2>7 DEF t
<1> QED
  BY <1>1, <1>2

(* A quantity that is not refused is priced one request after the other,    *)
(* and begins in a tier that begins at 0.                                   *)
LEMMA TieredInTurn ==
    ASSUME NEW q \in Nat, q > 0,
           NEW v, IsFiniteSet(v), v # {}, \A x \in v : RuleStands(x), Apart(v),
           ~TieredCost(q, v).refused
    PROVE  /\ \E x \in v : x.low = 0
           /\ \A j \in 0..(q - 1) : TurnPrices(q, v)[j] \in Nat
           /\ TieredCost(q, v).cost = Sum(TurnPrices(q, v), 0..(q - 1))
<1> DEFINE N == Cardinality(v)
           T == TiersOf(v)
           g == CHOOSE h : IsTierFold(q, T, h)
           sum == g[DOMAIN T]
<1>1. TieredCost(q, v) = [cost |-> sum.cost, refused |-> sum.refused \/ sum.covered < q]
  BY DEF TieredCost, FoldLeft, MapThenFoldSet, IsTierFold
<1>2. N \in Nat /\ N # 0 /\ T \in [1..N -> v]
  BY FS_CardinalityType, FS_EmptySet, TiersAreSorted
<1>3. DOMAIN T = 1..N /\ \A k \in 1..N : T[k] \in v
  BY <1>2
<1>4. ~sum.refused /\ ~(sum.covered < q)
  <2>1. TieredCost(q, v).refused = (sum.refused \/ sum.covered < q)
    BY <1>1
  <2> HIDE DEF sum
  <2> QED
    BY <2>1, Zenon
<1>5. TieredCost(q, v).cost = sum.cost
  BY <1>1
<1> HIDE DEF N, T
<1>6. g[{}] = NothingPriced /\ \A k \in 0..(N - 1) : g[1..(k + 1)] = TierStep(q, g[1..k], T[k + 1])
  BY <1>2, <1>3, TiersOneByOne
<1> HIDE DEF g
<1> DEFINE C == {k \in Nat : k <= N =>
                    PricesInTurn(q, v, g[1..k]) /\ (k # 0 => g[1..k].begun)}
<1>7. 0 \in C
  <2>1. PricesInTurn(q, v, NothingPriced)
    <3>1. 0..(0 - 1) = {} /\ LeastOf(q, 0) = 0
      BY DEF LeastOf
    <3>2. Sum(TurnPrices(q, v), {}) = 0
      BY SumOfNothing
    <3> QED
      BY <3>1, <3>2 DEF PricesInTurn, NothingPriced
  <2>2. 1..0 = {}
    OBVIOUS
  <2> QED
    BY <1>6, <2>1, <2>2
<1>8. ASSUME NEW k \in C PROVE k + 1 \in C
  <2> SUFFICES ASSUME k + 1 <= N
               PROVE  PricesInTurn(q, v, g[1..(k + 1)]) /\ g[1..(k + 1)].begun
    OBVIOUS
  <2>1. k \in Nat /\ PricesInTurn(q, v, g[1..k]) /\ k \in 0..(N - 1) /\ k + 1 \in 1..N
    BY <1>2
  <2> DEFINE s == g[1..k]
             x == T[k + 1]
  <2>2. x \in v /\ PricesInTurn(q, v, s) /\ g[1..(k + 1)] = TierStep(q, s, x)
    BY <1>3, <1>6, <2>1
  <2> HIDE DEF s, x, C
  <2>3. PricesInTurn(q, v, TierStep(q, s, x)) /\ TierStep(q, s, x).begun
    BY <2>2, TierStepPrices
  <2> QED
    BY <2>2, <2>3
<1>9. N \in C
  <2>1. C \in SUBSET Nat
    OBVIOUS
  <2> HIDE DEF C
  <2>2. C = Nat
    BY <1>7, <1>8, <2>1, ByCount
  <2> QED
    BY <1>2, <2>2
<1>10. PricesInTurn(q, v, sum) /\ sum.begun
  BY <1>2, <1>3, <1>9
<1> HIDE DEF sum
<1>11. sum.covered = q
  <2>1. sum.covered \in Nat /\ sum.upper \in Nat /\ sum.covered = LeastOf(q, sum.upper)
    BY <1>4, <1>10 DEF PricesInTurn
  <2> QED
    BY <1>4, <2>1 DEF LeastOf
<1> QED
  BY <1>4, <1>5, <1>10, <1>11 DEF PricesInTurn

(* The sums of the model.                                                   *)
LEMMA QuantityIsSum ==
    ASSUME NEW E
    PROVE  QuantityOf(E) = Sum([e \in E |-> e.requests], E)
<1> DEFINE f == [e \in E |-> e.requests]
<1>1. QuantityOf(E) =
        (CHOOSE g : g = [t \in SUBSET E |->
             IF t = {} THEN 0 ELSE Pick(t).requests + g[t \ {Pick(t)}]])[E]
  BY DEF QuantityOf, MapThenSumSet, MapThenFoldSet, Pick
<1>2. \A t \in SUBSET E : t # {} => f[Pick(t)] = Pick(t).requests
  BY Picked
<1>3. \A g : (g = [t \in SUBSET E |->
                     IF t = {} THEN 0 ELSE Pick(t).requests + g[t \ {Pick(t)}]])
             <=> IsFold(f, E, g)
  BY <1>2 DEF IsFold
<1> QED
  BY <1>1, <1>3 DEF Sum

LEMMA OneByOneIsSum ==
    ASSUME NEW v, NEW E, NEW q, q = QuantityOf(CoveredBy(v, E))
    PROVE  OneByOne(v, E) = Sum(TurnPrices(q, v), 0..(q - 1))
<1> DEFINE S == 0..(q - 1)
           f == TurnPrices(q, v)
<1>1. OneByOne(v, E) =
        (CHOOSE g : g = [t \in SUBSET S |->
             IF t = {} THEN 0 ELSE PriceAt(v, Pick(t)) + g[t \ {Pick(t)}]])[S]
  BY DEF OneByOne, MapThenSumSet, MapThenFoldSet, Pick
<1>2. f = [k \in S |-> PriceAt(v, k)]
  BY DEF TurnPrices
<1> HIDE DEF S, f
<1>3. \A t \in SUBSET S : t # {} => f[Pick(t)] = PriceAt(v, Pick(t))
  BY <1>2, Picked
<1>4. \A g : (g = [t \in SUBSET S |->
                     IF t = {} THEN 0 ELSE PriceAt(v, Pick(t)) + g[t \ {Pick(t)}]])
             <=> IsFold(f, S, g)
  BY <1>3 DEF IsFold
<1> QED
  BY <1>1, <1>4 DEF Sum, S, f

(* The costs of the versions, as they are added and as they should be.      *)
Added(V, E) == MapThenSumSet(LAMBDA v : CostOfVersion(v, E).cost, V)
AddedInTurn(V, E) == MapThenSumSet(LAMBDA v : OneByOne(v, E), V)

LEMMA VersionsAddUp ==
    ASSUME NEW V, NEW E, \A v \in V : CostOfVersion(v, E).cost = OneByOne(v, E)
    PROVE  Added(V, E)  = AddedInTurn(V, E)
<1>1. Added(V, E) =
        (CHOOSE g : g = [t \in SUBSET V |->
             IF t = {} THEN 0 ELSE CostOfVersion(Pick(t), E).cost + g[t \ {Pick(t)}]])[V]
  BY DEF Added, MapThenSumSet, MapThenFoldSet, Pick
<1>2. AddedInTurn(V, E) =
        (CHOOSE g : g = [t \in SUBSET V |->
             IF t = {} THEN 0 ELSE OneByOne(Pick(t), E) + g[t \ {Pick(t)}]])[V]
  BY DEF AddedInTurn, MapThenSumSet, MapThenFoldSet, Pick
<1>3. \A t \in SUBSET V : t # {} => CostOfVersion(Pick(t), E).cost = OneByOne(Pick(t), E)
  BY Picked
<1>4. \A g : (g = [t \in SUBSET V |->
                 IF t = {} THEN 0 ELSE CostOfVersion(Pick(t), E).cost + g[t \ {Pick(t)}]])
             <=> (g = [t \in SUBSET V |->
                 IF t = {} THEN 0 ELSE OneByOne(Pick(t), E) + g[t \ {Pick(t)}]])
  BY <1>3
<1> QED
  BY <1>1, <1>2, <1>4

(* The rules of a version have its regions and times.                       *)
LEMMA RulesOfVersion ==
    ASSUME NEW rules, NEW v \in VersionsOf(rules)
    PROVE  /\ v \in SUBSET rules /\ v # {}
           /\ \A x, y \in v : x.scope = y.scope /\ x.from = y.from /\ x.until = y.until
           /\ \A w \in VersionsOf(rules) : (\E x \in v : x \in w) => w = v
<1>1. PICK x \in rules : v = {y \in rules : VersionKey(y) = VersionKey(x)}
  BY DEF VersionsOf
<1>2. \A y \in v : VersionKey(y) = VersionKey(x)
  BY <1>1
<1>3. \A y, z \in v : y.scope = z.scope /\ y.from = z.from /\ y.until = z.until
  BY <1>2 DEF VersionKey
<1>4. ASSUME NEW w \in VersionsOf(rules), NEW y \in v, y \in w PROVE w = v
  <2>1. PICK z \in rules : w = {u \in rules : VersionKey(u) = VersionKey(z)}
    BY DEF VersionsOf
  <2>2. VersionKey(z) = VersionKey(x)
    BY <1>2, <1>4, <2>1
  <2> QED
    BY <1>1, <2>1, <2>2
<1> QED
  BY <1>1, <1>3, <1>4

(* Rules that apply to a call overlap in regions and times.                 *)
LEMMA BothApply ==
    ASSUME NEW x, NEW y, RuleStands(x), RuleStands(y), NEW e, e.at \in Nat,
           Covers(x, e), Covers(y, e)
    PROVE  /\ RegionsOverlap(x.scope, y.scope)
           /\ SpansOverlap(x.from, x.until, y.from, y.until)
<1>1. RegionsOverlap(x.scope, y.scope)
  BY DEF Covers, ScopeMatches, RegionsOverlap
<1>2. SpansOverlap(x.from, x.until, y.from, y.until)
  BY DEF Covers, SpansOverlap, RuleStands
<1> QED
  BY <1>1, <1>2

(* The tiers of a version do not overlap unless the rules are refused.      *)
LEMMA VersionsAreApart ==
    ASSUME NEW rules, \A x \in rules : RuleStands(x), ~OverlapRefused(rules),
           NEW v \in VersionsOf(rules)
    PROVE  Apart(v)
<1> SUFFICES ASSUME NEW x \in v, NEW y \in v, x # y PROVE x.high <= y.low \/ y.high <= x.low
  BY DEF Apart
<1>1. x \in rules /\ y \in rules /\ x.scope = y.scope /\ x.from = y.from /\ x.until = y.until
  BY RulesOfVersion
<1>2. RegionsOverlap(x.scope, y.scope) /\ SpansOverlap(x.from, x.until, y.from, y.until)
  BY <1>1 DEF RuleStands, RegionsOverlap, SpansOverlap
<1>3. ~SpansOverlap(x.low, x.high, y.low, y.high)
  BY <1>1, <1>2 DEF OverlapRefused
<1> QED
  BY <1>1, <1>3 DEF SpansOverlap, RuleStands

(* A call of a version counts among its requests.                           *)
LEMMA QuantityCounts ==
    ASSUME NEW E, IsFiniteSet(E), \A e \in E : e.requests \in Nat, NEW v
    PROVE  /\ QuantityOf(CoveredBy(v, E)) \in Nat
           /\ \A e \in CoveredBy(v, E) : e.requests <= QuantityOf(CoveredBy(v, E))
<1> DEFINE S == CoveredBy(v, E)
           f == [e \in S |-> e.requests]
<1>1. S \in SUBSET E
  BY DEF CoveredBy
<1> HIDE DEF S
<1>2. IsFiniteSet(S)
  BY <1>1, FS_Subset
<1>3. \A e \in S : f[e] \in Nat /\ f[e] = e.requests
  BY <1>1
<1>4. QuantityOf(S) = Sum(f, S)
  BY QuantityIsSum
<1> HIDE DEF f
<1>5. Sum(f, S) \in Nat /\ \A e \in S : f[e] <= Sum(f, S)
  BY <1>2, <1>3, SumHolds
<1> QED
  BY <1>3, <1>4, <1>5 DEF S

(* A version that is priced without being refused begins at 0 and costs     *)
(* what its requests cost.                                                  *)
LEMMA PricedVersion ==
    ASSUME NEW rules, IsFiniteSet(rules), \A x \in rules : RuleStands(x),
           NEW E, IsFiniteSet(E), \A e \in E : e.requests \in Nat,
           ~CostRefused(rules, E), NEW v \in Priced(rules, E)
    PROVE  /\ \E x \in v : x.low = 0
           /\ CostOfVersion(v, E).cost = OneByOne(v, E)
<1> DEFINE q == QuantityOf(CoveredBy(v, E))
<1>1. v \in VersionsOf(rules) /\ q > 0
  BY DEF Priced
<1>2. q \in Nat
  BY QuantityCounts
<1>3. ~OverlapRefused(rules) /\ ~CostOfVersion(v, E).refused
  BY DEF CostRefused
<1>4. v \in SUBSET rules /\ v # {}
  BY <1>1, RulesOfVersion
<1>5. IsFiniteSet(v) /\ \A x \in v : RuleStands(x)
  BY <1>4, FS_Subset
<1>6. Apart(v)
  BY <1>1, <1>3, VersionsAreApart
<1>7. CostOfVersion(v, E) = TieredCost(q, v)
  BY DEF CostOfVersion
<1>8. OneByOne(v, E) = Sum(TurnPrices(q, v), 0..(q - 1))
  BY OneByOneIsSum
<1> HIDE DEF q
<1>9. ~TieredCost(q, v).refused
  BY <1>3, <1>7
<1>10. (\E x \in v : x.low = 0) /\ TieredCost(q, v).cost = Sum(TurnPrices(q, v), 0..(q - 1))
  BY <1>1, <1>2, <1>4, <1>5, <1>6, <1>9, TieredInTurn
<1> QED
  BY <1>7, <1>8, <1>10

(* Two versions that are priced have no call in common.                     *)
LEMMA PricedByOne ==
    ASSUME NEW rules, IsFiniteSet(rules), \A x \in rules : RuleStands(x),
           NEW E, IsFiniteSet(E), \A e \in E : e.requests \in Nat /\ e.at \in Nat,
           ~CostRefused(rules, E), NEW v \in Priced(rules, E), NEW w \in Priced(rules, E),
           NEW e \in E, e \in CoveredBy(v, E), e \in CoveredBy(w, E)
    PROVE  v = w
<1>0. \A d \in E : d.requests \in Nat
  OBVIOUS
<1>1. v \in VersionsOf(rules) /\ w \in VersionsOf(rules)
  BY DEF Priced
<1>2. PICK x \in v : x.low = 0
  BY <1>0, PricedVersion
<1>3. PICK y \in w : y.low = 0
  BY <1>0, PricedVersion
<1>4. x \in rules /\ y \in rules
  BY <1>1, RulesOfVersion
<1>5. Covers(x, e) /\ Covers(y, e)
  BY DEF CoveredBy
<1>6. RegionsOverlap(x.scope, y.scope) /\ SpansOverlap(x.from, x.until, y.from, y.until)
  BY <1>4, <1>5, BothApply
<1>7. SpansOverlap(x.low, x.high, y.low, y.high)
  BY <1>2, <1>3, <1>4 DEF SpansOverlap, RuleStands
<1>8. x = y
  BY <1>4, <1>6, <1>7 DEF CostRefused, OverlapRefused
<1> QED
  BY <1>1, <1>8, RulesOfVersion

(* The tariffs and the usage stand, and what is charged is what they cost.  *)
CostInv ==
    /\ IsFiniteSet(tariff) /\ \A x \in tariff : RuleStands(x)
    /\ IsFiniteSet(usage) /\ \A e \in usage : e.requests \in Nat /\ e.at \in Nat
    /\ charged.done => charged = CostOf(tariff, usage)

LEMMA CostBegins == CloudWatchInit => CostInv
BY DEF CloudWatchInit, CostInv

LEMMA CostStep == CostInv /\ [CloudWatchNext]_cloudWatchVars => CostInv'
<1> SUFFICES ASSUME CostInv, [CloudWatchNext]_cloudWatchVars PROVE CostInv'
  OBVIOUS
<1>1. tariff' = tariff /\ usage' = usage
      /\ (charged' = charged \/ charged' = CostOf(tariff, usage))
  <2>1. CASE UNCHANGED cloudWatchVars
    BY <2>1 DEF cloudWatchVars, costVars
  <2>2. ASSUME NEW w \in Threads,
               \/ CwRunStarts(w) \/ CwCall(w) \/ CwCommits(w) \/ CwCommitFails(w)
               \/ CwRunEnds(w) \/ CwDies(w)
        PROVE  UNCHANGED costVars
    BY <2>2 DEF CwRunStarts, CwCall, CwCommits, CwCommitFails, CwRunEnds, CwDies
  <2>3. CASE CwHourPasses
    BY <2>3 DEF CwHourPasses, costVars
  <2>4. CASE Calculate
    BY <2>4 DEF Calculate
  <2> QED
    BY <2>1, <2>2, <2>3, <2>4 DEF CloudWatchNext, costVars
<1>2. CostOf(tariff, usage)' = CostOf(tariff', usage')
  OBVIOUS
<1> QED
  BY <1>1 DEF CostInv

(* What the invariant says of a calculation.                                *)
LEMMA ChargedOnce == CostInv => UsageIsPricedOnce
<1> SUFFICES ASSUME CostInv, charged.done, ~charged.refused PROVE UsageIsPricedOnce
  BY DEF UsageIsPricedOnce
<1>0. /\ IsFiniteSet(tariff) /\ \A x \in tariff : RuleStands(x)
      /\ IsFiniteSet(usage) /\ \A e \in usage : e.requests \in Nat /\ e.at \in Nat
      /\ \A e \in usage : e.requests \in Nat
  BY DEF CostInv
<1> DEFINE V == Priced(tariff, usage)
           U == {e \in usage : ~\E x \in tariff : Covers(x, e)}
           total == Added(V, usage)
<1>1. ~CostRefused(tariff, usage)
  <2> SUFFICES ASSUME CostRefused(tariff, usage) PROVE FALSE
    OBVIOUS
  <2>1. charged.refused = TRUE
    BY DEF CostInv, CostOf
  <2> QED
    BY <2>1
<1>2. charged = [done |-> TRUE, refused |-> FALSE, versions |-> V, unpriced |-> U, cost |-> total]
  BY <1>1 DEF CostInv, CostOf, Added
<1>3. charged.versions = V /\ charged.unpriced = U /\ charged.cost = total
  <2> HIDE DEF V, U, total
  <2> QED
    BY <1>2
<1>4. Added(V, usage) = AddedInTurn(V, usage)
  <2>1. \A v \in V : CostOfVersion(v, usage).cost = OneByOne(v, usage)
    BY <1>0, <1>1, PricedVersion
  <2> HIDE DEF V
  <2> QED
    BY <2>1, VersionsAddUp
<1>5. ASSUME NEW e \in usage
      PROVE  LET pricing == {v \in charged.versions : e \in CoveredBy(v, usage)}
             IN IF e \in charged.unpriced THEN pricing = {}
                ELSE Cardinality(pricing) <= 1 /\ (e.requests > 0 => pricing # {})
  <2> DEFINE pricing == {v \in V : e \in CoveredBy(v, usage)}
  <2>1. CASE e \in U
    <3>1. \A v \in V : e \notin CoveredBy(v, usage)
      <4> SUFFICES ASSUME NEW v \in V, e \in CoveredBy(v, usage) PROVE FALSE
        OBVIOUS
      <4>1. v \in VersionsOf(tariff)
        BY DEF Priced
      <4>2. v \in SUBSET tariff /\ v # {}
        BY <4>1, RulesOfVersion
      <4>3. PICK x \in v : Covers(x, e)
        BY <4>2 DEF CoveredBy
      <4> QED
        BY <2>1, <4>2, <4>3
    <3>2. pricing = {}
      <4> HIDE DEF V
      <4> QED BY <3>1
    <3> QED
      BY <1>3, <2>1, <3>2
  <2>2. CASE e \notin U
    <3>1. \A v, w \in pricing : v = w
      BY <1>0, <1>1, PricedByOne
    <3> HIDE DEF V, U
    <3>2. Cardinality(pricing) <= 1
      <4> HIDE DEF pricing
      <4>1. CASE pricing = {}
        BY <4>1, FS_EmptySet
      <4>2. CASE pricing # {}
        <5>1. PICK v \in pricing : TRUE
          BY <4>2
        <5>2. pricing = {v}
          BY <3>1, <5>1
        <5>3. Cardinality({v}) = 1
          BY FS_Singleton
        <5> QED
          BY <5>2, <5>3
      <4> QED
        BY <4>1, <4>2
    <3>3. ASSUME e.requests > 0 PROVE pricing # {}
      <4>1. PICK x \in tariff : Covers(x, e)
        BY <2>2 DEF U
      <4> DEFINE v == {y \in tariff : VersionKey(y) = VersionKey(x)}
                 q == QuantityOf(CoveredBy(v, usage))
      <4>2. v \in VersionsOf(tariff) /\ x \in v
        BY DEF VersionsOf
      <4> HIDE DEF v
      <4>3. \A y \in v : Covers(y, e)
        <5>1. \A y \in v : y.scope = x.scope /\ y.from = x.from /\ y.until = x.until
          BY <4>2, RulesOfVersion
        <5> QED
          BY <4>1, <5>1 DEF Covers
      <4>4. e \in CoveredBy(v, usage)
        BY <4>3 DEF CoveredBy
      <4>5. q \in Nat /\ e.requests <= q
        BY <1>0, <4>4, QuantityCounts
      <4>6. e.requests \in Nat
        BY <1>0
      <4>7. q > 0
        <5> HIDE DEF q
        <5> QED BY <3>3, <4>5, <4>6
      <4>8. v \in V
        BY <4>2, <4>7 DEF Priced, V
      <4> QED
        BY <4>4, <4>8
    <3> QED
      BY <1>3, <2>2, <3>2, <3>3
  <2> QED
    BY <2>1, <2>2
<1> QED
  BY <1>3, <1>4, <1>5 DEF UsageIsPricedOnce, AddedInTurn

(* Versions, regions, times and tiers: a call is priced by one version or  *)
(* told to be unpriced, and a version costs what its requests cost one     *)
(* after the other (cloudwatch_cost_engine.py, calculate_tiered_cost).     *)
THEOREM PricedOnce == CloudWatchSpec => []UsageIsPricedOnce
BY CostBegins, CostStep, ChargedOnce, PTL DEF CloudWatchSpec

(* A call counts once, for the run that made it, at the price of its time, *)
(* its region and its position (cloudwatch_usage.py,                       *)
(* cloudwatch_cost_engine.py).                                             *)
THEOREM UsageCounted == CloudWatchSpec => []UsageIsCounted
BY CallsAttributed, PricedOnce, PTL DEF UsageIsCounted

=============================================================================
