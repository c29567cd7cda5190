------------------------------ MODULE PriceCatalog ------------------------------
(* Prices of OCI resources: their versions, each with the interval it is in       *)
(* effect, as administrators create, change and disable them, and the worker that *)
(* values volumes with the prices it has read (pricing_admin.py, pricing_audit.py,*)
(* pricing_catalog.py, oci_pricing.py). Instants are numbers; a version without   *)
(* an end lasts until Never. A price is told by its version.                      *)
EXTENDS Naturals, Sequences, FiniteSets

CONSTANTS
    Skus,           \* what is priced: service, sku and unit
    Editors,        \* requests of administrators in flight at a time
    MaxDay,         \* the last instant considered
    MaxPrices,      \* bounds on the versions and on the changes, for
    MaxChanges      \* model checking

ASSUME PriceAssumption ==
    IsFiniteSet(Skus) /\ Skus # {} /\ MaxDay \in Nat /\ MaxPrices \in Nat /\ MaxChanges \in Nat

VARIABLES
    price,          \* the PricingCatalogItem rows, in the order they were added
    audit,          \* the PricingAuditEvent rows: what was done to which version
    edit,           \* edit[a]: how far the request is, and what it will write
    day,
    readPrices,     \* the snapshot the worker process keeps
    valued          \* the last valuation of a volume

priceVars == <<price, audit, edit, day, readPrices, valued>>

Instants == 0..MaxDay
Never == MaxDay + 1
PriceIds == 1..MaxPrices
Ids == DOMAIN price

Version(sku, from, until, enabled) ==
    [sku |-> sku, from |-> from, until |-> until, enabled |-> enabled]
NoWrite == [kind |-> "none", from |-> 0, until |-> Never, enabled |-> FALSE]
NoEdit(sku) == [step |-> "idle", id |-> 0, sku |-> sku, write |-> NoWrite]
NothingReadYet == [taken |-> FALSE, at |-> 0, items |-> [s \in Skus |-> 0]]
NoValue == [at |-> Never, items |-> [s \in Skus |-> 0]]

(* Every price is seeded, and in effect from the first instant on.               *)
PriceInit ==
    /\ \E s \in [1..Cardinality(Skus) -> Skus] :
          /\ \A i, j \in DOMAIN s : s[i] = s[j] => i = j
          /\ price = [i \in DOMAIN s |-> Version(s[i], 0, Never, TRUE)]
    /\ audit = <<>>
    /\ edit = [a \in Editors |-> NoEdit(CHOOSE s \in Skus : TRUE)]
    /\ day = 0
    /\ readPrices = NothingReadYet /\ valued = NoValue

-----------------------------------------------------------------------------
(* lifecycle_status of an enabled version is then "active"; _effective_query.    *)
InEffect(i, t) == price[i].enabled /\ price[i].from <= t /\ t < price[i].until

Effective(sku, t) == {i \in Ids : price[i].sku = sku /\ InEffect(i, t)}

(* What _ensure_no_overlap finds.                                                *)
Overlapping(sku, start, end, except) ==
    {i \in Ids \ except : /\ price[i].sku = sku /\ price[i].enabled
                          /\ price[i].until > start /\ price[i].from < end}

(* The unique key of the rows, disabled ones too.                                *)
Taken(sku, from) == \E i \in Ids : price[i].sku = sku /\ price[i].from = from

-----------------------------------------------------------------------------
(* A request arrives; an edit takes its row, which no other edit may hold. What   *)
(* it asks for is chosen where it is looked at first, in DecideEdit.                 *)
AskCreate(a) ==
    /\ edit[a].step = "idle"
    /\ \E s \in Skus : edit' = [edit EXCEPT ![a] = [NoEdit(s) EXCEPT !.step = "asked"]]
    /\ UNCHANGED <<price, audit, day, readPrices, valued>>

RowFree(i) == \A b \in Editors : edit[b].step # "idle" => edit[b].id # i

AskEdit(a) ==
    /\ edit[a].step = "idle"
    /\ \E i \in Ids :
          /\ RowFree(i)
          /\ edit' = [edit EXCEPT ![a] =
                        [step |-> "asked", id |-> i, sku |-> price[i].sku, write |-> NoWrite]]
    /\ UNCHANGED <<price, audit, day, readPrices, valued>>

(* The advisory lock of the identity, until the transaction ends.                *)
Holds(b, sku) == edit[b].step \in {"locked", "ready"} /\ edit[b].sku = sku

(* Mutant: the lock of the identity is not taken.                                *)
MutantLockIdentity(a) ==
    /\ edit[a].step = "asked"
    /\ edit' = [edit EXCEPT ![a].step = "locked"]
    /\ UNCHANGED <<price, audit, day, readPrices, valued>>

LockIdentity(a) ==
    /\ edit[a].step = "asked"
    /\ \A b \in Editors \ {a} : ~Holds(b, edit[a].sku)
    /\ edit' = [edit EXCEPT ![a].step = "locked"]
    /\ UNCHANGED <<price, audit, day, readPrices, valued>>

(* create_item: values that are in order, an interval free of enabled versions   *)
(* if it is to be enabled, and the key must be free.                             *)
Creates(a, write) ==
    LET s == edit[a].sku
    IN /\ edit[a].id = 0
       /\ write.kind = "create" /\ write.from < write.until
       /\ write.enabled => Overlapping(s, write.from, write.until, {}) = {}
       /\ ~Taken(s, write.from)

(* update_item with a price: the version, still enabled, is cut in two.          *)
Reprices(a, write) ==
    LET i == edit[a].id
    IN /\ i # 0
       /\ write.kind = "reprice" /\ write.enabled
       /\ price[i].enabled
       /\ price[i].from < write.from /\ write.from < price[i].until
       /\ write.until = price[i].until
       /\ Overlapping(edit[a].sku, write.from, write.until, {i}) = {}
       /\ ~Taken(edit[a].sku, write.from)

(* update_item with a description only, or deactivate.                           *)
Describes(a, write) == edit[a].id # 0 /\ write = [NoWrite EXCEPT !.kind = "describe"]
Deactivates(a, write) == edit[a].id # 0 /\ write = [NoWrite EXCEPT !.kind = "deactivate"]

Writes == [kind : {"create", "reprice"}, from : Instants, until : 1..Never, enabled : BOOLEAN]
          \cup {[NoWrite EXCEPT !.kind = k] : k \in {"describe", "deactivate"}}

(* The row is read again under the lock, and the request looked at.              *)
DecideEdit(a) ==
    /\ edit[a].step = "locked"
    /\ \E write \in Writes :
          /\ Creates(a, write) \/ Reprices(a, write) \/ Describes(a, write) \/ Deactivates(a, write)
          /\ edit' = [edit EXCEPT ![a].step = "ready", ![a].write = write]
    /\ UNCHANGED <<price, audit, day, readPrices, valued>>

(* What is asked for is out of order, overlaps, or has a taken key.              *)
RefuseEdit(a) ==
    /\ edit[a].step = "locked"
    /\ edit' = [edit EXCEPT ![a] = NoEdit(edit[a].sku)]
    /\ UNCHANGED <<price, audit, day, readPrices, valued>>

WithVersion(w, a) == Append(price, Version(edit[a].sku, w.from, w.until, w.enabled))

(* The rows the transaction leaves.                                              *)
PricesWritten(a) ==
    LET w == edit[a].write
        i == edit[a].id
    IN CASE w.kind = "create" -> WithVersion(w, a)
         [] w.kind = "reprice" -> [WithVersion(w, a) EXCEPT ![i].until = w.from]
         [] w.kind = "deactivate" -> [price EXCEPT ![i].enabled = FALSE]
         [] w.kind = "describe" -> price

(* A version that is added is named by its event.                                *)
Event(a) ==
    LET w == edit[a].write
    IN [kind |-> w.kind, enabled |-> w.enabled,
        id |-> IF w.kind \in {"create", "reprice"} THEN Len(price) + 1 ELSE edit[a].id]

(* An edit that changes nothing leaves no event.                                 *)
CommitEdit(a) ==
    /\ edit[a].step = "ready"
    /\ Len(PricesWritten(a)) <= MaxPrices /\ Len(audit) < MaxChanges
    /\ price' = PricesWritten(a)
    /\ audit' = IF price' = price /\ edit[a].write.kind # "describe" THEN audit
                ELSE Append(audit, Event(a))
    /\ edit' = [edit EXCEPT ![a] = NoEdit(edit[a].sku)]
    /\ UNCHANGED <<day, readPrices, valued>>

-----------------------------------------------------------------------------
(* PricingResolver.snapshot: one version of every identity, or none; two are an   *)
(* error, and nothing is kept.                                                   *)
Ambiguous(t) == \E s \in Skus : Cardinality(Effective(s, t)) > 1

PricesAt(t) == [s \in Skus |-> IF Effective(s, t) = {} THEN 0
                            ELSE CHOOSE i \in Effective(s, t) : TRUE]

(* OciPricingService._catalog: what the process has read once serves for good.    *)
Catalog(t) ==
    IF readPrices.taken THEN readPrices ELSE [taken |-> TRUE, at |-> t, items |-> PricesAt(t)]

(* block_volume_monthly_pricing: with a price missing there is no value.         *)
Valuation(catalog) ==
    IF \A s \in Skus : catalog.items[s] # 0 THEN [at |-> day, items |-> catalog.items]
    ELSE valued

(* _volume_pricing, in the course of a run: what is missing ends the analysis.    *)
ValueVolume ==
    /\ readPrices.taken \/ ~Ambiguous(day)
    /\ readPrices' = Catalog(day)
    /\ valued' = Valuation(Catalog(day))
    /\ UNCHANGED <<price, audit, edit, day>>

(* The worker is started anew.                                                   *)
RestartWorker ==
    /\ readPrices.taken
    /\ readPrices' = NothingReadYet
    /\ UNCHANGED <<price, audit, edit, day, valued>>

DayPasses ==
    /\ day < MaxDay
    /\ day' = day + 1
    /\ UNCHANGED <<price, audit, edit, readPrices, valued>>

PriceNext ==
    \/ \E a \in Editors : \/ AskCreate(a) \/ AskEdit(a) \/ LockIdentity(a) \/ DecideEdit(a)
                          \/ RefuseEdit(a) \/ CommitEdit(a)
    \/ ValueVolume \/ RestartWorker \/ DayPasses

PriceSpec == PriceInit /\ [][PriceNext]_priceVars

-----------------------------------------------------------------------------
(* The instants that were given a price: all at first, by the seeded versions,    *)
(* and those of the versions that were deactivated.                              *)
Withdrawn(sku, t) ==
    \E n \in DOMAIN audit :
       LET i == audit[n].id
       IN /\ audit[n].kind = "deactivate" /\ price[i].sku = sku
          /\ price[i].from <= t /\ t < price[i].until

(* Whatever administrators do at once, at no instant two versions of a price are  *)
(* in effect (the snapshot of a run would fail as a whole), and an instant that   *)
(* has lost its price lost it to a deactivation the audit trail tells of: a       *)
(* change of price leaves no gap and no overlap (update_item, create_item,        *)
(* deactivate and their two locks).                                              *)
PriceAlwaysResolves ==
    \A s \in Skus : \A t \in Instants :
       /\ Cardinality(Effective(s, t)) <= 1
       /\ Effective(s, t) = {} => Withdrawn(s, t)

(* A run values a volume with the prices in effect when it does (roadmap: new     *)
(* runs read the updated catalog without a restart).                             *)
NewRunReadsCatalog ==
    [][valued'.at = day /\ valued' # valued =>
          \A s \in Skus : valued'.items[s] \in Effective(s, day)]_priceVars

=============================================================================
