---------------------------- MODULE OciCollection ----------------------------
(***************************************************************************)
(* One collection of an OCI tenancy: the compartments in scope, the search *)
(* index, the services region by region and compartment by compartment, the*)
(* other sources, and what is then declared (collection_executors.py,      *)
(* oci_scope.py, oci_discovery.py, oci_inventory.py, oci_correlation.py,   *)
(* oci_analyzers.py, opportunity_reconciliation.py). A behaviour follows   *)
(* one rule; all rules are analysed over one discovery. Every listing is   *)
(* taken at one moment, or in part.                                        *)
(***************************************************************************)
EXTENDS Integers, Sequences, FiniteSets

CONSTANTS
    OciAssets,      \* resources of the tenancy
    Compartments,
    Tenancy,        \* the root compartment
    Children,       \* Children[c]: what listing c tells of; of the root, all below it
    OciRegions,     \* the regions a tenancy may be subscribed to, in their order
    MaxOciCloud     \* bound on the changes of the tenancy, for model checking

InSeq(c, s) == \E i \in DOMAIN s : s[i] = c

(* What is below a compartment below the root is below the root.             *)
ASSUME OciAssumption ==
    /\ Tenancy \in Compartments /\ Children \in [Compartments -> Seq(Compartments)]
    /\ \A c, d \in Compartments :
          InSeq(c, Children[Tenancy]) /\ InSeq(d, Children[c]) => InSeq(d, Children[Tenancy])
    /\ OciRegions \in Seq(STRING) /\ OciRegions # <<>>

VARIABLES
    ociFact,        \* ociFact[a]: what holds of the resource
    ociAlways,      \* ociAlways[a]: what has held since the collection began
    ociEver,        \* ociEver[a]: what has held at some time since then
    place,          \* place[a]: where it is, and of what kind
    ociClouded,     \* the number of changes so far
    oci,            \* the execution
    ociResult       \* what it returns, and the scope rows

ociVars == <<ociFact, ociAlways, ociEver, place, ociClouded, oci, ociResult>>

(* here: it exists. state: in the state and of the lifetime the rule asks    *)
(* for. tags: it has none. use: a volume without attachments, an address     *)
(* without an entity, an instance with storage.                              *)
OciFacts == {"here", "state", "tags", "use"}

Kinds == {"compute_instance", "block_volume", "boot_volume", "public_ip"}

BlockVolumeUnattached == [kinds |-> {"block_volume"}, needs |-> {"here", "state", "use"},
                          complete |-> {"block_volume"}]
PublicIpUnassigned == [kinds |-> {"public_ip"}, needs |-> {"here", "state", "use"},
                       complete |-> {"public_ip"}]
StoppedComputeWithStorage ==
    [kinds |-> {"compute_instance"}, needs |-> {"here", "state", "use"},
     complete |-> {"compute_instance", "block_volume", "boot_volume"}]

(* Of each kind by itself. *)
UntaggedResource == [kinds |-> Kinds, needs |-> {"here", "tags"}, complete |-> {}]

Analyzers == {BlockVolumeUnattached, PublicIpUnassigned, StoppedComputeWithStorage,
              UntaggedResource}

(* The compartment of what it is attached to, or of what is attached to it:  *)
(* an attachment is in the compartment of the instance. boot: the storage of *)
(* an instance is its boot volume.                                           *)
Place == [region : {OciRegions[i] : i \in DOMAIN OciRegions}, compartment : Compartments,
          kind : Kinds, other : Compartments, boot : BOOLEAN]

InScope(a) == InSeq(place[a].region, oci.regions) /\ InSeq(place[a].compartment, oci.compartments)

NothingRead == [a \in OciAssets |-> {}]

(* Whose turn it is: a region, a compartment and a call, by their numbers.   *)
FirstTurn(region) == [region |-> region, compartment |-> 1, call |-> 0]

OciInit ==
    /\ place \in [OciAssets -> Place]
    /\ ociFact \in [OciAssets -> SUBSET OciFacts] /\ ociAlways = ociFact /\ ociEver = ociFact
    /\ ociClouded = 0
    /\ \E rule \in Analyzers, roots \in {<<>>} \cup {<<c>> : c \in Compartments}, deep \in BOOLEAN,
         n \in DOMAIN OciRegions :
          /\ deep => roots # <<>>
          /\ oci = [rule |-> rule, step |-> "credentials", roots |-> roots, deep |-> deep,
                    regions |-> SubSeq(OciRegions, 1, n),
                    queue |-> <<>>, compartments |-> <<>>, complete |-> TRUE,
                    searched |-> {}, conflicts |-> {}, searchComplete |-> TRUE,
                    turn |-> FirstTurn(1), listed |-> {}, view |-> NothingRead, incomplete |-> {},
                    uncovered |-> {}, errors |-> FALSE, issues |-> FALSE, fatal |-> FALSE]
    /\ ociResult = [found |-> {}, seen |-> {}, complete |-> {}, rows |-> {}]

-----------------------------------------------------------------------------
(* The tenancy changes. *)
OciChanges ==
    /\ ociClouded < MaxOciCloud /\ oci.step \notin {"credentials", "completed", "failed"}
    /\ \E a \in OciAssets, f \in OciFacts :
          /\ ociFact' = [ociFact EXCEPT ![a] = (@ \ {f}) \cup ({f} \ @)]
          /\ ociAlways' = [ociAlways EXCEPT ![a] = @ \cap ociFact'[a]]
          /\ ociEver' = [ociEver EXCEPT ![a] = @ \cup ociFact'[a]]
    /\ ociClouded' = ociClouded + 1
    /\ UNCHANGED <<place, oci, ociResult>>

OciMoves(new) == oci' = new /\ UNCHANGED <<ociFact, ociAlways, ociEver, place, ociClouded>>

(* Credentials that cannot be resolved, or of another tenancy; a call refused*)
(* for its signature, in any source; an error nobody expects.                *)
OciScanFails ==
    /\ oci.step \notin {"completed", "failed"}
    /\ OciMoves([oci EXCEPT !.step = "failed"]) /\ UNCHANGED ociResult

(* The account's own regions and compartments, and what is below them if so  *)
(* configured.                                                               *)
ResolveScope ==
    /\ oci.step = "credentials"
    /\ OciMoves([oci EXCEPT !.step = "scope", !.compartments = oci.roots,
                            !.queue = IF oci.deep THEN oci.roots ELSE <<>>])
    /\ UNCHANGED ociResult

(* What the first n of a listing tell of that is not known yet, in its order.*)
News(listed, n, known) ==
    LET new == {listed[i] : i \in 1..n} \ {known[i] : i \in DOMAIN known}
    IN  {s \in [1..Cardinality(new) -> new] :
            /\ \A c \in new : InSeq(c, s)
            /\ \A i, j \in DOMAIN s :
                  i < j => \E p, q \in 1..n : p < q /\ listed[p] = s[i] /\ listed[q] = s[j]}

(* A compartment is listed, breadth first; all below the tenancy comes as one*)
(* answer. What an error cuts off is not in the scope.                       *)
ExpandCompartment ==
    /\ oci.step = "scope" /\ oci.queue # <<>>
    /\ LET all == Children[Head(oci.queue)]
       IN  \E n \in 0..Len(all) : \E new \in News(all, n, oci.compartments) :
              OciMoves([oci EXCEPT
                  !.queue = Tail(@) \o (IF Head(oci.queue) = Tenancy THEN <<>> ELSE new),
                  !.compartments = @ \o new,
                  !.complete = @ /\ n = Len(all), !.errors = @ \/ n < Len(all)])
    /\ UNCHANGED ociResult

(* Nothing is looked at when the scope is empty, and nothing is missing then.*)
ScopeResolved ==
    /\ oci.step = "scope" /\ oci.queue = <<>>
    /\ OciMoves([oci EXCEPT !.step = IF oci.compartments = <<>> THEN "advisor" ELSE "search"])
    /\ UNCHANGED ociResult

(* The index of the first region follows what there is with some delay, in   *)
(* the states it had; it is asked for all, and what is out of scope dropped. *)
DiscoverSearch ==
    /\ oci.step = "search"
    /\ \E items \in SUBSET {a \in OciAssets : InScope(a) /\ place[a].region = oci.regions[1]},
          complete \in BOOLEAN :
          \E conflicts \in {{}, items} :
              OciMoves([oci EXCEPT !.step = "services", !.searched = items,
                                   !.conflicts = conflicts, !.searchComplete = complete,
                                   !.errors = @ \/ ~complete])
    /\ UNCHANGED ociResult

-----------------------------------------------------------------------------
(* The calls of a region: its availability domains; of each compartment the  *)
(* instances, volumes, boot volumes and both kinds of attachments; then of   *)
(* each compartment the addresses.                                           *)
CallNames ==
    <<"instances", "volumes", "boots", "attachments", "boot attachments", "addresses">>

NextCall ==
    LET turn == oci.turn IN
    [region |-> oci.regions[turn.region],
     compartment |-> IF turn.call = 0 THEN Tenancy ELSE oci.compartments[turn.compartment],
     call |-> IF turn.call = 0 THEN "domains" ELSE CallNames[turn.call]]

(* Whose turn it is next. *)
NextTurn ==
    LET turn == oci.turn
        last == turn.compartment = Len(oci.compartments)
    IN  CASE turn.call < 5              -> [turn EXCEPT !.call = @ + 1]
          [] turn.call = 5 /\ ~last     -> [turn EXCEPT !.compartment = @ + 1, !.call = 1]
          [] turn.call = 5 /\ last      -> [turn EXCEPT !.compartment = 1, !.call = 6]
          [] turn.call = 6 /\ ~last     -> [turn EXCEPT !.compartment = @ + 1]
          [] OTHER                      -> FirstTurn(turn.region + 1)

KindOf == [instances |-> "compute_instance", volumes |-> "block_volume",
           boots |-> "boot_volume", addresses |-> "public_ip"]

At(a) == place[a].region = NextCall.region /\ place[a].compartment = NextCall.compartment

(* Every call but the last of the last region is followed by the next.       *)
Called(new) ==
    OciMoves([new EXCEPT !.turn = NextTurn,
                         !.step = IF NextTurn.region > Len(oci.regions) THEN "advisor" ELSE "services"])

(* Addresses of a domain that is not known are not asked for. *)
AvailabilityDomains ==
    /\ oci.step = "services" /\ NextCall.call = "domains"
    /\ \E ok \in BOOLEAN :
          Called(IF ok THEN oci
                 ELSE [oci EXCEPT !.uncovered = @ \cup {"public_ip"}, !.errors = TRUE])
    /\ UNCHANGED ociResult

(* All pages of a kind of resources, or those before an error.               *)
ListKind ==
    /\ oci.step = "services" /\ NextCall.call \in DOMAIN KindOf
    /\ LET kind == KindOf[NextCall.call]
           reads == {"here", "state", "tags"} \cup (IF kind = "public_ip" THEN {"use"} ELSE {})
           present == {a \in OciAssets : At(a) /\ place[a].kind = kind /\ "here" \in ociFact[a]}
       IN  \E pages \in SUBSET present, ok \in BOOLEAN :
              /\ ok => pages = present
              /\ Called([oci EXCEPT
                     !.listed = @ \cup pages,
                     !.view = [a \in OciAssets |->
                                  IF a \in pages THEN @[a] \cup (ociFact[a] \cap reads) ELSE @[a]],
                     !.uncovered = IF ok THEN @ ELSE @ \cup {kind},
                     !.errors = @ \/ ~ok])
    /\ UNCHANGED ociResult

(* A volume is without attachments when the compartment it is in has none of *)
(* it. The storage of an instance is known from the attachments where the    *)
(* instance is; a page that fails leaves the volumes' attachments incomplete.*)
VolumeAttachments ==
    /\ oci.step = "services" /\ NextCall.call = "attachments"
    /\ LET volumes == {a \in oci.listed : At(a) /\ place[a].kind = "block_volume"}
           bare == {a \in volumes : "use" \in ociFact[a] \/ place[a].other # NextCall.compartment}
           stored == {a \in OciAssets : At(a) /\ place[a].kind = "compute_instance"
                                         /\ ~place[a].boot /\ "use" \in ociFact[a]}
       IN  \E ok \in BOOLEAN :
              Called(IF ok
                     THEN [oci EXCEPT !.view = [a \in OciAssets |->
                               IF a \in bare \cup stored THEN @[a] \cup {"use"} ELSE @[a]]]
                     ELSE [oci EXCEPT !.incomplete = @ \cup volumes, !.errors = TRUE])
    /\ UNCHANGED ociResult

(* Boot attachments are asked for where boot volumes have been listed.       *)
BootAttachments ==
    /\ oci.step = "services" /\ NextCall.call = "boot attachments"
    /\ LET boots == {a \in oci.listed : At(a) /\ place[a].kind = "boot_volume"}
           stored == {a \in OciAssets : At(a) /\ place[a].kind = "compute_instance"
                                         /\ place[a].boot /\ "use" \in ociFact[a]
                                         /\ (boots # {} \/ place[a].other = NextCall.compartment)}
       IN  \E ok \in BOOLEAN :
              /\ boots \cup stored = {} => ok
              /\ Called(IF ok
                        THEN [oci EXCEPT !.view = [a \in OciAssets |->
                                  IF a \in stored THEN @[a] \cup {"use"} ELSE @[a]]]
                        ELSE [oci EXCEPT !.incomplete = @ \cup boots, !.errors = TRUE])
    /\ UNCHANGED ociResult

-----------------------------------------------------------------------------
(* A further source of the same account: it resolves the scope again, asks   *)
(* page by page, and is complete, partial, or refused.                       *)
Source(step, next) ==
    /\ oci.step = step
    /\ \E outcome \in {"success", "partial", "failed"} :
          OciMoves([oci EXCEPT !.step = next, !.issues = @ \/ outcome # "success",
                               !.fatal = @ \/ outcome = "failed"])
    /\ UNCHANGED ociResult

CollectAdvisor == Source("advisor", "usage")
CollectUsage == Source("usage", "monitoring")
CollectMonitoring == Source("monitoring", "correlation")

(* The coverage of attachments is that of all volumes of their kind.         *)
RelationshipsComplete == oci.incomplete = {} /\ oci.uncovered \cap {"block_volume", "boot_volume"} = {}

(* Of the resources a service has listed, those the rule applies to, if      *)
(* nothing at all went wrong in the discovery.                               *)
Analyzed ==
    {a \in oci.listed :
        /\ place[a].kind \in oci.rule.kinds /\ oci.rule.needs \subseteq oci.view[a]
        /\ ~oci.errors /\ oci.uncovered \cap (oci.rule.complete \cup {place[a].kind}) = {}
        /\ oci.rule = BlockVolumeUnattached => a \notin oci.incomplete
        /\ oci.rule = StoppedComputeWithStorage => RelationshipsComplete}

(* Kinds of which the discovery has all there is in the scope. *)
Covered == IF oci.complete THEN Kinds \ oci.uncovered ELSE {}

(* The index and the services tell of different resources, or of different   *)
(* states of one.                                                            *)
ConsistencyWarnings ==
    \/ /\ oci.searchComplete
       /\ \E a \in OciAssets : /\ place[a].kind \in Covered
                               /\ (a \in oci.listed) # (a \in oci.searched)
    \/ oci.conflicts \cap oci.listed # {}

(* Sources are looked at once all have been asked: one that was refused fails*)
(* the collection, whatever the others had.                                  *)
Analyze ==
    /\ oci.step = "correlation" /\ ~oci.fatal
    /\ OciMoves([oci EXCEPT !.step = "analyzed"])
    /\ ociResult' = [ociResult EXCEPT !.found = Analyzed]

(* The inventory takes all that is known of, the index included.             *)
PersistInventory ==
    /\ oci.step = "analyzed"
    /\ OciMoves([oci EXCEPT !.step = "returned"])
    /\ ociResult' = [ociResult EXCEPT !.seen = oci.listed \cup oci.searched, !.complete = Covered]

(* Mutant: what went wrong in the discovery is left to its coverage.         *)
MutantAnyIssue == oci.issues \/ ConsistencyWarnings

AnyIssue == oci.errors \/ oci.issues \/ ConsistencyWarnings

(* Rules have no issues of their own: one, of any source, and no rule may    *)
(* conclude anything in any region.                                          *)
OciComplete ==
    /\ oci.step = "returned"
    /\ OciMoves([oci EXCEPT !.step = "completed"])
    /\ ociResult' = [ociResult EXCEPT !.rows =
                        {[region |-> oci.regions[i], status |-> IF AnyIssue THEN "SKIPPED" ELSE "SUCCESS"] :
                         i \in DOMAIN oci.regions}]

OciNext ==
    \/ OciChanges \/ OciScanFails
    \/ ResolveScope \/ ExpandCompartment \/ ScopeResolved \/ DiscoverSearch
    \/ AvailabilityDomains \/ ListKind \/ VolumeAttachments \/ BootAttachments
    \/ CollectAdvisor \/ CollectUsage \/ CollectMonitoring \/ Analyze \/ PersistInventory
    \/ OciComplete

OciSpec == OciInit /\ [][OciNext]_ociVars

-----------------------------------------------------------------------------
(* A volume attached to an instance of another compartment, or an instance   *)
(* booted from a volume of another one.                                      *)
Straddles(a) == place[a].other # place[a].compartment

(* What is below a compartment, at any depth: what is in every set that has  *)
(* what listing it tells of, and what listing each of the set tells of.      *)
Below(c) ==
    {d \in Compartments :
        \A S \in SUBSET Compartments :
            (\A e \in S \cup {c}, f \in Compartments : InSeq(f, Children[e]) => f \in S)
                => d \in S}
Configured(a) ==
    /\ InSeq(place[a].region, oci.regions)
    /\ \E i \in DOMAIN oci.roots :
          \/ place[a].compartment = oci.roots[i]
          \/ oci.deep /\ place[a].compartment \in Below(oci.roots[i])

(* What an OCI collection declares is so: a rule that succeeded in a region  *)
(* found all it applied to throughout, a kind the inventory covers was seen, *)
(* in whatever order calls failed; and what it found was so at some time. Of *)
(* resources that straddle two compartments it is not (_oci_scope_rows,      *)
(* adapt_oci_inventory).                                                     *)
OciEvidenceIsSound ==
    /\ \A a \in OciAssets :
          /\ \E row \in ociResult.rows : row.region = place[a].region /\ row.status = "SUCCESS"
          /\ place[a].kind \in oci.rule.kinds /\ Configured(a) /\ ~Straddles(a)
          /\ oci.rule.needs \subseteq ociAlways[a]
          => a \in ociResult.found
    /\ \A a \in OciAssets :
          place[a].kind \in ociResult.complete /\ Configured(a) /\ "here" \in ociAlways[a]
             => a \in ociResult.seen
    /\ \A a \in ociResult.found :
          Straddles(a) \/ oci.rule.needs \subseteq ociEver[a]

=============================================================================
