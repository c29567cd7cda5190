------------------------------- MODULE MCEvidence -------------------------------
(* What a collection establishes and what is made of it, for TLC: the accounts    *)
(* and their credentials, a collection of either provider, and the savings        *)
(* recognised from what was seen. A behaviour is of one of them, the others rest. *)
EXTENDS AwsCollection, OciCollection, CloudAccounts, SavingLedger, TLC

CONSTANTS a1, a2, v1, v2, f1, f2
VARIABLE course

(* collectors, discovery: AWS without its inventory, AWS with nothing else.       *)
(* compartments, regions: OCI, two compartments of a region or two regions of a   *)
(* compartment. connections: accounts, and the savings of the ledger:             *)
(*   evidence    one opportunity, all its runs and decisions, nothing by hand     *)
(*   entries     two opportunities, one run, three decisions on the first and     *)
(*               one on the second, all entries                                   *)
AwsCourses == {"collectors", "discovery"}
OciCourses == {"compartments", "regions"}
LedgerCourses == {"evidence", "entries"}
Courses == AwsCourses \cup OciCourses \cup LedgerCourses \cup {"connections"}

evidenceVars == <<awsVars, ociVars, accountVars, vars, course>>

MCRegions == <<"us", "sa">>
MCChildren == [t |-> <<"c">>, c |-> <<>>]

-----------------------------------------------------------------------------
(* The second asset is as the rule asks, at first, and of the first's region or  *)
(* kind.                                                                         *)
OneAsset ==
    /\ asset[a1].region = "us" /\ fact[a2] = Facts
    /\ asset[a2].region = asset[a1].region \/ asset[a2].kind = asset[a1].kind
    /\ course = "discovery" => scan.rule \in {"missing_required_tags", "eip_unassociated"}
    /\ policy["global"] = "none" /\ policy["account"] \in {"none", "off"}
    /\ policy["account"] = "off" => course = "collectors" /\ fact[a1] = Facts

AwsIdle ==
    /\ scan = [rule |-> "eip_unassociated", step |-> "queued", scope |-> {}, regions |-> {},
               active |-> FALSE, scopes |-> {}, left |-> {}]
    /\ asset = [a \in Assets |-> [region |-> "us", kind |-> "address"]]
    /\ fact = [a \in Assets |-> Facts] /\ always = fact /\ ever = fact /\ clouded = 0
    /\ policy = [p \in PolicyScopes |-> "none"] /\ configured = Regions
    /\ collecting = NoCollector
    /\ result = [found |-> {}, failed |-> {}, seen |-> {}, complete |-> {}, rows |-> {}]

AwsCourse ==
    /\ AwsNext
    /\ course = "collectors" => result'.seen = {} /\ result'.complete = {}
    /\ course = "discovery" =>
          scan'.step # "collectors" /\ policy' = policy /\ configured' = configured
    /\ policy'["global"] \in {"none", "off"}
    /\ UNCHANGED <<ociVars, accountVars, vars>>

-----------------------------------------------------------------------------
(* At first the second resource is as any rule asks, beside the first, and of    *)
(* its kind or the volume it boots from; of the first one fact may be missing.   *)
OneResource ==
    /\ \E first \in Place, second \in Place :
          /\ place = (v1 :> first @@ v2 :> second)
          /\ \A p \in {first, second} :
                /\ p.kind # "compute_instance" => ~p.boot
                /\ p.kind \in {"boot_volume", "public_ip"} => p.other = p.compartment
          /\ second.kind \in {first.kind, "boot_volume"}
          /\ second.compartment = "c" /\ second.other = "c"
          /\ course = "compartments" => first.region = "us" /\ second.region = "us"
          /\ course = "regions" =>
                first.compartment = "c" /\ first.other = "c" /\ second.region = "sa"
    /\ \E missing \in {{}} \cup {{f} : f \in OciFacts} :
          ociFact = (v1 :> (OciFacts \ missing) @@ v2 :> OciFacts)
    /\ OciInit
    /\ place[v1].kind \in oci.rule.kinds /\ OciFacts \ oci.rule.needs \subseteq ociFact[v1]
    /\ course = "compartments" => Len(oci.regions) = 1 /\ (oci.deep <=> oci.roots = <<"t">>)
    /\ course = "regions" => Len(oci.regions) = 2 /\ oci.roots = <<"c">> /\ ~oci.deep

OciIdle ==
    /\ place = [v \in OciAssets |-> [region |-> "us", compartment |-> "c", kind |-> "public_ip",
                                     other |-> "c", boot |-> FALSE]]
    /\ ociFact = [v \in OciAssets |-> OciFacts] /\ ociAlways = ociFact /\ ociEver = ociFact
    /\ ociClouded = 0
    /\ oci = [rule |-> PublicIpUnassigned, step |-> "credentials", roots |-> <<>>, deep |-> FALSE,
              regions |-> <<"us">>, queue |-> <<>>, compartments |-> <<>>, complete |-> TRUE,
              searched |-> {}, conflicts |-> {}, searchComplete |-> TRUE,
              turn |-> FirstTurn(1), listed |-> {}, view |-> NothingRead, incomplete |-> {},
              uncovered |-> {}, errors |-> FALSE, issues |-> FALSE, fatal |-> FALSE]
    /\ ociResult = [found |-> {}, seen |-> {}, complete |-> {}, rows |-> {}]

(* One call of the discovery fails, or one source, or the first resource changes, *)
(* once. The index has all it could, or misses one, or is cut off; the collection *)
(* fails at its beginning or once all has been asked.                            *)
OciCourse ==
    /\ OciNext
    /\ oci.errors => /\ oci'.uncovered = oci.uncovered /\ oci'.incomplete = oci.incomplete
                     /\ oci'.complete = oci.complete
    /\ oci.errors \/ oci.issues \/ ociClouded > 0 => oci'.errors = oci.errors /\ oci'.issues = oci.issues
    /\ oci.errors \/ oci.issues \/ oci.conflicts # {} => ociFact' = ociFact
    /\ ociFact'[v2] = ociFact[v2]
    /\ ociFact'[v1] # ociFact[v1] => OciFacts \ oci.rule.needs \subseteq ociFact'[v1]
    /\ oci'.step = "failed" /\ oci.step # "failed" => oci.step \in {"credentials", "correlation"}
    /\ ~oci'.searchComplete => oci'.searched = {}
    /\ oci'.conflicts # {} => v1 \in oci'.conflicts /\ ociClouded = 0
    /\ oci'.fatal /\ ~oci.fatal => oci.step = "monitoring"
    /\ oci.step = "search" /\ oci'.searchComplete => v2 \in oci'.searched \/ ~InScope(v2)
    /\ UNCHANGED <<awsVars, accountVars, vars>>

-----------------------------------------------------------------------------
ConnectionsCourse == AccountsNext /\ UNCHANGED <<awsVars, ociVars, vars>>

ConnectionsIdle ==
    /\ provider = "oci" /\ proved = {} /\ row = NoAccount(1)
    /\ job = [j \in Jobs |-> [kind |-> "none", step |-> "new", copy |-> NoAccount(1),
                              settings |-> 1, key |-> "none", expected |-> 0]]

-----------------------------------------------------------------------------
EvidenceOnly ==
    /\ {o \in obs' : o.finding = f2} = {} /\ history'[f2] = <<>>
    /\ \A e \in ledger' : e.key[1] = f1

AllEntries ==
    /\ now' <= 1 /\ done' \subseteq {1}
    /\ Len(history'[f1]) < MaxEvents /\ Len(history'[f2]) <= 1

LedgerBegins ==
    /\ Init
    /\ course # "entries" => status[f2] = "open" /\ estimate[f2].saving = Nothing
    /\ course \notin LedgerCourses => status[f1] = "open" /\ estimate[f1].saving = Nothing

LedgerCourse ==
    /\ Next
    /\ course = "evidence" => EvidenceOnly
    /\ course = "entries" => AllEntries
    /\ UNCHANGED <<awsVars, ociVars, accountVars>>

-----------------------------------------------------------------------------
EvidenceInit ==
    /\ course \in Courses
    /\ LedgerBegins
    /\ IF course = "connections" THEN AccountsInit ELSE ConnectionsIdle
    /\ IF course \in AwsCourses THEN AwsInit /\ OneAsset ELSE AwsIdle
    /\ IF course \in OciCourses THEN OneResource ELSE OciIdle

EvidenceNext ==
    /\ \/ course \in AwsCourses /\ AwsCourse
       \/ course \in OciCourses /\ OciCourse
       \/ course = "connections" /\ ConnectionsCourse
       \/ course \in LedgerCourses /\ LedgerCourse
    /\ UNCHANGED course

EvidenceSpec == EvidenceInit /\ [][EvidenceNext]_evidenceVars

(* For the connections alone. *)
ConnectionsInit == course = "connections" /\ EvidenceInit

ConnectionsSpec ==
    ConnectionsInit /\ [][EvidenceNext]_evidenceVars

=============================================================================
