----------------------------- MODULE RdsCoverage -----------------------------
(***************************************************************************)
(* How RDS reservations are allotted to running instances                  *)
(* (rds_reservation_engine.py, rds_reservation_rules.py): two passes over  *)
(* the instances, each over the reservations of the instance's pool. The   *)
(* first gives a reservation to instances of exactly its class, the second *)
(* to what is left of the other sizes of its family. What was given is     *)
(* never taken back. One step is one pair of the inner loop.               *)
(***************************************************************************)
EXTENDS Integers, FiniteSetsExt

CONSTANTS
    Demands,        \* number of instances, numbered as the engine sorts them
    Capacities,     \* number of reservations, numbered likewise
    Owners,         \* accounts
    Licences,       \* licence models that are known
    Byol,           \* one of them, bring-your-own-license
    NoLicence,      \* a licence model that neither row nor engine tells
    Pools,          \* a region, engine and family
    Licensed,       \* the pools whose engine has a licence if the row has none
    Flexible,       \* the pools whose engine is size-flexible
    Oracle,         \* the pools whose engine is, of instances that are Byol
    Aurora,         \* those of Flexible that are Aurora
    Classes,
    Units,          \* Units[c]: normalised units of class c, 0 if not supported
    Counts          \* DBInstanceCount of a reservation

ASSUME CoverageAssumption ==
    /\ Demands \in Nat /\ Capacities \in Nat
    /\ Byol \in Licences /\ NoLicence \notin Licences
    /\ Aurora \subseteq Flexible \cap Licensed
    /\ Flexible \cup Licensed \cup Oracle \subseteq Pools
    /\ Units \in [Classes -> Nat]
    /\ Counts \subseteq Nat

VARIABLES
    instance,       \* instance[i]: an active, billable AwsRdsInstance
    reservation,    \* reservation[r]: an active AwsRdsReservedInstance
    demand,         \* demand[i]: remaining_units of i
    capacity,       \* capacity[r]: remaining_units of r
    exact,          \* exact[r][i]: units given for an exact match
    flexed,         \* flexed[r][i]: units given by size flexibility
    pass,           \* 1, 2, or 3 at the end
    pair            \* the instance and the reservation that come next

coverageVars == <<instance, reservation, demand, capacity, exact, flexed, pass, pair>>

Is == 1..Demands
Rs == 1..Capacities

(* Units of demand per unit of the class, in tenths; "iopt" and "standard"  *)
(* are the storages of Aurora.                                              *)
Multiplier ==
    [single_az |-> 10, multi_az_instance |-> 20, multi_az_cluster |-> 30,
     multi_az_cluster_member |-> 10, unknown_cluster |-> 0,
     standard |-> 10, iopt |-> 13, unknown_storage |-> 0]

(* normalize_license_model; reservation_license_model is of the same range. *)
Licensing(pool) == IF pool \in Licensed THEN Licences ELSE Licences \cup {NoLicence}

Topologies(pool) ==
    IF pool \in Aurora THEN {"standard", "iopt", "unknown_storage"}
    ELSE {"single_az", "multi_az_instance", "multi_az_cluster",
          "multi_az_cluster_member", "unknown_cluster"}

Instance ==
    UNION {[owner : Owners, pool : {p}, licence : Licensing(p), class : Classes,
            topology : Topologies(p)] : p \in Pools}

Reservation ==
    UNION {[owner : Owners, pool : {p}, licence : Licensing(p), class : Classes,
            multi : BOOLEAN, count : Counts] : p \in Pools}

(* instance_required_units; 0 is the coverage UNKNOWN.                      *)
Required(i) == Units[instance[i].class] * Multiplier[instance[i].topology]

(* reservation_total_units.                                                 *)
Total(r) ==
    LET twice == reservation[r].multi /\ reservation[r].pool \notin Aurora
    IN  Units[reservation[r].class] * reservation[r].count * (IF twice THEN 20 ELSE 10)

CoverageTypeOK ==
    /\ instance \in [Is -> Instance]
    /\ reservation \in [Rs -> Reservation]
    /\ demand \in [Is -> Nat]
    /\ capacity \in [Rs -> Nat]
    /\ exact \in [Rs -> [Is -> Nat]]
    /\ flexed \in [Rs -> [Is -> Nat]]
    /\ pass \in 1..3
    /\ pair \in (1..Demands + 1) \X (1..Capacities + 1)

SameDeployment(r, i) ==
    reservation[r].multi <=> instance[i].topology = "multi_az_instance"

(* A licence that is not known is no reason to refuse.                      *)
SameLicence(r, i) ==
    \/ NoLicence \in {instance[i].licence, reservation[r].licence}
    \/ instance[i].licence = reservation[r].licence

Agree(r, i) ==
    /\ instance[i].pool = reservation[r].pool
    /\ instance[i].owner = reservation[r].owner
    /\ SameLicence(r, i)

(* supports_size_flexibility, which match asks of the instance's licence.   *)
SizeFlexible(i) ==
    \/ instance[i].pool \in Flexible
    \/ instance[i].pool \in Oracle /\ instance[i].licence = Byol

(* RdsReservationMatcher.match returns "exact".                             *)
MatchesExactly(r, i) ==
    /\ Agree(r, i)
    /\ instance[i].class = reservation[r].class
    /\ IF SizeFlexible(i)
       THEN \/ instance[i].pool \in Aurora
            \/ instance[i].topology = "multi_az_cluster_member"
            \/ SameDeployment(r, i)
       ELSE /\ instance[i].topology \notin {"multi_az_cluster", "multi_az_cluster_member"}
            /\ SameDeployment(r, i)

(* It returns "size_flexible".                                              *)
MatchesFlexibly(r, i) ==
    /\ Agree(r, i)
    /\ SizeFlexible(i)
    /\ Units[instance[i].class] > 0 /\ Units[reservation[r].class] > 0
    /\ ~MatchesExactly(r, i)

CoverageInit ==
    /\ instance \in [Is -> Instance]
    /\ reservation \in [Rs -> Reservation]
    /\ demand = [i \in Is |-> Required(i)]
    /\ capacity = [r \in Rs |-> Total(r)]
    /\ exact = [r \in Rs |-> [i \in Is |-> 0]]
    /\ flexed = [r \in Rs |-> [i \in Is |-> 0]]
    /\ pass = 1
    /\ pair = <<1, 1>>

Smaller(a, b) == IF a <= b THEN a ELSE b

(* Mutant: the instance is given what it needs, whatever is left. *)
MutantAllocate(r, i) ==
    /\ demand' = [demand EXCEPT ![i] = 0]
    /\ capacity' = [capacity EXCEPT ![r] = @ - demand[i]]
    /\ exact' = IF pass = 1 THEN [exact EXCEPT ![r][i] = @ + demand[i]] ELSE exact
    /\ flexed' = IF pass = 2 THEN [flexed EXCEPT ![r][i] = @ + demand[i]] ELSE flexed

(* _allocate.                                                               *)
Allocate(r, i) ==
    LET units == Smaller(capacity[r], demand[i])
    IN  /\ demand' = [demand EXCEPT ![i] = @ - units]
        /\ capacity' = [capacity EXCEPT ![r] = @ - units]
        /\ exact' = IF pass = 1 THEN [exact EXCEPT ![r][i] = @ + units] ELSE exact
        /\ flexed' = IF pass = 2 THEN [flexed EXCEPT ![r][i] = @ + units] ELSE flexed

(* Mutant: only a reservation nobody has used is given to other sizes. *)
MutantWanted(r, i) ==
    IF pass = 1 THEN MatchesExactly(r, i) ELSE MatchesFlexibly(r, i) /\ capacity[r] = Total(r)

(* Mutant: an instance is given one reservation at most. *)
MutantWantedOnce(r, i) ==
    /\ demand[i] = Required(i)
    /\ IF pass = 1 THEN MatchesExactly(r, i) ELSE MatchesFlexibly(r, i)

(* The test of the inner loop of either pass. *)
Wanted(r, i) == IF pass = 1 THEN MatchesExactly(r, i) ELSE MatchesFlexibly(r, i)

(* One pair of analyze: an instance or a reservation with nothing left, and *)
(* a pair that does not match, are passed over.                             *)
Consider ==
    LET i == pair[1]
        r == pair[2]
    IN  /\ pass < 3 /\ i <= Demands /\ r <= Capacities
        /\ IF demand[i] > 0 /\ capacity[r] > 0 /\ Wanted(r, i)
           THEN Allocate(r, i)
           ELSE UNCHANGED <<demand, capacity, exact, flexed>>
        /\ pair' = <<i, r + 1>>
        /\ UNCHANGED <<instance, reservation, pass>>

NextInstance ==
    /\ pass < 3 /\ pair[1] <= Demands /\ pair[2] > Capacities
    /\ pair' = <<pair[1] + 1, 1>>
    /\ UNCHANGED <<instance, reservation, demand, capacity, exact, flexed, pass>>

NextPass ==
    /\ pass < 3 /\ pair[1] > Demands
    /\ pass' = pass + 1
    /\ pair' = <<1, 1>>
    /\ UNCHANGED <<instance, reservation, demand, capacity, exact, flexed>>

CoverageNext == Consider \/ NextInstance \/ NextPass

CoverageSpec == CoverageInit /\ [][CoverageNext]_coverageVars

-----------------------------------------------------------------------------
(* Properties. *)

GivenTo(i) == MapThenSumSet(LAMBDA r : exact[r][i] + flexed[r][i], Rs)

(* At the end no instance is short of what a reservation that fits it has   *)
(* left: an opportunity to buy is never reported beside unused capacity     *)
(* that would do (analyze).                                                 *)
NothingFitsLeft ==
    pass = 3 => \A i \in Is, r \in Rs :
        demand[i] > 0 /\ capacity[r] > 0 =>
            ~MatchesExactly(r, i) /\ ~MatchesFlexibly(r, i)

(* A reservation is stretched to other sizes only when every instance of    *)
(* exactly its kind is wholly covered (the comment on phase 1 of analyze).  *)
ExactComesFirst ==
    \A r \in Rs, i, j \in Is :
        flexed[r][j] > 0 /\ MatchesExactly(r, i) =>
            demand[i] = 0 /\ \A s \in Rs : flexed[s][i] = 0

(* Reservations are first spent on their kind and then spent wholly: both   *)
(* of the above, which one order of the two passes must give (analyze).     *)
WellSpent == ExactComesFirst /\ NothingFitsLeft

(* What none can exceed: whatever is allotted, and in whatever order, the   *)
(* instances of S get no more than the reservations have that fit them, and *)
(* the others no more than they need.                                       *)
Fitting(i) == {r \in Rs : Total(r) > 0 /\ (MatchesExactly(r, i) \/ MatchesFlexibly(r, i))}
Limit(S) == MapThenSumSet(Total, UNION {Fitting(i) : i \in S})
            + MapThenSumSet(Required, Is \ S)

LicencesKnown ==
    /\ \A i \in Is : instance[i].licence # NoLicence
    /\ \A r \in Rs : reservation[r].licence # NoLicence

(* What is covered in all is the most that can be while every licence is    *)
(* known: the order of the loops decides who is covered, never how much. A  *)
(* licence that is not known agrees with any, and then an instance may be   *)
(* given what another needed more: at least half of the most is covered     *)
(* even so (analyze, match).                                                *)
CoversTheMost ==
    LET covered == MapThenSumSet(GivenTo, Is)
    IN pass = 3 =>
         /\ \A S \in SUBSET Is : covered <= Limit(S)
         /\ LicencesKnown => \E S \in SUBSET Is : covered = Limit(S)
         /\ \E S \in SUBSET Is : 2 * covered >= Limit(S)

=============================================================================
