---------------------------- MODULE Records_proofs ----------------------------
(***************************************************************************)
(* Proofs about components that keep rows or files. Reservations are spent *)
(* on their kind first and then wholly, and cover the most they can when   *)
(* licences are known and half of it at least when not, for any number of  *)
(* instances and reservations; what is generated of coverage is concluded  *)
(* of what was read, whoever else generates; a session, a link or a code   *)
(* proves what it did not prove before, for any number of requests; and    *)
(* what is served of HTTPS is what applies reported, for any number of     *)
(* applies.                                                                *)
(***************************************************************************)
EXTENDS RdsCoverage, RdsFindings, AuthSessions, TlsApply, Sums

-----------------------------------------------------------------------------
(* The allotment of RDS reservations (RdsCoverage). *)

(* The pairs the loops of a pass have come to.                             *)
Considered(p, r, i) ==
    \/ pass > p
    \/ pass = p /\ (i < pair[1] \/ (i = pair[1] /\ r < pair[2]))

(* A pair a pass has considered has nothing left to give or to need.       *)
ExactSettled ==
    \A r \in Rs, i \in Is :
        Considered(1, r, i) /\ MatchesExactly(r, i) => demand[i] = 0 \/ capacity[r] = 0
(* The same of the second pass.                                             *)
FlexSettled ==
    \A r \in Rs, i \in Is :
        Considered(2, r, i) /\ MatchesFlexibly(r, i) => demand[i] = 0 \/ capacity[r] = 0

(* Flexibility begins when exactness is over, and then only with what no    *)
(* instance of exactly the kind needed.                                    *)
FlexComesLater ==
    /\ pass = 1 => \A r \in Rs, i \in Is : flexed[r][i] = 0
    /\ pass > 1 => \A r \in Rs, i \in Is :
          MatchesExactly(r, i) /\ (capacity[r] > 0 \/ \E j \in Is : flexed[r][j] > 0) =>
              demand[i] = 0 /\ \A s \in Rs : flexed[s][i] = 0

(* What holds of the allotment after every pair.                            *)
CoverageInv == CoverageTypeOK /\ ExactSettled /\ FlexSettled /\ FlexComesLater

(* A reservation is of a class, and of as many instances as it counts.      *)
LEMMA ReservedIsCounted ==
    ASSUME NEW n \in Reservation
    PROVE  n.class \in Classes /\ n.count \in Counts
<1>1. PICK p \in Pools : n \in [owner : Owners, pool : {p}, licence : Licensing(p),
                                class : Classes, multi : BOOLEAN, count : Counts]
    BY DEF Reservation
<1> QED
    BY <1>1

(* Units and counts are numbers.                                            *)
LEMMA UnitsAreNumbers ==
    ASSUME instance \in [Is -> Instance], reservation \in [Rs -> Reservation]
    PROVE  /\ \A i \in Is : Required(i) \in Nat
           /\ \A r \in Rs : Total(r) \in Nat
<1> USE CoverageAssumption
<1>a. \A m, n \in Nat : m * n \in Nat
    OBVIOUS
<1>1. ASSUME NEW i \in Is PROVE Required(i) \in Nat
    <2>1. /\ instance[i].class \in Classes
          /\ instance[i].topology \in {"single_az", "multi_az_instance", "multi_az_cluster",
                 "multi_az_cluster_member", "unknown_cluster", "standard", "iopt",
                 "unknown_storage"}
        BY DEF Instance, Topologies
    <2>2. Multiplier[instance[i].topology] \in Nat
        BY <2>1 DEF Multiplier
    <2>3. Units[instance[i].class] \in Nat
        BY <2>1
    <2> QED BY <1>a, <2>2, <2>3 DEF Required
<1>2. ASSUME NEW r \in Rs PROVE Total(r) \in Nat
    <2>1. Units[reservation[r].class] \in Nat /\ reservation[r].count \in Nat
        BY ReservedIsCounted
    <2>2. Units[reservation[r].class] * reservation[r].count \in Nat
        BY <1>a, <2>1
    <2> QED BY <1>a, <2>2 DEF Total
<1> QED BY <1>1, <1>2

(* Nothing has been allotted.                                               *)
LEMMA CoverageBegins == CoverageInit => CoverageInv
<1> SUFFICES ASSUME CoverageInit PROVE CoverageInv
    OBVIOUS
<1>1. CoverageTypeOK
    BY UnitsAreNumbers, CoverageAssumption DEF CoverageInit, CoverageTypeOK
<1>2. ExactSettled /\ FlexSettled
    BY CoverageAssumption DEF CoverageInit, ExactSettled, FlexSettled, Considered, Is, Rs
<1>3. FlexComesLater
    BY DEF CoverageInit, FlexComesLater
<1> QED BY <1>1, <1>2, <1>3 DEF CoverageInv

(* What a match is does not change.                                        *)
LEMMA MatchesStay ==
    ASSUME UNCHANGED <<instance, reservation>>
    PROVE  \A r \in Rs, i \in Is :
              /\ MatchesExactly(r, i)' <=> MatchesExactly(r, i)
              /\ MatchesFlexibly(r, i)' <=> MatchesFlexibly(r, i)
BY DEF MatchesExactly, MatchesFlexibly, Agree, SameLicence, SizeFlexible, SameDeployment

(* Adding to one entry of a table of numbers.                              *)
LEMMA TableAdds ==
    ASSUME NEW t \in [Rs -> [Is -> Nat]], NEW r \in Rs, NEW i \in Is, NEW n \in Nat
    PROVE  /\ [t EXCEPT ![r][i] = @ + n] \in [Rs -> [Is -> Nat]]
           /\ \A s \in Rs, j \in Is :
                 s # r \/ j # i => [t EXCEPT ![r][i] = @ + n][s][j] = t[s][j]
<1> DEFINE entry == [t[r] EXCEPT ![i] = @ + n]
<1>1. /\ entry \in [Is -> Nat]
      /\ \A j \in Is : j # i => entry[j] = t[r][j]
    OBVIOUS
<1>2. [t EXCEPT ![r][i] = @ + n] = [t EXCEPT ![r] = entry]
    OBVIOUS
<1> HIDE DEF entry
<1> QED BY <1>1, <1>2

(* What _allocate does to one pair.                                        *)
LEMMA AllocateGives ==
    ASSUME CoverageTypeOK, NEW r \in Rs, NEW i \in Is, demand[i] > 0, capacity[r] > 0,
           Allocate(r, i), pass \in {1, 2}
    PROVE  /\ demand' \in [Is -> Nat] /\ capacity' \in [Rs -> Nat]
           /\ exact' \in [Rs -> [Is -> Nat]] /\ flexed' \in [Rs -> [Is -> Nat]]
           /\ \A j \in Is : demand'[j] <= demand[j]
           /\ \A s \in Rs : capacity'[s] <= capacity[s]
           /\ demand'[i] = 0 \/ capacity'[r] = 0
           /\ pass = 1 => flexed' = flexed
           /\ \A s \in Rs, j \in Is : s # r \/ j # i => flexed'[s][j] = flexed[s][j]
<1> DEFINE units == Smaller(capacity[r], demand[i])
<1>1. /\ units \in Nat /\ units <= capacity[r] /\ units <= demand[i]
      /\ units = capacity[r] \/ units = demand[i]
    BY DEF CoverageTypeOK, Smaller
<1>2. /\ demand' = [demand EXCEPT ![i] = @ - units]
      /\ capacity' = [capacity EXCEPT ![r] = @ - units]
      /\ exact' = IF pass = 1 THEN [exact EXCEPT ![r][i] = @ + units] ELSE exact
      /\ flexed' = IF pass = 2 THEN [flexed EXCEPT ![r][i] = @ + units] ELSE flexed
    BY DEF Allocate
<1> HIDE DEF units
<1>3. /\ demand' \in [Is -> Nat] /\ \A j \in Is : demand'[j] <= demand[j]
      /\ demand'[i] = demand[i] - units
    BY <1>1, <1>2 DEF CoverageTypeOK
<1>4. /\ capacity' \in [Rs -> Nat] /\ \A s \in Rs : capacity'[s] <= capacity[s]
      /\ capacity'[r] = capacity[r] - units
    BY <1>1, <1>2 DEF CoverageTypeOK
<1>8. exact \in [Rs -> [Is -> Nat]] /\ flexed \in [Rs -> [Is -> Nat]]
    BY DEF CoverageTypeOK
<1>5. exact' \in [Rs -> [Is -> Nat]]
    <2>1. CASE pass = 1
        <3>1. exact' = [exact EXCEPT ![r][i] = @ + units]
            BY <1>2, <2>1
        <3> QED BY <1>1, <1>8, <3>1, TableAdds
    <2>2. CASE pass # 1
        BY <1>2, <1>8, <2>2
    <2> QED BY <2>1, <2>2
<1>6. /\ flexed' \in [Rs -> [Is -> Nat]]
      /\ \A s \in Rs, j \in Is : s # r \/ j # i => flexed'[s][j] = flexed[s][j]
    <2>1. CASE pass = 2
        <3>1. flexed' = [flexed EXCEPT ![r][i] = @ + units]
            BY <1>2, <2>1
        <3> QED BY <1>1, <1>8, <3>1, TableAdds
    <2>2. CASE pass # 2
        BY <1>2, <1>8, <2>2
    <2> QED BY <2>1, <2>2
<1>7. demand'[i] = 0 \/ capacity'[r] = 0
    BY <1>1, <1>3, <1>4 DEF CoverageTypeOK
<1> QED BY <1>2, <1>3, <1>4, <1>5, <1>6, <1>7

(* A step settles the pair it comes to and no other.                        *)
LEMMA CoverageKept ==
    ASSUME CoverageInv, [CoverageNext]_coverageVars
    PROVE  CoverageInv'
<1> USE CoverageAssumption
<1>a. CoverageTypeOK /\ ExactSettled /\ FlexSettled /\ FlexComesLater
    BY DEF CoverageInv
<1>b. /\ pass \in 1..3 /\ pair[1] \in 1..Demands + 1 /\ pair[2] \in 1..Capacities + 1
      /\ pair = <<pair[1], pair[2]>>
      /\ demand \in [Is -> Nat] /\ capacity \in [Rs -> Nat] /\ flexed \in [Rs -> [Is -> Nat]]
    BY <1>a DEF CoverageTypeOK
<1>1. CASE Consider
    <2> DEFINE i == pair[1]
               r == pair[2]
    <2>1. /\ i \in Is /\ r \in Rs /\ pass \in {1, 2}
          /\ pass' = pass /\ pair' = <<i, r + 1>> /\ UNCHANGED <<instance, reservation>>
        BY <1>1, <1>b DEF Consider, Is, Rs
    <2>2. \A p \in {1, 2}, s \in Rs, j \in Is :
             Considered(p, s, j)' <=> Considered(p, s, j) \/ (p = pass /\ s = r /\ j = i)
        <3> SUFFICES ASSUME NEW p \in {1, 2}, NEW s \in Rs, NEW j \in Is
                     PROVE  Considered(p, s, j)' <=>
                              Considered(p, s, j) \/ (p = pass /\ s = r /\ j = i)
            OBVIOUS
        <3>1. /\ pass' = pass /\ pair'[1] = i /\ pair'[2] = r + 1
              /\ i \in Nat /\ r \in Nat /\ s \in Nat /\ j \in Nat
            BY <2>1 DEF Is, Rs
        <3>2. s < r + 1 <=> s < r \/ s = r
            BY <3>1
        <3>3. Considered(p, s, j)' <=> pass > p \/ (pass = p /\ (j < i \/ (j = i /\ s < r + 1)))
            BY <3>1 DEF Considered
        <3>4. pass = p => ~(pass > p)
            BY <1>b
        <3>5. Considered(p, s, j) <=> pass > p \/ (pass = p /\ (j < i \/ (j = i /\ s < r)))
            BY DEF Considered
        <3> HIDE DEF i, r
        <3> QED BY <3>2, <3>3, <3>4, <3>5
    <2>3. pair' \in (1..Demands + 1) \X (1..Capacities + 1)
        BY <1>b, <2>1 DEF Is, Rs
    <2>4. CASE demand[i] > 0 /\ capacity[r] > 0 /\ Wanted(r, i)
        <3>1. Allocate(r, i)
            BY <1>1, <2>4 DEF Consider
        <3>2. /\ demand' \in [Is -> Nat] /\ capacity' \in [Rs -> Nat]
              /\ exact' \in [Rs -> [Is -> Nat]] /\ flexed' \in [Rs -> [Is -> Nat]]
              /\ \A j \in Is : demand'[j] <= demand[j]
              /\ \A s \in Rs : capacity'[s] <= capacity[s]
              /\ demand'[i] = 0 \/ capacity'[r] = 0
              /\ pass = 1 => flexed' = flexed
              /\ \A s \in Rs, j \in Is : s # r \/ j # i => flexed'[s][j] = flexed[s][j]
            BY <1>a, <2>1, <2>4, <3>1, AllocateGives
        <3> HIDE DEF i, r
        <3>3. CoverageTypeOK'
            BY <1>a, <2>1, <2>3, <3>2 DEF CoverageTypeOK
        <3>4. /\ \A j \in Is : demand[j] = 0 => demand'[j] = 0
              /\ \A s \in Rs : capacity[s] = 0 => capacity'[s] = 0
            BY <1>b, <3>2
        <3>5. ExactSettled' /\ FlexSettled'
            BY <1>a, <2>1, <2>2, <3>2, <3>4, MatchesStay DEF ExactSettled, FlexSettled
        <3>6. FlexComesLater'
            <4>1. CASE pass = 1
                BY <1>a, <2>1, <3>2, <4>1 DEF FlexComesLater
            <4>2. CASE pass = 2
                <5> SUFFICES ASSUME NEW s \in Rs, NEW j \in Is, MatchesExactly(s, j),
                                    capacity'[s] > 0 \/ \E k \in Is : flexed'[s][k] > 0
                             PROVE  demand'[j] = 0 /\ \A t \in Rs : flexed'[t][j] = 0
                    BY <2>1, <4>2, MatchesStay DEF FlexComesLater
                <5>1. capacity'[s] > 0 => capacity[s] > 0
                    BY <1>b, <3>2
                <5>2. s # r => \A k \in Is : flexed'[s][k] = flexed[s][k]
                    BY <2>1, <3>2
                <5>3. capacity[s] > 0 \/ \E k \in Is : flexed[s][k] > 0
                    BY <2>4, <5>1, <5>2
                <5>4. demand[j] = 0 /\ \A t \in Rs : flexed[t][j] = 0
                    BY <1>a, <4>2, <5>3 DEF FlexComesLater
                <5>5. j # i
                    BY <2>4, <5>4
                <5> QED BY <2>1, <3>2, <3>4, <5>4, <5>5
            <4> QED BY <2>1, <4>1, <4>2
        <3> QED BY <3>3, <3>5, <3>6 DEF CoverageInv
    <2>5. CASE ~(demand[i] > 0 /\ capacity[r] > 0 /\ Wanted(r, i))
        <3>1. UNCHANGED <<demand, capacity, exact, flexed>>
            BY <1>1, <2>5 DEF Consider
        <3>2. demand[i] = 0 \/ capacity[r] = 0 \/ ~Wanted(r, i)
            BY <1>b, <2>1, <2>5
        <3> HIDE DEF i, r
        <3>3. CoverageTypeOK'
            BY <1>a, <2>1, <2>3, <3>1 DEF CoverageTypeOK
        <3>4. ExactSettled' /\ FlexSettled'
            BY <1>a, <2>1, <2>2, <3>1, <3>2, MatchesStay DEF ExactSettled, FlexSettled, Wanted
        <3>5. FlexComesLater'
            BY <1>a, <2>1, <3>1, MatchesStay DEF FlexComesLater
        <3> QED BY <3>3, <3>4, <3>5 DEF CoverageInv
    <2> QED BY <2>4, <2>5
<1>2. CASE NextInstance
    <2>1. /\ pass' = pass /\ pair' = <<pair[1] + 1, 1>> /\ pair[1] <= Demands
          /\ pair[2] > Capacities
          /\ UNCHANGED <<instance, reservation, demand, capacity, exact, flexed>>
        BY <1>2 DEF NextInstance
    <2>2. \A p \in {1, 2}, s \in Rs, j \in Is : Considered(p, s, j)' <=> Considered(p, s, j)
        BY <1>b, <2>1 DEF Considered, Is, Rs
    <2>3. CoverageTypeOK'
        BY <1>a, <1>b, <2>1 DEF CoverageTypeOK
    <2> QED BY <1>a, <2>1, <2>2, <2>3, MatchesStay
            DEF CoverageInv, ExactSettled, FlexSettled, FlexComesLater
<1>3. CASE NextPass
    <2>1. /\ pass \in {1, 2} /\ pass' = pass + 1 /\ pair' = <<1, 1>> /\ pair[1] > Demands
          /\ UNCHANGED <<instance, reservation, demand, capacity, exact, flexed>>
        BY <1>3, <1>b DEF NextPass
    <2>2. \A p \in {1, 2}, s \in Rs, j \in Is : Considered(p, s, j)' <=> Considered(p, s, j)
        BY <1>b, <2>1 DEF Considered, Is, Rs
    <2>3. CoverageTypeOK'
        BY <1>a, <1>b, <2>1 DEF CoverageTypeOK
    <2>4. ExactSettled' /\ FlexSettled'
        BY <1>a, <2>1, <2>2, MatchesStay DEF ExactSettled, FlexSettled
    <2>5. FlexComesLater'
        <3>1. CASE pass = 1
            <4>1. \A s \in Rs, j \in Is : Considered(1, s, j)
                BY <1>b, <2>1, <3>1 DEF Considered, Is, Rs
            <4>2. \A s \in Rs, j \in Is : flexed[s][j] = 0
                BY <1>a, <3>1 DEF FlexComesLater
            <4>3. \A s \in Rs, j \in Is : MatchesExactly(s, j) /\ capacity[s] > 0 => demand[j] = 0
                BY <1>a, <1>b, <4>1 DEF ExactSettled
            <4> QED BY <2>1, <3>1, <4>2, <4>3, MatchesStay DEF FlexComesLater
        <3>2. CASE pass = 2
            BY <1>a, <2>1, <3>2, MatchesStay DEF FlexComesLater
        <3> QED BY <2>1, <3>1, <3>2
    <2> QED BY <2>3, <2>4, <2>5 DEF CoverageInv
<1>4. CASE UNCHANGED coverageVars
    BY <1>4, <1>a, MatchesStay DEF coverageVars, CoverageInv, CoverageTypeOK, ExactSettled,
       FlexSettled, FlexComesLater, Considered
<1> QED BY <1>1, <1>2, <1>3, <1>4 DEF CoverageNext

(* The passes keep it until they end.                                       *)
LEMMA CoverageHolds == CoverageSpec => []CoverageInv
<1> QED BY CoverageBegins, CoverageKept, PTL DEF CoverageSpec

(* Every reachable state of the allotment is well typed: nothing is given  *)
(* that is not there.                                                      *)
THEOREM CoverageTypeCorrect == CoverageSpec => []CoverageTypeOK
<1>1. CoverageInv => CoverageTypeOK
    BY DEF CoverageInv
<1> QED BY <1>1, CoverageHolds, PTL

(* Reservations are spent on their kind first, and then wholly: at the end *)
(* no gap is left beside capacity that fits it; for any number of          *)
(* instances and reservations of any sizes (analyze).                      *)
THEOREM ReservationsWellSpent == CoverageSpec => []WellSpent
<1>1. ASSUME CoverageInv PROVE WellSpent
    <2>1. ExactComesFirst
        <3> SUFFICES ASSUME NEW r \in Rs, NEW i \in Is, NEW j \in Is,
                            flexed[r][j] > 0, MatchesExactly(r, i)
                     PROVE  demand[i] = 0 /\ \A s \in Rs : flexed[s][i] = 0
            BY DEF ExactComesFirst
        <3>1. pass # 1 /\ pass \in 1..3
            BY <1>1 DEF CoverageInv, CoverageTypeOK, FlexComesLater
        <3> QED BY <1>1, <3>1 DEF CoverageInv, FlexComesLater
    <2>2. NothingFitsLeft
        BY <1>1 DEF CoverageInv, CoverageTypeOK, ExactSettled, FlexSettled, Considered,
           NothingFitsLeft
    <2> QED BY <2>1, <2>2 DEF WellSpent
<1> QED BY <1>1, CoverageHolds, PTL

-----------------------------------------------------------------------------
(* How much is covered. What a set of instances has been given is gone     *)
(* from the reservations that fit one of them, and from no others; where   *)
(* these fit no other instance, nothing else is gone from them.            *)

Given(r, i) == exact[r][i] + flexed[r][i]
Used(i) == Required(i) - demand[i]
Spent(r) == Total(r) - capacity[r]
UsedOf(S) == Sum([i \in Is |-> Used(i)], S)
SpentOf(G) == Sum([r \in Rs |-> Spent(r)], G)

Fits(S) == UNION {Fitting(i) : i \in S}
Apart(S) == \A i \in Is \ S : Required(i) > 0 => Fitting(i) \cap Fits(S) = {}

GivenIsUsed == \A i \in Is : Sum([r \in Rs |-> Given(r, i)], Rs) = Used(i)

NoneOverdrawn ==
    /\ \A i \in Is : demand[i] <= Required(i)
    /\ \A r \in Rs : capacity[r] <= Total(r)

UsedIsSpent ==
    \A S \in SUBSET Is :
        /\ UsedOf(S) <= SpentOf(Fits(S))
        /\ Apart(S) => UsedOf(S) = SpentOf(Fits(S))

Conserved == GivenIsUsed /\ NoneOverdrawn /\ UsedIsSpent

LEMMA ManyAreFinite == IsFiniteSet(Is) /\ IsFiniteSet(Rs)
<1>1. \A a, b \in Int : IsFiniteSet(a..b)
    BY FS_Interval
<1>2. 1 \in Int /\ Demands \in Int /\ Capacities \in Int
    BY CoverageAssumption
<1>3. IsFiniteSet(1..Demands) /\ IsFiniteSet(1..Capacities)
    BY <1>1, <1>2, Zenon
<1> QED
    BY <1>3 DEF Is, Rs

(* Sets of instances, and of the reservations that fit them, are finite.   *)
LEMMA SetsAreFinite ==
    ASSUME NEW S \in SUBSET Is
    PROVE  /\ IsFiniteSet(S) /\ IsFiniteSet(Is \ S)
           /\ Fits(S) \subseteq Rs /\ IsFiniteSet(Fits(S)) /\ Fits(S) \subseteq Fits(Is)
<1>1. Fits(S) \subseteq Rs /\ Fits(S) \subseteq Fits(Is)
    BY DEF Fits, Fitting
<1>2. Is \ S \subseteq Is
    OBVIOUS
<1> QED
    BY <1>1, <1>2, ManyAreFinite, FS_Subset

(* Where licences are known, what a reservation fits is all that agrees    *)
(* with it if sizes are flexible, and else what is exactly of its kind: so *)
(* instances that one reservation fits are fitted by the same ones.        *)
LEMMA FittingIsShared ==
    ASSUME CoverageTypeOK, LicencesKnown, NEW i \in Is, NEW j \in Is, Required(i) > 0, Required(j) > 0,
           NEW r \in Fitting(i), r \in Fitting(j)
    PROVE  Fitting(i) = Fitting(j)
<1> USE CoverageAssumption
<1>1. \A k \in {i, j} : Units[instance[k].class] > 0 /\ Multiplier[instance[k].topology] > 0
    <2> SUFFICES ASSUME NEW k \in {i, j}
                 PROVE  Units[instance[k].class] > 0 /\ Multiplier[instance[k].topology] > 0
        OBVIOUS
    <2>1. /\ instance[k].class \in Classes
          /\ instance[k].topology \in {"single_az", "multi_az_instance", "multi_az_cluster",
                 "multi_az_cluster_member", "unknown_cluster", "standard", "iopt",
                 "unknown_storage"}
        BY DEF CoverageTypeOK, Instance, Topologies
    <2>2. Multiplier[instance[k].topology] \in Nat /\ Units[instance[k].class] \in Nat
        BY <2>1 DEF Multiplier
    <2>3. Units[instance[k].class] * Multiplier[instance[k].topology] > 0
        BY DEF Required
    <2>4. \A m, n \in Nat : m * n > 0 => m > 0 /\ n > 0
        OBVIOUS
    <2> QED
        BY <2>2, <2>3, <2>4
<1>2. \A s \in Rs : Total(s) > 0 => Units[reservation[s].class] > 0
    <2> SUFFICES ASSUME NEW s \in Rs, Total(s) > 0
                 PROVE  Units[reservation[s].class] > 0
        OBVIOUS
    <2> DEFINE twice == reservation[s].multi /\ reservation[s].pool \notin Aurora
    <2>1. Units[reservation[s].class] \in Nat /\ reservation[s].count \in Nat
        BY ReservedIsCounted DEF CoverageTypeOK
    <2>2. Units[reservation[s].class] * reservation[s].count * (IF twice THEN 20 ELSE 10) > 0
        BY DEF Total
    <2>3. \A m, n \in Nat : m = 0 => m * n * 10 = 0 /\ m * n * 20 = 0
        OBVIOUS
    <2> HIDE DEF twice
    <2> QED
        BY <2>1, <2>2, <2>3
<1>3. Agree(r, i) /\ Agree(r, j)
    BY DEF Fitting, MatchesExactly, MatchesFlexibly
<1>6. \A s \in Rs, k \in {i, j} :
         Agree(s, k) <=> /\ instance[k].pool = reservation[s].pool
                         /\ instance[k].owner = reservation[s].owner
                         /\ instance[k].licence = reservation[s].licence
    BY DEF LicencesKnown, Agree, SameLicence
<1>7. /\ instance[i].pool = instance[j].pool /\ instance[i].owner = instance[j].owner
      /\ instance[i].licence = instance[j].licence
    BY <1>3, <1>6 DEF Fitting
<1>8. SizeFlexible(i) <=> SizeFlexible(j)
    BY <1>7 DEF SizeFlexible
<1>9. \A s \in Rs : Agree(s, i) <=> Agree(s, j)
    BY <1>6, <1>7
<1>4. CASE SizeFlexible(i)
    <2>1. \A k \in {i, j}, s \in Rs :
             Total(s) > 0 => (MatchesExactly(s, k) \/ MatchesFlexibly(s, k) <=> Agree(s, k))
        BY <1>1, <1>2, <1>4, <1>8 DEF MatchesExactly, MatchesFlexibly
    <2> QED
        BY <1>9, <2>1 DEF Fitting
<1>5. CASE ~SizeFlexible(i)
    <2>1. \A k \in {i, j}, s \in Rs : ~MatchesFlexibly(s, k)
        BY <1>5, <1>8 DEF MatchesFlexibly
    <2>2. r \in Rs /\ MatchesExactly(r, i) /\ MatchesExactly(r, j)
        BY <2>1 DEF Fitting
    <2>3. /\ instance[i].class = instance[j].class
          /\ instance[i].topology = "multi_az_instance" <=> instance[j].topology = "multi_az_instance"
          /\ \A k \in {i, j} :
               instance[k].topology \notin {"multi_az_cluster", "multi_az_cluster_member"}
        BY <1>5, <1>8, <2>2 DEF MatchesExactly, SameDeployment
    <2>4. \A s \in Rs : MatchesExactly(s, i) <=> MatchesExactly(s, j)
        BY <1>5, <1>8, <1>9, <2>3 DEF MatchesExactly, SameDeployment
    <2> QED
        BY <2>1, <2>4 DEF Fitting
<1> QED
    BY <1>4, <1>5

(* What _allocate moves from the reservation to the instance.              *)
LEMMA AllocateMoves ==
    ASSUME CoverageTypeOK, NEW r \in Rs, NEW i \in Is, demand[i] > 0, capacity[r] > 0,
           Allocate(r, i), pass \in {1, 2}
    PROVE  \E units \in Nat :
              /\ units <= demand[i] /\ units <= capacity[r]
              /\ demand' = [demand EXCEPT ![i] = @ - units]
              /\ capacity' = [capacity EXCEPT ![r] = @ - units]
              /\ \A s \in Rs, j \in Is :
                   Given(s, j)' = Given(s, j) + (IF s = r /\ j = i THEN units ELSE 0)
<1> DEFINE units == Smaller(capacity[r], demand[i])
<1>1. units \in Nat /\ units <= capacity[r] /\ units <= demand[i]
    BY DEF CoverageTypeOK, Smaller
<1>2. /\ demand' = [demand EXCEPT ![i] = @ - units]
      /\ capacity' = [capacity EXCEPT ![r] = @ - units]
      /\ exact' = IF pass = 1 THEN [exact EXCEPT ![r][i] = @ + units] ELSE exact
      /\ flexed' = IF pass = 2 THEN [flexed EXCEPT ![r][i] = @ + units] ELSE flexed
    BY DEF Allocate
<1> HIDE DEF units
<1>3. exact \in [Rs -> [Is -> Nat]] /\ flexed \in [Rs -> [Is -> Nat]]
    BY DEF CoverageTypeOK
<1>4. \A t \in [Rs -> [Is -> Nat]], s \in Rs, j \in Is :
         [t EXCEPT ![r][i] = @ + units][s][j] = t[s][j] + (IF s = r /\ j = i THEN units ELSE 0)
    <2> TAKE t \in [Rs -> [Is -> Nat]], s \in Rs, j \in Is
    <2> DEFINE entry == [t[r] EXCEPT ![i] = @ + units]
    <2>1. t[r] \in [Is -> Nat] /\ t[s][j] \in Nat
        OBVIOUS
    <2>2. entry[j] = t[r][j] + (IF j = i THEN units ELSE 0)
        BY <1>1, <2>1
    <2>3. [t EXCEPT ![r][i] = @ + units] = [t EXCEPT ![r] = entry]
        OBVIOUS
    <2> HIDE DEF entry
    <2>4. [t EXCEPT ![r] = entry][s] = IF s = r THEN entry ELSE t[s]
        OBVIOUS
    <2> QED
        BY <1>1, <2>1, <2>2, <2>3, <2>4
<1>5. ASSUME NEW s \in Rs, NEW j \in Is
      PROVE  Given(s, j)' = Given(s, j) + (IF s = r /\ j = i THEN units ELSE 0)
    <2> DEFINE add == IF s = r /\ j = i THEN units ELSE 0
    <2>1. exact[s][j] \in Nat /\ flexed[s][j] \in Nat /\ add \in Nat
        BY <1>1, <1>3
    <2>2. CASE pass = 1
        <3>1. exact'[s][j] = exact[s][j] + add /\ flexed' = flexed
            BY <1>2, <1>3, <1>4, <2>2
        <3> HIDE DEF add
        <3>2. (exact[s][j] + add) + flexed[s][j] = (exact[s][j] + flexed[s][j]) + add
            BY <2>1
        <3> QED
            BY <3>1, <3>2 DEF Given, add
    <2>3. CASE pass = 2
        <3>1. flexed'[s][j] = flexed[s][j] + add /\ exact' = exact
            BY <1>2, <1>3, <1>4, <2>3
        <3> HIDE DEF add
        <3>2. exact[s][j] + (flexed[s][j] + add) = (exact[s][j] + flexed[s][j]) + add
            BY <2>1
        <3> QED
            BY <3>1, <3>2 DEF Given, add
    <2> QED
        BY <2>2, <2>3
<1> QED
    BY <1>1, <1>2, <1>5

(* The same instances and reservations need, have and fit the same.        *)
LEMMA FleetStays ==
    ASSUME UNCHANGED <<instance, reservation>>
    PROVE  /\ \A i \in Is : Required(i)' = Required(i) /\ Fitting(i)' = Fitting(i)
           /\ \A r \in Rs : Total(r)' = Total(r)
           /\ \A S \in SUBSET Is : Fits(S)' = Fits(S) /\ (Apart(S)' <=> Apart(S))
<1>1. \A i \in Is : Required(i)' = Required(i)
    BY DEF Required
<1>2. \A r \in Rs : Total(r)' = Total(r)
    BY DEF Total
<1>3. \A i \in Is : Fitting(i)' = Fitting(i)
    BY <1>2, MatchesStay DEF Fitting
<1>4. \A S \in SUBSET Is : Fits(S)' = Fits(S)
    BY <1>3 DEF Fits
<1>5. \A S \in SUBSET Is : Apart(S)' <=> Apart(S)
    BY <1>1, <1>3, <1>4 DEF Apart
<1> QED
    BY <1>1, <1>2, <1>3, <1>4, <1>5

(* Nothing is moved when no pair is allotted.                              *)
LEMMA NothingMoves ==
    ASSUME Conserved, UNCHANGED <<instance, reservation, demand, capacity, exact, flexed>>
    PROVE  Conserved'
<1>1. /\ \A i \in Is : Used(i)' = Used(i)
      /\ \A r \in Rs : Spent(r)' = Spent(r)
      /\ \A r \in Rs, i \in Is : Given(r, i)' = Given(r, i)
    BY FleetStays DEF Used, Spent, Given
<1>2. [i \in Is |-> Used(i)]' = [i \in Is |-> Used(i)]
    BY <1>1
<1>3. [r \in Rs |-> Spent(r)]' = [r \in Rs |-> Spent(r)]
    BY <1>1
<1>4. \A i \in Is : [r \in Rs |-> Given(r, i)]' = [r \in Rs |-> Given(r, i)]
    BY <1>1
<1>5. GivenIsUsed'
    BY <1>1, <1>4 DEF Conserved, GivenIsUsed
<1>6. NoneOverdrawn'
    BY FleetStays DEF Conserved, NoneOverdrawn
<1>7. UsedIsSpent'
    BY <1>2, <1>3, FleetStays DEF Conserved, UsedIsSpent, UsedOf, SpentOf
<1> QED
    BY <1>5, <1>6, <1>7 DEF Conserved

LEMMA UnitsMove ==
    ASSUME CoverageTypeOK, Conserved, NEW r \in Rs, NEW i \in Is,
           demand[i] > 0, capacity[r] > 0, Wanted(r, i), pass \in {1, 2}, Allocate(r, i),
           UNCHANGED <<instance, reservation>>
    PROVE  Conserved'
<1>1. PICK units \in Nat :
              /\ units <= demand[i] /\ units <= capacity[r]
              /\ demand' = [demand EXCEPT ![i] = @ - units]
              /\ capacity' = [capacity EXCEPT ![r] = @ - units]
              /\ \A s \in Rs, j \in Is :
                   Given(s, j)' = Given(s, j) + (IF s = r /\ j = i THEN units ELSE 0)
    BY AllocateMoves
<1> DEFINE used == [j \in Is |-> Used(j)]
           taken == [s \in Rs |-> Spent(s)]
           RowSum(j) == [s \in Rs |-> Given(s, j)]
           usedNow == [j \in Is |-> Used(j)']
           spentNow == [s \in Rs |-> Spent(s)']
           RowNow(j) == [s \in Rs |-> Given(s, j)']
<1>2. /\ \A j \in Is : Required(j) \in Nat /\ demand[j] \in Nat
      /\ \A s \in Rs : Total(s) \in Nat /\ capacity[s] \in Nat
    BY UnitsAreNumbers DEF CoverageTypeOK
<1>3. \A j \in Is, s \in Rs : Given(s, j) \in Int /\ Given(s, j)' \in Int
    <2>1. \A j \in Is, s \in Rs : Given(s, j) \in Int
        BY DEF CoverageTypeOK, Given
    <2> QED
        BY <1>1, <2>1
<1>4. \A j \in Is : Used(j) \in Int /\ Used(j)' = Used(j) + (IF j = i THEN units ELSE 0)
    BY <1>1, <1>2, FleetStays DEF Used, CoverageTypeOK
<1>5. \A s \in Rs : Spent(s) \in Int /\ Spent(s)' = Spent(s) + (IF s = r THEN units ELSE 0)
    BY <1>1, <1>2, FleetStays DEF Spent, CoverageTypeOK
<1>6. r \in Fitting(i) /\ Required(i) > 0
    <2>1. demand[i] <= Required(i) /\ capacity[r] <= Total(r)
        BY DEF Conserved, NoneOverdrawn
    <2> QED
        BY <1>2, <2>1 DEF Fitting, Wanted
<1>7. NoneOverdrawn'
    <2>1. \A j \in Is : demand'[j] <= demand[j]
        BY <1>1, <1>2 DEF CoverageTypeOK
    <2>2. \A s \in Rs : capacity'[s] <= capacity[s]
        BY <1>1, <1>2 DEF CoverageTypeOK
    <2>3. /\ \A j \in Is : demand'[j] \in Int
          /\ \A s \in Rs : capacity'[s] \in Int
        BY <1>1, <1>2 DEF CoverageTypeOK
    <2>4. /\ \A j \in Is : demand[j] <= Required(j)
          /\ \A s \in Rs : capacity[s] <= Total(s)
        BY DEF Conserved, NoneOverdrawn
    <2>5. \A j \in Is : demand'[j] <= Required(j)
        BY <1>2, <2>1, <2>3, <2>4
    <2>6. \A s \in Rs : capacity'[s] <= Total(s)
        BY <1>2, <2>2, <2>3, <2>4
    <2> QED
        BY <2>5, <2>6, FleetStays DEF NoneOverdrawn
<1>8. \A j \in Is : Sum(RowSum(j), Rs) = Used(j)
    BY DEF Conserved, GivenIsUsed
<1>9. GivenIsUsed'
    <2> SUFFICES ASSUME NEW j \in Is PROVE Sum(RowNow(j), Rs) = Used(j)'
        BY DEF GivenIsUsed
    <2> DEFINE f == RowSum(j)
               g == RowNow(j)
    <2>1. \A s \in Rs : f[s] \in Int /\ g[s] \in Int
        BY <1>3
    <2>2. \A s \in Rs : s # r => g[s] = f[s]
        BY <1>1, <1>3
    <2>3. g[r] - f[r] = IF j = i THEN units ELSE 0
        BY <1>1, <1>3
    <2>4. Sum(f, Rs) = Used(j)
        BY <1>8
    <2> HIDE DEF f, g
    <2>5. Sum(g, Rs) = Sum(f, Rs) + (g[r] - f[r])
        BY <2>1, <2>2, ManyAreFinite, SumChange
    <2>6. Sum(g, Rs) = Used(j)'
        BY <1>4, <2>3, <2>4, <2>5
    <2> QED
        BY <2>6 DEF g
<1>10. UsedIsSpent'
    <2> SUFFICES ASSUME NEW S \in SUBSET Is
                 PROVE  /\ Sum(usedNow, S) <= Sum(spentNow, Fits(S))
                        /\ Apart(S) => Sum(usedNow, S) = Sum(spentNow, Fits(S))
        BY FleetStays DEF UsedIsSpent, UsedOf, SpentOf
    <2> DEFINE G == Fits(S)
    <2>1. IsFiniteSet(S) /\ IsFiniteSet(G) /\ S \subseteq Is /\ G \subseteq Rs
        BY SetsAreFinite
    <2>2. /\ Sum(used, S) <= Sum(taken, G)
          /\ Apart(S) => Sum(used, S) = Sum(taken, G)
        BY DEF Conserved, UsedIsSpent, UsedOf, SpentOf
    <2>3. /\ \A k \in S : used[k] \in Int /\ usedNow[k] \in Int
          /\ \A s \in G : taken[s] \in Int /\ spentNow[s] \in Int
        BY <1>1, <1>4, <1>5, <2>1
    <2>4. /\ \A k \in S : k # i => usedNow[k] = used[k]
          /\ \A s \in G : s # r => spentNow[s] = taken[s]
        BY <1>4, <1>5, <2>1
    <2>5. usedNow[i] - used[i] = units /\ spentNow[r] - taken[r] = units
        BY <1>1, <1>4, <1>5
    <2>6. /\ i \in S => r \in G
          /\ i \notin S /\ r \in G => ~Apart(S)
        BY <1>6 DEF Fits, Apart
    <2> HIDE DEF used, usedNow, taken, spentNow, G
    <2>7. Sum(used, S) \in Int /\ Sum(taken, G) \in Int
        <3>1. Sum(used, S) \in Int
            BY <2>1, <2>3, SumType
        <3>2. Sum(taken, G) \in Int
            BY <2>1, <2>3, SumType
        <3> QED
            BY <3>1, <3>2
    <2>8. Sum(usedNow, S) = Sum(used, S) + (IF i \in S THEN units ELSE 0)
        <3>1. CASE i \in S
            BY <2>1, <2>3, <2>4, <2>5, <3>1, SumChange
        <3>2. CASE i \notin S
            <4>1. \A k \in S : used[k] \in Int /\ usedNow[k] = used[k]
                BY <2>3, <2>4, <3>2
            <4>2. Sum(usedNow, S) = Sum(used, S)
                BY <2>1, <4>1, SumSame
            <4> QED
                BY <2>7, <3>2, <4>2
        <3> QED
            BY <3>1, <3>2
    <2>9. Sum(spentNow, G) = Sum(taken, G) + (IF r \in G THEN units ELSE 0)
        <3>1. CASE r \in G
            BY <2>1, <2>3, <2>4, <2>5, <3>1, SumChange
        <3>2. CASE r \notin G
            <4>1. \A s \in G : taken[s] \in Int /\ spentNow[s] = taken[s]
                BY <2>3, <2>4, <3>2
            <4>2. Sum(spentNow, G) = Sum(taken, G)
                BY <2>1, <4>1, SumSame
            <4> QED
                BY <2>7, <3>2, <4>2
        <3> QED
            BY <3>1, <3>2
    <2>10. /\ Sum(usedNow, S) <= Sum(spentNow, G)
           /\ Apart(S) => Sum(usedNow, S) = Sum(spentNow, G)
        BY <1>1, <2>2, <2>6, <2>7, <2>8, <2>9
    <2> QED
        BY <2>10 DEF G
<1> QED
    BY <1>7, <1>9, <1>10 DEF Conserved

LEMMA StepConserves ==
    ASSUME CoverageInv, Conserved, [CoverageNext]_coverageVars
    PROVE  Conserved'
<1>1. CASE Consider
    <2> DEFINE i == pair[1]
               r == pair[2]
    <2>1. /\ i \in Is /\ r \in Rs /\ pass \in {1, 2} /\ UNCHANGED <<instance, reservation>>
        BY <1>1 DEF Consider, Is, Rs, CoverageInv, CoverageTypeOK
    <2>2. CASE demand[i] > 0 /\ capacity[r] > 0 /\ Wanted(r, i)
        <3>1. Allocate(r, i)
            BY <1>1, <2>2 DEF Consider
        <3> QED
            BY <2>1, <2>2, <3>1, UnitsMove DEF CoverageInv
    <2>3. CASE ~(demand[i] > 0 /\ capacity[r] > 0 /\ Wanted(r, i))
        <3>1. UNCHANGED <<demand, capacity, exact, flexed>>
            BY <1>1, <2>3 DEF Consider
        <3> QED
            BY <2>1, <3>1, NothingMoves
    <2> QED
        BY <2>2, <2>3
<1>2. CASE NextInstance \/ NextPass \/ UNCHANGED coverageVars
    BY <1>2, NothingMoves DEF NextInstance, NextPass, coverageVars
<1> QED
    BY <1>1, <1>2 DEF CoverageNext

LEMMA ConservedAtFirst == CoverageInit => Conserved
<1> SUFFICES ASSUME CoverageInit PROVE Conserved
    OBVIOUS
<1>1. CoverageTypeOK
    BY CoverageBegins DEF CoverageInv
<1>2. /\ \A j \in Is : Required(j) \in Nat /\ demand[j] = Required(j) /\ Used(j) = 0
      /\ \A s \in Rs : Total(s) \in Nat /\ capacity[s] = Total(s) /\ Spent(s) = 0
      /\ \A j \in Is, s \in Rs : Given(s, j) = 0
    BY <1>1, UnitsAreNumbers DEF CoverageTypeOK, CoverageInit, Used, Spent, Given
<1>3. NoneOverdrawn
    BY <1>2 DEF NoneOverdrawn
<1>4. GivenIsUsed
    <2> SUFFICES ASSUME NEW j \in Is
                 PROVE  Sum([s \in Rs |-> Given(s, j)], Rs) = 0
        BY <1>2 DEF GivenIsUsed
    <2> DEFINE f == [s \in Rs |-> Given(s, j)]
    <2>1. \A s \in Rs : f[s] = 0
        BY <1>2
    <2> HIDE DEF f
    <2>2. Sum(f, Rs) = 0
        BY <2>1, ManyAreFinite, SumZero
    <2> QED
        BY <2>2 DEF f
<1>5. UsedIsSpent
    <2> SUFFICES ASSUME NEW S \in SUBSET Is
                 PROVE  UsedOf(S) = 0 /\ SpentOf(Fits(S)) = 0
        BY DEF UsedIsSpent
    <2> DEFINE f == [k \in Is |-> Used(k)]
               g == [s \in Rs |-> Spent(s)]
               G == Fits(S)
    <2>1. IsFiniteSet(S) /\ IsFiniteSet(G) /\ S \subseteq Is /\ G \subseteq Rs
        BY SetsAreFinite
    <2>2. (\A k \in S : f[k] = 0) /\ (\A s \in G : g[s] = 0)
        BY <1>2, <2>1
    <2> HIDE DEF f, g, G
    <2>3. Sum(f, S) = 0 /\ Sum(g, G) = 0
        BY <2>1, <2>2, SumZero
    <2> QED
        BY <2>3 DEF f, g, G, UsedOf, SpentOf
<1> QED
    BY <1>3, <1>4, <1>5 DEF Conserved

(* The sums of the model.                                                  *)
LEMMA TotalsAreSum ==
    ASSUME NEW S
    PROVE  MapThenSumSet(Total, S) = Sum([x \in S |-> Total(x)], S)
<1> DEFINE f == [x \in S |-> Total(x)]
<1>1. MapThenSumSet(Total, S) =
        (CHOOSE g : g = [t \in SUBSET S |->
             IF t = {} THEN 0 ELSE Total(Pick(t)) + g[t \ {Pick(t)}]])[S]
    BY DEF MapThenSumSet, MapThenFoldSet, Pick
<1>2. \A t \in SUBSET S : t # {} => f[Pick(t)] = Total(Pick(t))
    BY Picked
<1>3. \A g : (g = [t \in SUBSET S |->
                     IF t = {} THEN 0 ELSE Total(Pick(t)) + g[t \ {Pick(t)}]])
             <=> IsFold(f, S, g)
    BY <1>2 DEF IsFold
<1> QED
    BY <1>1, <1>3 DEF Sum

LEMMA RequiredAreSum ==
    ASSUME NEW S
    PROVE  MapThenSumSet(Required, S) = Sum([x \in S |-> Required(x)], S)
<1> DEFINE f == [x \in S |-> Required(x)]
<1>1. MapThenSumSet(Required, S) =
        (CHOOSE g : g = [t \in SUBSET S |->
             IF t = {} THEN 0 ELSE Required(Pick(t)) + g[t \ {Pick(t)}]])[S]
    BY DEF MapThenSumSet, MapThenFoldSet, Pick
<1>2. \A t \in SUBSET S : t # {} => f[Pick(t)] = Required(Pick(t))
    BY Picked
<1>3. \A g : (g = [t \in SUBSET S |->
                     IF t = {} THEN 0 ELSE Required(Pick(t)) + g[t \ {Pick(t)}]])
             <=> IsFold(f, S, g)
    BY <1>2 DEF IsFold
<1> QED
    BY <1>1, <1>3 DEF Sum

LEMMA GivenToAreSum ==
    ASSUME NEW S
    PROVE  MapThenSumSet(GivenTo, S) = Sum([x \in S |-> GivenTo(x)], S)
<1> DEFINE f == [x \in S |-> GivenTo(x)]
<1>1. MapThenSumSet(GivenTo, S) =
        (CHOOSE g : g = [t \in SUBSET S |->
             IF t = {} THEN 0 ELSE GivenTo(Pick(t)) + g[t \ {Pick(t)}]])[S]
    BY DEF MapThenSumSet, MapThenFoldSet, Pick
<1>2. \A t \in SUBSET S : t # {} => f[Pick(t)] = GivenTo(Pick(t))
    BY Picked
<1>3. \A g : (g = [t \in SUBSET S |->
                     IF t = {} THEN 0 ELSE GivenTo(Pick(t)) + g[t \ {Pick(t)}]])
             <=> IsFold(f, S, g)
    BY <1>2 DEF IsFold
<1> QED
    BY <1>1, <1>3 DEF Sum

LEMMA GivenToIsSum ==
    ASSUME NEW i
    PROVE  GivenTo(i) = Sum([x \in Rs |-> Given(x, i)], Rs)
<1> DEFINE f == [x \in Rs |-> Given(x, i)]
<1>1. GivenTo(i) =
        (CHOOSE g : g = [t \in SUBSET Rs |->
             IF t = {} THEN 0 ELSE Given(Pick(t), i) + g[t \ {Pick(t)}]])[Rs]
    BY DEF MapThenSumSet, MapThenFoldSet, Pick, GivenTo, Given
<1>2. \A t \in SUBSET Rs : t # {} => f[Pick(t)] = Given(Pick(t), i)
    BY Picked
<1>3. \A g : (g = [t \in SUBSET Rs |->
                     IF t = {} THEN 0 ELSE Given(Pick(t), i) + g[t \ {Pick(t)}]])
             <=> IsFold(f, Rs, g)
    BY <1>2 DEF IsFold
<1> QED
    BY <1>1, <1>3 DEF Sum

(* What each has at the end, in numbers, and in sums.                      *)
LEMMA FleetIsCounted ==
    ASSUME CoverageTypeOK, Conserved
    PROVE  /\ \A i \in Is : /\ Required(i) \in Nat /\ Used(i) \in Nat /\ Used(i) <= Required(i)
                            /\ demand[i] = 0 => Used(i) = Required(i)
           /\ \A r \in Rs : /\ Total(r) \in Nat /\ Spent(r) \in Nat /\ Spent(r) <= Total(r)
                            /\ capacity[r] = 0 => Spent(r) = Total(r)
           /\ \A i \in Is : demand[i] \in Nat /\ demand[i] <= Required(i)
           /\ \A r \in Rs : capacity[r] \in Nat
BY UnitsAreNumbers DEF CoverageTypeOK, Conserved, NoneOverdrawn, Used, Spent

LEMMA CoveredIsUsed ==
    ASSUME CoverageTypeOK, Conserved
    PROVE  MapThenSumSet(GivenTo, Is) = UsedOf(Is)
<1> DEFINE used == [i \in Is |-> Used(i)]
           given == [i \in Is |-> GivenTo(i)]
<1>1. \A i \in Is : used[i] \in Int /\ given[i] = used[i]
    <2>1. \A i \in Is : Used(i) \in Int
        BY FleetIsCounted
    <2>2. \A i \in Is : GivenTo(i) = Used(i)
        BY GivenToIsSum DEF Conserved, GivenIsUsed
    <2> QED
        BY <2>1, <2>2
<1>2. MapThenSumSet(GivenTo, Is) = Sum(given, Is)
    BY GivenToAreSum
<1> HIDE DEF used, given
<1>3. Sum(given, Is) = Sum(used, Is)
    BY <1>1, ManyAreFinite, SumSame
<1> QED
    BY <1>2, <1>3 DEF UsedOf, used

(* What S has been given, and the others.                                  *)
LEMMA UsedInParts ==
    ASSUME CoverageTypeOK, Conserved, NEW S \in SUBSET Is
    PROVE  /\ UsedOf(S) \in Nat /\ UsedOf(Is \ S) \in Nat /\ UsedOf(Is) \in Nat
           /\ UsedOf(Is) = UsedOf(S) + UsedOf(Is \ S)
<1> DEFINE used == [i \in Is |-> Used(i)]
           T == Is \ S
<1>1. \A i \in Is : used[i] \in Nat
    BY FleetIsCounted
<1>2. IsFiniteSet(S) /\ IsFiniteSet(T) /\ IsFiniteSet(Is)
    BY SetsAreFinite, ManyAreFinite
<1>3. S \cap T = {} /\ S \cup T = Is
    OBVIOUS
<1> HIDE DEF used, T
<1>4. Sum(used, S) \in Nat
    BY <1>1, <1>2, <1>3, SumHolds
<1>5. Sum(used, T) \in Nat
    BY <1>1, <1>2, <1>3, SumHolds
<1>6. Sum(used, S \cup T) = Sum(used, S) + Sum(used, T)
    BY <1>1, <1>2, <1>3, SumUnion
<1>7. Sum(used, Is) = Sum(used, S) + Sum(used, T)
    BY <1>3, <1>6
<1>8. Sum(used, Is) \in Nat
    BY <1>4, <1>5, <1>7
<1> QED
    BY <1>4, <1>5, <1>7, <1>8 DEF UsedOf, used, T

(* No more has been spent of some of the reservations than of all.          *)
LEMMA SpentInParts ==
    ASSUME CoverageTypeOK, Conserved, NEW S \in SUBSET Is
    PROVE  SpentOf(Fits(S)) \in Nat /\ SpentOf(Fits(S)) <= UsedOf(Is)
<1> DEFINE taken == [r \in Rs |-> Spent(r)]
           G == Fits(S)
           H == Fits(Is) \ G
<1>1. \A r \in Rs : taken[r] \in Nat
    BY FleetIsCounted
<1>2. /\ IsFiniteSet(G) /\ G \subseteq Fits(Is) /\ G \subseteq Rs
      /\ IsFiniteSet(Fits(Is)) /\ Fits(Is) \subseteq Rs
    BY SetsAreFinite
<1>3. IsFiniteSet(H) /\ H \subseteq Rs /\ G \cap H = {} /\ Fits(Is) = G \cup H
    BY <1>2, FS_Subset
<1>4. Sum(taken, Fits(Is)) = UsedOf(Is)
    <2>1. Apart(Is)
        BY DEF Apart
    <2> QED
        BY <2>1 DEF Conserved, UsedIsSpent, SpentOf
<1> HIDE DEF taken, G, H
<1>5. Sum(taken, G) \in Nat
    BY <1>1, <1>2, SumHolds
<1>6. Sum(taken, H) \in Nat
    BY <1>1, <1>3, SumHolds
<1>7. Sum(taken, G \cup H) = Sum(taken, G) + Sum(taken, H)
    BY <1>1, <1>2, <1>3, SumUnion
<1> QED
    BY <1>3, <1>4, <1>5, <1>6, <1>7 DEF SpentOf, taken, G

(* A limit is at least what has been spent and given; it is that when the  *)
(* reservations that fit S have nothing left and the others need nothing.  *)
LEMMA LimitIsReached ==
    ASSUME CoverageTypeOK, Conserved, NEW S \in SUBSET Is
    PROVE  /\ Limit(S) \in Int
           /\ SpentOf(Fits(S)) + UsedOf(Is \ S) <= Limit(S)
           /\ (\A r \in Fits(S) : capacity[r] = 0) /\ (\A i \in Is \ S : demand[i] = 0) =>
                 Limit(S) = SpentOf(Fits(S)) + UsedOf(Is \ S)
<1> DEFINE G == Fits(S)
           T == Is \ S
           used == [i \in Is |-> Used(i)]
           taken == [r \in Rs |-> Spent(r)]
           need == [i \in T |-> Required(i)]
           have == [r \in G |-> Total(r)]
<1>1. IsFiniteSet(T) /\ IsFiniteSet(G) /\ T \subseteq Is /\ G \subseteq Rs
    BY SetsAreFinite
<1>2. /\ \A i \in T : /\ used[i] \in Int /\ need[i] \in Int /\ used[i] <= need[i]
                      /\ demand[i] = 0 => need[i] = used[i]
      /\ \A r \in G : /\ taken[r] \in Int /\ have[r] \in Int /\ taken[r] <= have[r]
                      /\ capacity[r] = 0 => have[r] = taken[r]
    BY <1>1, FleetIsCounted
<1>3. Limit(S) = Sum(have, G) + Sum(need, T)
    <2>1. MapThenSumSet(Total, G) = Sum(have, G)
        BY TotalsAreSum
    <2>2. MapThenSumSet(Required, T) = Sum(need, T)
        BY RequiredAreSum
    <2> QED
        BY <2>1, <2>2 DEF Limit, Fits
<1> HIDE DEF G, T, used, taken, need, have
<1>4. Sum(used, T) <= Sum(need, T)
    BY <1>1, <1>2, SumAtMost
<1>5. Sum(taken, G) <= Sum(have, G)
    BY <1>1, <1>2, SumAtMost
<1>6. Sum(used, T) \in Int /\ Sum(need, T) \in Int
    <2>1. Sum(used, T) \in Int
        BY <1>1, <1>2, SumType
    <2>2. Sum(need, T) \in Int
        BY <1>1, <1>2, SumType
    <2> QED
        BY <2>1, <2>2
<1>7. Sum(taken, G) \in Int /\ Sum(have, G) \in Int
    <2>1. Sum(taken, G) \in Int
        BY <1>1, <1>2, SumType
    <2>2. Sum(have, G) \in Int
        BY <1>1, <1>2, SumType
    <2> QED
        BY <2>1, <2>2
<1>8. (\A i \in T : demand[i] = 0) => Sum(need, T) = Sum(used, T)
    <2> SUFFICES ASSUME \A i \in T : demand[i] = 0
                 PROVE  Sum(need, T) = Sum(used, T)
        OBVIOUS
    <2>1. \A i \in T : used[i] \in Int /\ need[i] = used[i]
        BY <1>2
    <2> QED
        BY <1>1, <2>1, SumSame
<1>9. (\A r \in G : capacity[r] = 0) => Sum(have, G) = Sum(taken, G)
    <2> SUFFICES ASSUME \A r \in G : capacity[r] = 0
                 PROVE  Sum(have, G) = Sum(taken, G)
        OBVIOUS
    <2>1. \A r \in G : taken[r] \in Int /\ have[r] = taken[r]
        BY <1>2
    <2> QED
        BY <1>1, <2>1, SumSame
<1>10. /\ Limit(S) \in Int
       /\ Sum(taken, G) + Sum(used, T) <= Limit(S)
       /\ (\A r \in G : capacity[r] = 0) /\ (\A i \in T : demand[i] = 0) =>
             Limit(S) = Sum(taken, G) + Sum(used, T)
    BY <1>3, <1>4, <1>5, <1>6, <1>7, <1>8, <1>9
<1> QED
    BY <1>10 DEF G, T, used, taken, UsedOf, SpentOf

(* No limit is exceeded. The instances that lack something set a limit of   *)
(* which half is reached at least; where licences are known, they and all  *)
(* that are fitted by the same reservations set one that is reached.       *)
LEMMA MostIsCovered ==
    ASSUME CoverageTypeOK, Conserved, NothingFitsLeft
    PROVE  CoversTheMost
<1> SUFFICES ASSUME pass = 3
             PROVE  /\ \A S \in SUBSET Is : UsedOf(Is) <= Limit(S)
                    /\ LicencesKnown => \E S \in SUBSET Is : UsedOf(Is) = Limit(S)
                    /\ \E S \in SUBSET Is : 2 * UsedOf(Is) >= Limit(S)
    BY CoveredIsUsed DEF CoversTheMost
<1>1. \A i \in Is : demand[i] > 0 => \A r \in Fitting(i) : capacity[r] = 0
    BY FleetIsCounted DEF NothingFitsLeft, Fitting
<1>2. ASSUME NEW S \in SUBSET Is PROVE UsedOf(Is) <= Limit(S)
    <2>1. UsedOf(S) <= SpentOf(Fits(S))
        BY DEF Conserved, UsedIsSpent
    <2>2. /\ UsedOf(S) \in Nat /\ UsedOf(Is \ S) \in Nat /\ UsedOf(Is) \in Nat
          /\ UsedOf(Is) = UsedOf(S) + UsedOf(Is \ S)
        BY UsedInParts
    <2>3. SpentOf(Fits(S)) \in Nat
        BY SpentInParts
    <2>4. /\ Limit(S) \in Int
          /\ SpentOf(Fits(S)) + UsedOf(Is \ S) <= Limit(S)
        BY LimitIsReached
    <2> QED
        BY <2>1, <2>2, <2>3, <2>4
<1>3. ASSUME LicencesKnown PROVE \E S \in SUBSET Is : UsedOf(Is) = Limit(S)
    <2> DEFINE S == {i \in Is : Required(i) > 0 /\
                        \E j \in Is : demand[j] > 0 /\ Fitting(j) = Fitting(i)}
    <2>1. S \in SUBSET Is
        OBVIOUS
    <2>2. \A r \in Fits(S) : capacity[r] = 0
        BY <1>1 DEF Fits
    <2>3. \A i \in Is \ S : demand[i] = 0
        <3> SUFFICES ASSUME NEW i \in Is, demand[i] # 0 PROVE i \in S
            OBVIOUS
        <3>1. demand[i] > 0 /\ Required(i) > 0
            BY FleetIsCounted
        <3> QED
            BY <3>1
    <2>4. Apart(S)
        <3> SUFFICES ASSUME NEW i \in Is, Required(i) > 0, NEW k \in S,
                            NEW r \in Fitting(i), r \in Fitting(k)
                     PROVE  i \in S
            BY DEF Apart, Fits
        <3>1. k \in Is /\ Required(k) > 0
            OBVIOUS
        <3>2. Fitting(i) = Fitting(k)
            BY <1>3, <3>1, FittingIsShared
        <3> QED
            BY <3>2
    <2> HIDE DEF S
    <2>5. UsedOf(S) = SpentOf(Fits(S))
        BY <2>1, <2>4 DEF Conserved, UsedIsSpent
    <2>6. Limit(S) = SpentOf(Fits(S)) + UsedOf(Is \ S)
        BY <2>1, <2>2, <2>3, LimitIsReached
    <2>7. UsedOf(Is) = UsedOf(S) + UsedOf(Is \ S)
        BY <2>1, UsedInParts
    <2> QED
        BY <2>1, <2>5, <2>6, <2>7
<1>4. \E S \in SUBSET Is : 2 * UsedOf(Is) >= Limit(S)
    <2> DEFINE S == {i \in Is : demand[i] > 0}
    <2>1. S \in SUBSET Is
        OBVIOUS
    <2>2. \A r \in Fits(S) : capacity[r] = 0
        BY <1>1 DEF Fits
    <2>3. \A i \in Is \ S : demand[i] = 0
        BY FleetIsCounted
    <2> HIDE DEF S
    <2>4. Limit(S) = SpentOf(Fits(S)) + UsedOf(Is \ S)
        BY <2>1, <2>2, <2>3, LimitIsReached
    <2>5. /\ UsedOf(S) \in Nat /\ UsedOf(Is \ S) \in Nat /\ UsedOf(Is) \in Nat
          /\ UsedOf(Is) = UsedOf(S) + UsedOf(Is \ S)
        BY <2>1, UsedInParts
    <2>6. SpentOf(Fits(S)) \in Nat /\ SpentOf(Fits(S)) <= UsedOf(Is)
        BY <2>1, SpentInParts
    <2>7. 2 * UsedOf(Is) >= Limit(S)
        BY <2>4, <2>5, <2>6
    <2> QED
        BY <2>1, <2>7
<1> QED
    BY <1>2, <1>3, <1>4

(* What is covered in all is the most that can be while licences are known, *)
(* in whatever order the loops come to instances and reservations; with     *)
(* licences that are not known it is at least half of the most; for any     *)
(* number of instances and reservations (analyze, match).                   *)
THEOREM MostIsAlwaysCovered == CoverageSpec => []CoversTheMost
<1>1. CoverageInv => CoverageTypeOK
    BY DEF CoverageInv
<1>2. WellSpent => NothingFitsLeft
    BY DEF WellSpent
<1> QED
    BY <1>1, <1>2, ConservedAtFirst, StepConserves, MostIsCovered, CoverageHolds,
       ReservationsWellSpent, PTL DEF CoverageSpec

-----------------------------------------------------------------------------
(* Accounts and sessions (AuthSessions). *)

(* The rows of users, factors, sessions, requests and links.                *)
UserRow == [exists : BOOLEAN, active : BOOLEAN, admin : BOOLEAN, passwordSet : BOOLEAN,
            version : NewVersions]
FactorRow == [secret : Secrets, lastStep : 0..MaxCode, recovery : 0..1, pending : Secrets,
              pendingBy : SessionIds \cup {0}, resetRequired : BOOLEAN]
SessionRow == [of : Users \cup {"none"}, version : NewVersions, live : BOOLEAN, proof : Secrets]

RequestRow == [kind : {"none", "login", "session"}, of : Users \cup {"none"},
               by : SessionIds \cup {0}, version : NewVersions,
               may : {"enrol", "use", "administer"}]
LinkRow == [of : Users \cup {"none"}, purpose : {"invite", "reset"},
            version : NewVersions, open : BOOLEAN]

(* The rows the properties speak of.                                       *)
AccountsTyped ==
    /\ user \in [Users -> UserRow]
    /\ factor \in [Users -> FactorRow]
    /\ session \in [SessionIds -> SessionRow]

(* What is on its way: requests and links name accounts that exist.         *)
RequestsTyped ==
    /\ request \in [Requests -> RequestRow]
    /\ \A r \in Requests :
          /\ request[r].kind # "none" => request[r].of \in Users
          /\ request[r].kind = "session" => request[r].by \in SessionIds
          /\ request[r].may = "administer" => request[r].kind = "session"

(* The types of requests and links.                                         *)
LinksTyped ==
    /\ link \in [LinkIds -> LinkRow]
    /\ \A k \in LinkIds : link[k].open => link[k].of \in Users

(* Of the links of an account for one purpose at most one is open.          *)
OneOpen ==
    \A k, l \in LinkIds :
        /\ link[k].open /\ link[l].open
        /\ link[k].of = link[l].of /\ link[k].purpose = link[l].purpose
        => k = l

(* The types of challenges, of the clock and of what is remembered.         *)
MarksTyped ==
    /\ challenge \in [Users -> NewVersions \cup {-1}]
    /\ clock \in 1..MaxCode
    /\ spent \subseteq Users \X Secrets \X (1..MaxCode)
    /\ reused \in BOOLEAN

(* A session that is live has proven the secret of now, or none.            *)
LiveProven ==
    \A s \in SessionIds :
        session[s].live /\ session[s].of \in Users /\ session[s].proof # 0 =>
            session[s].proof = factor[session[s].of].secret

(* Of the codes S, those spent on the secret of this row are not newer than *)
(* its last step, and none is of the secret that waits for confirmation.   *)
Behind(u, entry, S) ==
    /\ \A x \in Secrets, c \in 1..MaxCode : <<u, x, c>> \in S =>
          x # 0 /\ x # entry.pending /\ (x = entry.secret => c <= entry.lastStep)
    /\ entry.pending # 0 => entry.pending # entry.secret

(* No code that was spent is later than the last step of its factor.        *)
CodesBehind == \A u \in Users : Behind(u, factor[u], spent)

(* What holds of users, sessions, factors and links.                        *)
AuthInv ==
    /\ AccountsTyped /\ RequestsTyped /\ LinksTyped /\ OneOpen /\ MarksTyped
    /\ AdminRemains /\ LiveProven /\ CodesBehind /\ CodeProvesOnce

(* A function changed at one place.                                         *)
LEMMA Puts ==
    ASSUME NEW S, NEW T, NEW f \in [S -> T], NEW x \in S, NEW v \in T
    PROVE  [f EXCEPT ![x] = v] \in [S -> T]
OBVIOUS

(* One administrator, and nobody signed in.                                 *)
LEMMA AuthBegins == AuthInit => AuthInv
<1> SUFFICES ASSUME AuthInit PROVE AuthInv
    OBVIOUS
<1> USE AuthAssumption
<1>1. user \in [Users -> UserRow]
    BY DEF AuthInit, UserRow, NewVersions
<1>2. factor \in [Users -> FactorRow]
    BY DEF AuthInit, FactorRow, NoFactor, Secrets
<1>3. session \in [SessionIds -> SessionRow]
    BY DEF AuthInit, SessionRow, NewVersions, Secrets
<1>4. AdminRemains
    BY DEF AuthInit, AdminRemains, SignsIn
<1>5. LiveProven /\ CodesBehind /\ CodeProvesOnce
    BY DEF AuthInit, LiveProven, CodesBehind, Behind, CodeProvesOnce, NoFactor
<1>6. RequestsTyped
    BY DEF AuthInit, RequestsTyped, RequestRow, NoRequest, NewVersions
<1>7. LinksTyped /\ OneOpen
    BY DEF AuthInit, LinksTyped, OneOpen, LinkRow, NewVersions
<1>8. MarksTyped
    <2>1. clock \in 1..MaxCode
        BY DEF AuthInit
    <2>2. challenge \in [Users -> NewVersions \cup {-1}]
        BY DEF AuthInit
    <2> QED BY <2>1, <2>2 DEF AuthInit, MarksTyped
<1> QED BY <1>1, <1>2, <1>3, <1>4, <1>5, <1>6, <1>7, <1>8 DEF AuthInv, AccountsTyped

-----------------------------------------------------------------------------
(* What the handlers do to a user. *)

(* The flags that make somebody able to sign in as an administrator.        *)
Administers(entry) == entry.exists /\ entry.active /\ entry.passwordSet /\ entry.admin

(* A new version of a user changes nothing else of the users.               *)
LEMMA UserBumped ==
    ASSUME AccountsTyped, NEW u \in Users, user[u].version < MaxVersion
    PROVE  /\ Bumped(u) \in [Users -> UserRow]
           /\ \A v \in Users : Administers(Bumped(u)[v]) <=> Administers(user[v])
           /\ \A v \in Users : v # u => Bumped(u)[v] = user[v]
<1> DEFINE entry == [user[u] EXCEPT !.version = @ + 1]
<1>1. user[u] \in UserRow /\ user \in [Users -> UserRow]
    BY DEF AccountsTyped
<1>2. user[u].version + 1 \in NewVersions
    BY <1>1, AuthAssumption DEF UserRow, NewVersions
<1>3. entry \in UserRow /\ (Administers(entry) <=> Administers(user[u]))
    BY <1>1, <1>2 DEF UserRow, Administers
<1>4. Bumped(u) = [user EXCEPT ![u] = entry]
    BY DEF Bumped
<1> HIDE DEF entry
<1> QED BY <1>1, <1>3, <1>4, Puts

(* If there are two administrators, one is left without any one of them.   *)
LEMMA AnotherAdmin ==
    ASSUME NEW u \in Users, Cardinality(Admins) > 1
    PROVE  \E v \in Users : v # u /\ SignsIn(v) /\ user[v].admin
<1> SUFFICES ASSUME \A v \in Admins : v = u PROVE FALSE
    BY DEF Admins
<1>1. Admins \subseteq {u}
    OBVIOUS
<1>2. IsFiniteSet({u}) /\ Cardinality({u}) = 1
    BY FS_Singleton
<1>3. Cardinality(Admins) <= Cardinality({u})
    BY <1>1, <1>2, FS_Subset
<1>4. Cardinality(Admins) \in Nat
    BY <1>1, <1>2, FS_Subset, FS_CardinalityType
<1> QED BY <1>2, <1>3, <1>4

(* An administrator remains where every one stays.                          *)
LEMMA AdminsStay ==
    ASSUME AdminRemains, \A v \in Users : Administers(user[v]) => Administers(user'[v])
    PROVE  AdminRemains'
BY DEF AdminRemains, SignsIn, Administers

(* What is done to users keeps one administrator who can sign in.           *)
LEMMA UsersKept ==
    ASSUME AuthInv, [AuthNext]_authVars
    PROVE  user' \in [Users -> UserRow] /\ AdminRemains'
<1> USE AuthAssumption
<1>a. AccountsTyped /\ AdminRemains /\ user \in [Users -> UserRow]
    BY DEF AuthInv, AccountsTyped
<1>1. ASSUME NEW u \in Users, user[u].version < MaxVersion, user' = Bumped(u)
      PROVE  user' \in [Users -> UserRow] /\ AdminRemains'
    BY <1>1, <1>a, UserBumped, AdminsStay
<1>2. ASSUME UNCHANGED user PROVE user' \in [Users -> UserRow] /\ AdminRemains'
    BY <1>2, <1>a DEF AdminRemains, SignsIn
<1>3. ASSUME NEW r \in Requests, NEW u \in Users, UpdateUser(r, u)
      PROVE  user' \in [Users -> UserRow] /\ AdminRemains'
    <2>1. PICK admin \in BOOLEAN, active \in BOOLEAN :
             /\ SignsIn(u) /\ user[u].admin /\ ~(admin /\ active) => Cardinality(Admins) > 1
             /\ user' = [Bumped(u) EXCEPT ![u].admin = admin, ![u].active = active]
        BY <1>3 DEF UpdateUser
    <2>2. user[u].version < MaxVersion
        BY <1>3 DEF UpdateUser
    <2>3. Bumped(u) \in [Users -> UserRow] /\ Bumped(u)[u] \in UserRow
        BY <1>a, <2>2, UserBumped
    <2> DEFINE entry == [Bumped(u)[u] EXCEPT !.admin = admin, !.active = active]
    <2>4. entry \in UserRow /\ entry.admin = admin /\ entry.active = active
          /\ entry.exists = Bumped(u)[u].exists /\ entry.passwordSet = Bumped(u)[u].passwordSet
        BY <2>3 DEF UserRow
    <2>5. user' = [Bumped(u) EXCEPT ![u] = entry]
        BY <2>1, <2>3
    <2> HIDE DEF entry
    <2>6. user' \in [Users -> UserRow] /\ user'[u] = entry
          /\ \A v \in Users : v # u => user'[v] = user[v]
        BY <1>a, <2>2, <2>3, <2>4, <2>5, UserBumped
    <2>7. CASE Administers(user[u]) /\ ~(admin /\ active)
        <3>1. PICK v \in Users : v # u /\ SignsIn(v) /\ user[v].admin
            BY <2>1, <2>7, AnotherAdmin DEF Administers, SignsIn
        <3> QED BY <2>6, <3>1 DEF AdminRemains, SignsIn
    <2>8. CASE Administers(user[u]) /\ admin /\ active
        <3>1. Bumped(u)[u].exists /\ Bumped(u)[u].passwordSet
            BY <1>a, <2>2, <2>8, UserBumped DEF Administers
        <3>2. Administers(user'[u])
            BY <2>4, <2>6, <2>8, <3>1 DEF Administers
        <3> QED BY <2>6, <3>2 DEF AdminRemains, SignsIn, Administers
    <2>9. CASE ~Administers(user[u])
        BY <1>a, <2>6, <2>9, AdminsStay
    <2> QED BY <2>6, <2>7, <2>8, <2>9
<1>4. ASSUME NEW r \in Requests, NEW u \in Users, AddUser(r, u)
      PROVE  user' \in [Users -> UserRow] /\ AdminRemains'
    <2>1. PICK entry \in UserRow : user' = [user EXCEPT ![u] = entry]
        <3>1. PICK admin \in BOOLEAN, invited \in BOOLEAN :
                 user' = [user EXCEPT ![u] = [exists |-> TRUE, active |-> TRUE, admin |-> admin,
                                              passwordSet |-> ~invited, version |-> 0]]
            BY <1>4 DEF AddUser
        <3>2. [exists |-> TRUE, active |-> TRUE, admin |-> admin,
               passwordSet |-> ~invited, version |-> 0] \in UserRow
            BY DEF UserRow, NewVersions
        <3> QED BY <3>1, <3>2
    <2>2. ~Administers(user[u])
        BY <1>4 DEF AddUser, Administers
    <2> QED BY <1>a, <2>1, <2>2, AdminsStay
<1>5. ASSUME NEW k \in LinkIds, CompleteAccess(k)
      PROVE  user' \in [Users -> UserRow] /\ AdminRemains'
    <2> DEFINE u == link[k].of
    <2>1. /\ user' = [Bumped(u) EXCEPT ![u].passwordSet = TRUE]
          /\ user[u].version < MaxVersion
        BY <1>5 DEF CompleteAccess
    <2>2. CASE u \notin Users
        <3>1. user' = user
            BY <1>a, <2>1, <2>2 DEF Bumped
        <3> QED BY <1>2, <3>1
    <2>3. CASE u \in Users
        <3>1. Bumped(u) \in [Users -> UserRow] /\ Bumped(u)[u] \in UserRow
            BY <1>a, <2>1, <2>3, UserBumped
        <3> DEFINE entry == [Bumped(u)[u] EXCEPT !.passwordSet = TRUE]
        <3>2. entry \in UserRow /\ (Administers(Bumped(u)[u]) => Administers(entry))
            BY <3>1 DEF UserRow, Administers
        <3>3. user' = [Bumped(u) EXCEPT ![u] = entry]
            BY <2>1, <3>1
        <3> HIDE DEF entry
        <3>4. user' \in [Users -> UserRow] /\ user'[u] = entry
              /\ \A v \in Users : v # u => user'[v] = Bumped(u)[v]
            BY <2>3, <3>1, <3>2, <3>3
        <3> QED BY <1>a, <2>1, <2>3, <3>2, <3>4, UserBumped, AdminsStay
    <2> QED BY <2>2, <2>3
<1>6. ASSUME NEW r \in Requests, ChangePassword(r) \/ Confirm(r)
      PROVE  user' \in [Users -> UserRow] /\ AdminRemains'
    <2>1. /\ user[request[r].of].version < MaxVersion /\ user' = Bumped(request[r].of)
        BY <1>6 DEF ChangePassword, Confirm, Enrol
    <2>2. CASE request[r].of \in Users
        BY <1>1, <2>1, <2>2
    <2>3. CASE request[r].of \notin Users
        <3>1. user' = user
            BY <1>a, <2>1, <2>3 DEF Bumped
        <3> QED BY <1>2, <3>1
    <2> QED BY <2>2, <2>3
<1>7. ASSUME NEW u \in Users, ResetFactor(u)
      PROVE  user' \in [Users -> UserRow] /\ AdminRemains'
    BY <1>1, <1>7 DEF ResetFactor
<1>8. ASSUME NEW r \in Requests, NEW u \in Users,
             TypePassword(r, u) \/ EndAllSessions(r, u) \/ IssueAccess(r, u)
      PROVE  UNCHANGED user
    BY <1>8 DEF TypePassword, EndAllSessions, IssueAccess
<1>9. ASSUME NEW u \in Users, VerifyLogin(u) \/ RequestReset(u) PROVE UNCHANGED user
    BY <1>9 DEF VerifyLogin, RequestReset
<1>10. ASSUME NEW r \in Requests, NEW s \in SessionIds, Authorise(r, s)
       PROVE  UNCHANGED user
    BY <1>10 DEF Authorise
<1>11. ASSUME NEW r \in Requests, Refuse(r) \/ Login(r) \/ Prove(r) \/ Setup(r)
       PROVE  UNCHANGED user
    BY <1>11 DEF Refuse, Login, Prove, Setup
<1>12. ASSUME NEW s \in SessionIds, EndSession(s) PROVE UNCHANGED user
    BY <1>12 DEF EndSession
<1>13. CASE Tick \/ RunOut \/ UNCHANGED authVars
    BY <1>2, <1>13 DEF Tick, RunOut, authVars
<1> QED
    BY <1>2, <1>3, <1>4, <1>5, <1>6, <1>7, <1>8, <1>9, <1>10, <1>11, <1>12, <1>13
       DEF AuthNext, AdminReset, HostReset

-----------------------------------------------------------------------------
(* Requests and links. *)

(* The types of requests are kept.                                          *)
LEMMA RequestsKept ==
    ASSUME AuthInv, [AuthNext]_authVars
    PROVE  RequestsTyped'
<1> USE AuthAssumption
<1>a. /\ request \in [Requests -> RequestRow] /\ RequestsTyped
      /\ user \in [Users -> UserRow] /\ session \in [SessionIds -> SessionRow]
    BY DEF AuthInv, AccountsTyped, RequestsTyped
<1>1. ASSUME NEW r \in Requests, NEW entry \in RequestRow, request' = [request EXCEPT ![r] = entry],
             entry.kind # "none" => entry.of \in Users,
             entry.kind = "session" => entry.by \in SessionIds,
             entry.may = "administer" => entry.kind = "session"
      PROVE  RequestsTyped'
    <2>1. request' \in [Requests -> RequestRow] /\ request'[r] = entry
          /\ \A q \in Requests : q # r => request'[q] = request[q]
        BY <1>1, <1>a
    <2> QED BY <1>1, <1>a, <2>1 DEF RequestsTyped
<1>2. ASSUME UNCHANGED request PROVE RequestsTyped'
    BY <1>2, <1>a DEF RequestsTyped
<1>3. ASSUME NEW r \in Requests, Done(r) PROVE RequestsTyped'
    <2>1. /\ NoRequest \in RequestRow /\ NoRequest.kind = "none" /\ NoRequest.may = "use"
        BY DEF NoRequest, RequestRow, NewVersions
    <2> QED BY <1>1, <1>3, <2>1 DEF Done
<1>4. ASSUME NEW r \in Requests, NEW u \in Users, TypePassword(r, u) PROVE RequestsTyped'
    <2> DEFINE entry == [NoRequest EXCEPT !.kind = "login", !.of = u, !.version = user[u].version]
    <2>1. user[u].version \in NewVersions
        BY <1>a DEF UserRow
    <2>2. entry \in RequestRow /\ entry.kind = "login" /\ entry.of = u /\ entry.may = "use"
        BY <2>1 DEF NoRequest, RequestRow
    <2>3. request' = [request EXCEPT ![r] = entry]
        BY <1>4 DEF TypePassword
    <2> HIDE DEF entry
    <2> QED BY <1>1, <2>2, <2>3
<1>5. ASSUME NEW r \in Requests, NEW s \in SessionIds, Authorise(r, s) PROVE RequestsTyped'
    <2> DEFINE u == session[s].of
               entry == [kind |-> "session", of |-> u, by |-> s, version |-> user[u].version,
                       may |-> IF factor[u].secret = 0 /\ factor[u].resetRequired THEN "enrol"
                               ELSE IF user[u].admin THEN "administer" ELSE "use"]
    <2>1. u \in Users
        BY <1>5 DEF Authorise, Usable
    <2>2. user[u].version \in NewVersions
        BY <1>a, <2>1 DEF UserRow
    <2>3. entry \in RequestRow /\ entry.kind = "session" /\ entry.of \in Users /\ entry.by \in SessionIds
        BY <2>1, <2>2 DEF RequestRow
    <2>4. request' = [request EXCEPT ![r] = entry]
        BY <1>5 DEF Authorise
    <2> HIDE DEF entry
    <2> QED BY <1>1, <2>3, <2>4
<1>6. ASSUME NEW r \in Requests, NEW u \in Users,
             \/ EndAllSessions(r, u) \/ AdminReset(r, u) \/ UpdateUser(r, u)
             \/ AddUser(r, u) \/ IssueAccess(r, u)
      PROVE  Done(r)
    BY <1>6 DEF EndAllSessions, AdminReset, UpdateUser, AddUser, IssueAccess
<1>7. ASSUME NEW r \in Requests,
             \/ Refuse(r) \/ Login(r) \/ Prove(r) \/ ChangePassword(r) \/ Setup(r) \/ Confirm(r)
      PROVE  Done(r)
    BY <1>7 DEF Refuse, Login, Prove, ChangePassword, Setup, Confirm
<1>8. ASSUME NEW u \in Users, VerifyLogin(u) \/ HostReset(u) \/ RequestReset(u)
      PROVE  UNCHANGED request
    BY <1>8 DEF VerifyLogin, HostReset, RequestReset
<1>9. ASSUME NEW s \in SessionIds, EndSession(s) PROVE UNCHANGED request
    BY <1>9 DEF EndSession
<1>10. ASSUME NEW k \in LinkIds, CompleteAccess(k) PROVE UNCHANGED request
    BY <1>10 DEF CompleteAccess
<1>11. CASE Tick \/ RunOut \/ UNCHANGED authVars
    BY <1>2, <1>11 DEF Tick, RunOut, authVars
<1> QED
    BY <1>2, <1>3, <1>4, <1>5, <1>6, <1>7, <1>8, <1>9, <1>10, <1>11 DEF AuthNext

(* A link that is made ends those made before.                              *)
LEMMA LinksKept ==
    ASSUME AuthInv, [AuthNext]_authVars
    PROVE  (LinksTyped /\ OneOpen)'
<1> USE AuthAssumption
<1>a. /\ link \in [LinkIds -> LinkRow] /\ LinksTyped /\ OneOpen /\ user \in [Users -> UserRow]
    BY DEF AuthInv, AccountsTyped, LinksTyped
<1>1. ASSUME UNCHANGED link PROVE (LinksTyped /\ OneOpen)'
    BY <1>1, <1>a DEF LinksTyped, OneOpen
<1>2. ASSUME NEW k \in LinkIds, link' = [link EXCEPT ![k].open = FALSE] PROVE (LinksTyped /\ OneOpen)'
    <2>1. [link[k] EXCEPT !.open = FALSE] \in LinkRow
        BY <1>a DEF LinkRow
    <2>2. link' \in [LinkIds -> LinkRow]
        BY <1>2, <1>a, <2>1
    <2>3. \A l \in LinkIds : /\ link'[l].open => link[l].open
                             /\ link'[l].of = link[l].of /\ link'[l].purpose = link[l].purpose
        <3>1. /\ [link[k] EXCEPT !.open = FALSE].open = FALSE
              /\ [link[k] EXCEPT !.open = FALSE].of = link[k].of
              /\ [link[k] EXCEPT !.open = FALSE].purpose = link[k].purpose
            BY <1>a DEF LinkRow
        <3>2. link'[k] = [link[k] EXCEPT !.open = FALSE]
              /\ \A l \in LinkIds : l # k => link'[l] = link[l]
            BY <1>2, <1>a
        <3> QED BY <3>1, <3>2
    <2> QED BY <1>a, <2>2, <2>3 DEF LinksTyped, OneOpen
<1>3. ASSUME NEW u \in Users, NEW purpose \in {"invite", "reset"},
             link' = Issued(link, u, purpose)
      PROVE  (LinksTyped /\ OneOpen)'
    <2>1. user[u].version \in NewVersions
        BY <1>a DEF UserRow
    <2> DEFINE new == [of |-> u, purpose |-> purpose, version |-> user[u].version, open |-> TRUE]
    <2>2. new \in LinkRow /\ new.of = u /\ new.purpose = purpose
        BY <2>1 DEF LinkRow
    <2>3. \A l \in LinkIds : [link[l] EXCEPT !.open = FALSE] \in LinkRow
                             /\ ~[link[l] EXCEPT !.open = FALSE].open
        BY <1>a DEF LinkRow
    <2>6. ASSUME NEW l \in LinkIds, l # NextLink
          PROVE  \/ link'[l] = link[l] /\ ~(link[l].of = u /\ link[l].purpose = purpose)
                 \/ link'[l] = [link[l] EXCEPT !.open = FALSE]
        BY <1>3, <2>6 DEF Issued
    <2>7. ASSUME NEW l \in LinkIds, l = NextLink PROVE link'[l] = new
        BY <1>3, <2>7 DEF Issued
    <2>4. /\ DOMAIN link' = LinkIds /\ link' = [l \in LinkIds |-> link'[l]]
          /\ \A l \in LinkIds : link'[l] \in {new, link[l], [link[l] EXCEPT !.open = FALSE]}
        BY <1>3 DEF Issued
    <2> HIDE DEF new
    <2>5. link' \in [LinkIds -> LinkRow]
        BY <1>a, <2>2, <2>3, <2>4
    <2>8. LinksTyped'
        BY <1>a, <2>2, <2>3, <2>4, <2>5 DEF LinksTyped
    <2>9. OneOpen'
        <3> SUFFICES ASSUME NEW k \in LinkIds, NEW l \in LinkIds, link'[k].open, link'[l].open,
                            link'[k].of = link'[l].of, link'[k].purpose = link'[l].purpose
                     PROVE  k = l
            BY DEF OneOpen
        <3>1. CASE k # NextLink /\ l # NextLink
            <4>1. link'[k] = link[k] /\ link'[l] = link[l]
                BY <2>3, <2>6, <3>1
            <4> QED BY <1>a, <4>1 DEF OneOpen
        <3>2. ASSUME NEW m \in LinkIds, m # NextLink, link'[m].open
              PROVE  ~(link'[m].of = u /\ link'[m].purpose = purpose)
            BY <2>3, <2>6, <3>2
        <3> QED BY <2>2, <2>7, <3>1, <3>2
    <2> QED BY <2>8, <2>9
<1>4. ASSUME NEW r \in Requests, NEW u \in Users, AddUser(r, u) \/ IssueAccess(r, u)
      PROVE  (LinksTyped /\ OneOpen)'
    BY <1>1, <1>3, <1>4 DEF AddUser, IssueAccess
<1>5. ASSUME NEW u \in Users, RequestReset(u) PROVE (LinksTyped /\ OneOpen)'
    BY <1>3, <1>5 DEF RequestReset
<1>6. ASSUME NEW k \in LinkIds, CompleteAccess(k) PROVE (LinksTyped /\ OneOpen)'
    BY <1>2, <1>6 DEF CompleteAccess
<1>7. CASE RunOut
    BY <1>1, <1>2, <1>7 DEF RunOut
<1>8. ASSUME NEW r \in Requests, NEW u \in Users,
             \/ TypePassword(r, u) \/ EndAllSessions(r, u) \/ AdminReset(r, u) \/ UpdateUser(r, u)
      PROVE  UNCHANGED link
    BY <1>8 DEF TypePassword, EndAllSessions, AdminReset, UpdateUser
<1>9. ASSUME NEW r \in Requests, NEW s \in SessionIds, Authorise(r, s) PROVE UNCHANGED link
    BY <1>9 DEF Authorise
<1>10. ASSUME NEW r \in Requests,
              \/ Refuse(r) \/ Login(r) \/ Prove(r) \/ ChangePassword(r) \/ Setup(r) \/ Confirm(r)
       PROVE  UNCHANGED link
    BY <1>10 DEF Refuse, Login, Prove, ChangePassword, Setup, Confirm
<1>11. ASSUME NEW u \in Users, VerifyLogin(u) \/ HostReset(u) PROVE UNCHANGED link
    BY <1>11 DEF VerifyLogin, HostReset
<1>12. ASSUME NEW s \in SessionIds, EndSession(s) PROVE UNCHANGED link
    BY <1>12 DEF EndSession
<1>13. CASE Tick \/ UNCHANGED authVars
    BY <1>1, <1>13 DEF Tick, authVars
<1> QED
    BY <1>1, <1>4, <1>5, <1>6, <1>7, <1>8, <1>9, <1>10, <1>11, <1>12, <1>13 DEF AuthNext

-----------------------------------------------------------------------------
(* Factors and codes. *)

(* A code that is accepted is newer than any that was spent on its secret.  *)
LEMMA CodeAccepted ==
    ASSUME AuthInv, NEW u \in Users, NEW code \in Proofs(u), Spend(u, factor[u].secret, code)
    PROVE  /\ After(factor[u], code) \in FactorRow
           /\ After(factor[u], code).secret = factor[u].secret
           /\ After(factor[u], code).pending = factor[u].pending
           /\ Behind(u, After(factor[u], code), spent')
           /\ \A v \in Users : v # u => Behind(v, factor[v], spent')
           /\ spent' \subseteq Users \X Secrets \X (1..MaxCode) /\ ~reused'
           /\ \A p \in spent' : p \in spent \/ p = <<u, factor[u].secret, code>>
<1> USE AuthAssumption
<1> DEFINE entry == factor[u]
           x == entry.secret
           new == After(entry, code)
<1>a. /\ entry \in FactorRow /\ x \in Secrets /\ clock \in 1..MaxCode
      /\ \A v \in Users : Behind(v, factor[v], spent)
      /\ spent \subseteq Users \X Secrets \X (1..MaxCode) /\ ~reused
    BY DEF AuthInv, AccountsTyped, MarksTyped, CodesBehind, CodeProvesOnce, FactorRow
<1>b. entry.lastStep \in 0..MaxCode /\ entry.recovery \in 0..1 /\ entry.pending \in Secrets
    BY <1>a DEF FactorRow
<1>1. \/ x = 0 /\ code = 0
      \/ x # 0 /\ code = -1 /\ entry.recovery > 0
      \/ x # 0 /\ code \in 1..MaxCode /\ code > entry.lastStep
    BY <1>a, <1>b DEF Proofs, Matched
<1>2. /\ new \in FactorRow /\ new.secret = x /\ new.pending = entry.pending
      /\ code > 0 => new.lastStep = code
      /\ code <= 0 => new.lastStep = entry.lastStep
    <2>1. CASE code = 0
        BY <1>a, <2>1 DEF After
    <2>2. CASE code = -1 /\ entry.recovery > 0
        <3>1. entry.recovery - 1 \in 0..1
            BY <1>b, <2>2
        <3>2. new = [entry EXCEPT !.recovery = @ - 1]
            BY <2>2 DEF After
        <3> QED BY <1>a, <2>2, <3>1, <3>2 DEF FactorRow
    <2>3. CASE code \in 1..MaxCode
        <3>1. new = [entry EXCEPT !.lastStep = code]
            BY <2>3 DEF After
        <3> QED BY <1>a, <1>b, <2>3, <3>1 DEF FactorRow
    <2> QED BY <1>1, <2>1, <2>2, <2>3
<1>3. /\ \A p \in spent' : p \in spent \/ p = <<u, x, code>>
      /\ spent' \subseteq Users \X Secrets \X (1..MaxCode)
    BY <1>a DEF Spend
<1>4. ~reused'
    <2>1. CASE code \in 1..MaxCode /\ code > entry.lastStep
        <3>1. <<u, x, code>> \notin spent
            BY <1>a, <1>b, <2>1 DEF Behind
        <3> QED BY <1>a, <3>1 DEF Spend
    <2>2. CASE code <= 0
        <3>1. <<u, x, code>> \notin Users \X Secrets \X (1..MaxCode)
            BY <2>2
        <3> QED BY <1>a, <3>1 DEF Spend
    <2> QED BY <1>1, <2>1, <2>2
<1>5. \A v \in Users : v # u => Behind(v, factor[v], spent')
    BY <1>a, <1>3 DEF Behind
<1>6. ASSUME NEW y \in Secrets, NEW c \in 1..MaxCode, <<u, y, c>> \in spent'
      PROVE  y # 0 /\ y # new.pending /\ (y = new.secret => c <= new.lastStep)
    <2> HIDE DEF new
    <2>1. CASE <<u, y, c>> \in spent
        <3>1. y # 0 /\ y # entry.pending /\ (y = x => c <= entry.lastStep)
            BY <1>a, <2>1 DEF Behind
        <3> QED BY <1>1, <1>2, <1>b, <3>1
    <2>2. CASE y = x /\ c = code
        <3>1. entry.pending # 0 => entry.pending # x
            BY <1>a DEF Behind
        <3> QED BY <1>1, <1>2, <1>b, <2>2, <3>1
    <2> QED BY <1>3, <1>6, <2>1, <2>2
<1>7. new.pending # 0 => new.pending # new.secret
    <2> HIDE DEF new
    <2>1. entry.pending # 0 => entry.pending # x
        BY <1>a DEF Behind
    <2> QED BY <1>2, <2>1
<1>8. Behind(u, new, spent')
    <2> HIDE DEF new
    <2> QED BY <1>6, <1>7 DEF Behind
<1> QED BY <1>2, <1>3, <1>4, <1>5, <1>8

(* A user without a factor is behind no code.                               *)
LEMMA NoneBehind ==
    ASSUME NEW u \in Users, NEW S, NEW flag \in BOOLEAN,
           \A x \in Secrets, c \in 1..MaxCode : <<u, x, c>> \in S => x # 0
    PROVE  /\ [NoFactor EXCEPT !.resetRequired = flag] \in FactorRow
           /\ [NoFactor EXCEPT !.resetRequired = flag].secret = 0
           /\ Behind(u, [NoFactor EXCEPT !.resetRequired = flag], S)
<1> DEFINE entry == [NoFactor EXCEPT !.resetRequired = flag]
<1>1. entry \in FactorRow /\ entry.secret = 0 /\ entry.pending = 0 /\ entry.lastStep = 0
    BY AuthAssumption DEF NoFactor, FactorRow, Secrets
<1> HIDE DEF entry
<1>2. Behind(u, entry, S)
    BY <1>1 DEF Behind
<1> QED BY <1>1, <1>2 DEF entry

(* The types of factors.                                                    *)
FactorsTyped ==
    /\ factor \in [Users -> FactorRow]
    /\ spent \subseteq Users \X Secrets \X (1..MaxCode)

(* One row is replaced. *)
LEMMA OneFactor ==
    ASSUME factor \in [Users -> FactorRow],
           NEW u \in Users, NEW entry \in FactorRow, factor' = [factor EXCEPT ![u] = entry],
           Behind(u, entry, spent'), \A v \in Users : v # u => Behind(v, factor[v], spent'),
           spent' \subseteq Users \X Secrets \X (1..MaxCode), ~reused'
    PROVE  /\ FactorsTyped' /\ CodesBehind' /\ CodeProvesOnce'
           /\ factor'[u] = entry /\ \A v \in Users : v # u => factor'[v] = factor[v]
<1>1. /\ factor' \in [Users -> FactorRow] /\ factor'[u] = entry
      /\ \A v \in Users : v # u => factor'[v] = factor[v]
    OBVIOUS
<1>2. \A v \in Users : Behind(v, factor'[v], spent')
    BY <1>1
<1>3. CodesBehind'
    BY <1>2 DEF CodesBehind, Behind
<1> QED BY <1>1, <1>3 DEF FactorsTyped, CodeProvesOnce

(* What holds of the factors.                                               *)
FactorsSafe == FactorsTyped /\ CodesBehind /\ CodeProvesOnce
(* The secret of a factor is left alone.                                    *)
SecretStays(u) == factor'[u].secret = factor[u].secret

(* Whoever proves a factor, whatever else the handler writes in its row.    *)
LEMMA FactorProves ==
    ASSUME AuthInv, NEW u \in Users, NEW code \in Proofs(u), Spend(u, factor[u].secret, code),
           NEW entry \in FactorRow, factor' = [factor EXCEPT ![u] = entry],
           entry.secret = factor[u].secret, entry.lastStep = After(factor[u], code).lastStep,
           \/ entry.pending = factor[u].pending
           \/ entry.pending \notin Made
    PROVE  FactorsSafe' /\ \A v \in Users : SecretStays(v)
<1> DEFINE old == factor[u]
           new == After(old, code)
<1>1. /\ new \in FactorRow /\ new.secret = old.secret /\ new.pending = old.pending
      /\ Behind(u, new, spent')
      /\ \A v \in Users : v # u => Behind(v, factor[v], spent')
      /\ spent' \subseteq Users \X Secrets \X (1..MaxCode) /\ ~reused'
      /\ \A p \in spent' : p \in spent \/ p = <<u, old.secret, code>>
    BY CodeAccepted
<1> HIDE DEF new
<1>2. CASE entry.pending = old.pending
    <2>1. Behind(u, entry, spent')
        BY <1>1, <1>2 DEF Behind, new
    <2>2. /\ factor \in [Users -> FactorRow]
        BY DEF AuthInv, AccountsTyped
    <2> QED BY <1>1, <2>1, <2>2, OneFactor DEF FactorsSafe, SecretStays
<1>3. CASE entry.pending \notin Made
    <2>1. \A x, c : <<u, x, c>> \in spent => x \in Made
        <3> SUFFICES ASSUME NEW x, NEW c, <<u, x, c>> \in spent PROVE x \in Made
            OBVIOUS
        <3>1. x = <<u, x, c>>[2]
            OBVIOUS
        <3> QED BY <3>1 DEF Made
    <2>2. old.secret \in Made
        BY DEF Made
    <2>3. \A x \in Secrets, c \in 1..MaxCode : <<u, x, c>> \in spent' => x # entry.pending
        BY <1>1, <1>3, <2>1, <2>2
    <2>4. Behind(u, entry, spent')
        BY <1>1, <1>3, <2>2, <2>3 DEF Behind, new
    <2>5. /\ factor \in [Users -> FactorRow]
        BY DEF AuthInv, AccountsTyped
    <2> QED BY <1>1, <2>4, <2>5, OneFactor DEF FactorsSafe, SecretStays
<1> QED BY <1>2, <1>3

(* Every step leaves the codes spent once; only the confirmation of a new   *)
(* secret and a reset change a secret, and only of one user.               *)
LEMMA FactorsKept ==
    ASSUME AuthInv, [AuthNext]_authVars
    PROVE  /\ FactorsSafe'
           /\ \/ \A v \in Users : SecretStays(v)
              \/ \E u \in Users : /\ \A v \in Users : v # u => SecretStays(v)
                                  /\ ResetFactor(u)
              \/ \E r \in Requests : /\ Confirm(r) /\ request[r].of \in Users
                                     /\ \A v \in Users : v # request[r].of => SecretStays(v)
                                     /\ factor'[request[r].of].secret = factor[request[r].of].pending
<1> DEFINE Goal == /\ FactorsSafe'
                   /\ \/ \A v \in Users : SecretStays(v)
                      \/ \E u \in Users : /\ \A v \in Users : v # u => SecretStays(v)
                                          /\ ResetFactor(u)
                      \/ \E r \in Requests :
                            /\ Confirm(r) /\ request[r].of \in Users
                            /\ \A v \in Users : v # request[r].of => SecretStays(v)
                            /\ factor'[request[r].of].secret = factor[request[r].of].pending
<1> USE AuthAssumption
<1>a. /\ factor \in [Users -> FactorRow]
      /\ spent \subseteq Users \X Secrets \X (1..MaxCode)
      /\ CodesBehind /\ CodeProvesOnce /\ ~reused
      /\ \A v \in Users : Behind(v, factor[v], spent)
    BY DEF AuthInv, AccountsTyped, MarksTyped, CodesBehind, CodeProvesOnce
<1>b. \A r \in Requests :
         /\ LockedUser(r) => request[r].of \in Users /\ request[r].by \in SessionIds
         /\ LockedAdmin(r) => request[r].of \in Users
    BY DEF AuthInv, RequestsTyped, LockedUser, LockedAdmin
<1>c. \A x \in Secrets, c \in 1..MaxCode, v \in Users : <<v, x, c>> \in spent => x # 0
    BY <1>a DEF Behind
<1>1. ASSUME UNCHANGED <<factor, spent, reused>> PROVE Goal
    <2>1. CodesBehind' /\ FactorsTyped' /\ CodeProvesOnce'
        BY <1>1, <1>a DEF CodesBehind, Behind, FactorsTyped, CodeProvesOnce
    <2> QED BY <1>1, <2>1 DEF SecretStays, FactorsSafe
<1>2. ASSUME NEW u \in Users, VerifyLogin(u) PROVE Goal
    <2>1. PICK code \in Proofs(u) : /\ factor' = [factor EXCEPT ![u] = After(@, code)]
                                    /\ Spend(u, factor[u].secret, code)
        BY <1>2 DEF VerifyLogin
    <2> DEFINE entry == After(factor[u], code)
    <2>2. factor' = [factor EXCEPT ![u] = entry]
        BY <2>1
    <2>3. /\ entry \in FactorRow /\ entry.secret = factor[u].secret
          /\ entry.pending = factor[u].pending /\ entry.lastStep = After(factor[u], code).lastStep
        BY <2>1, CodeAccepted
    <2> HIDE DEF entry
    <2>4. FactorsSafe' /\ \A v \in Users : SecretStays(v)
        BY <2>1, <2>2, <2>3, FactorProves
    <2> QED BY <2>4
<1>3. ASSUME NEW r \in Requests, ChangePassword(r) PROVE Goal
    <2> DEFINE u == request[r].of
    <2>1. u \in Users
        BY <1>3, <1>b DEF ChangePassword
    <2>2. PICK code \in Proofs(u) : /\ factor' = [factor EXCEPT ![u] = After(@, code)]
                                    /\ Spend(u, factor[u].secret, code)
        BY <1>3 DEF ChangePassword
    <2> DEFINE entry == After(factor[u], code)
    <2>3. factor' = [factor EXCEPT ![u] = entry]
        BY <2>2
    <2> HIDE DEF u
    <2>4. /\ entry \in FactorRow /\ entry.secret = factor[u].secret
          /\ entry.pending = factor[u].pending /\ entry.lastStep = After(factor[u], code).lastStep
        BY <2>1, <2>2, CodeAccepted
    <2> HIDE DEF entry
    <2>5. FactorsSafe' /\ \A v \in Users : SecretStays(v)
        BY <2>1, <2>2, <2>3, <2>4, FactorProves
    <2> QED BY <2>5
<1>4. ASSUME NEW r \in Requests, Prove(r) PROVE Goal
    <2> DEFINE u == request[r].of
    <2>1. u \in Users
        BY <1>4, <1>b DEF Prove
    <2>2. PICK code \in Proofs(u), codes \in {"kept", "new"} :
             /\ factor' = [factor EXCEPT ![u] = IF codes = "new"
                                               THEN [After(@, code) EXCEPT !.recovery = 1]
                                               ELSE After(@, code)]
             /\ Spend(u, factor[u].secret, code)
        BY <1>4 DEF Prove
    <2> DEFINE entry == IF codes = "new" THEN [After(factor[u], code) EXCEPT !.recovery = 1]
                                       ELSE After(factor[u], code)
    <2>3. factor' = [factor EXCEPT ![u] = entry]
        BY <2>2
    <2> HIDE DEF u
    <2>4. /\ After(factor[u], code) \in FactorRow
          /\ After(factor[u], code).secret = factor[u].secret
          /\ After(factor[u], code).pending = factor[u].pending
        BY <2>1, <2>2, CodeAccepted
    <2>5. /\ entry \in FactorRow /\ entry.secret = After(factor[u], code).secret
          /\ entry.pending = After(factor[u], code).pending
          /\ entry.lastStep = After(factor[u], code).lastStep
        BY <2>4 DEF FactorRow
    <2> HIDE DEF entry
    <2>6. FactorsSafe' /\ \A v \in Users : SecretStays(v)
        BY <2>1, <2>2, <2>3, <2>4, <2>5, FactorProves
    <2> QED BY <2>6
<1>5. ASSUME NEW r \in Requests, Setup(r) PROVE Goal
    <2> DEFINE u == request[r].of
    <2>1. u \in Users /\ request[r].by \in SessionIds
        BY <1>5, <1>b DEF Setup
    <2>2. PICK code \in Proofs(u), fresh \in (1..MaxSecrets) \ Made :
             /\ factor' = [factor EXCEPT ![u] = [After(@, code) EXCEPT !.pending = fresh,
                                                                !.pendingBy = request[r].by]]
             /\ Spend(u, factor[u].secret, code)
        BY <1>5 DEF Setup
    <2> DEFINE entry == [After(factor[u], code) EXCEPT !.pending = fresh,
                                                     !.pendingBy = request[r].by]
    <2>3. factor' = [factor EXCEPT ![u] = entry]
        BY <2>2
    <2> HIDE DEF u
    <2>4. /\ After(factor[u], code) \in FactorRow
          /\ After(factor[u], code).secret = factor[u].secret
        BY <2>1, <2>2, CodeAccepted
    <2>5. fresh \in Secrets
        BY DEF Secrets
    <2>6. /\ entry \in FactorRow /\ entry.secret = After(factor[u], code).secret
          /\ entry.pending = fresh /\ entry.lastStep = After(factor[u], code).lastStep
        BY <2>1, <2>4, <2>5 DEF FactorRow
    <2> HIDE DEF entry
    <2>7. FactorsSafe' /\ \A v \in Users : SecretStays(v)
        BY <2>1, <2>2, <2>3, <2>4, <2>6, FactorProves
    <2> QED BY <2>7
<1>6. ASSUME NEW r \in Requests, Confirm(r) PROVE Goal
    <2> DEFINE u == request[r].of
               secret == factor[u].pending
    <2>1. u \in Users
        BY <1>6, <1>b DEF Confirm
    <2>2. secret \in Secrets /\ secret # 0
        BY <1>6, <1>a, <2>1 DEF Confirm, FactorRow
    <2>3. PICK code \in Matched(u, secret, 0) :
             /\ factor' = [factor EXCEPT ![u] =
                   [NoFactor EXCEPT !.secret = secret, !.lastStep = code, !.recovery = 1]]
             /\ Spend(u, secret, code)
        BY <1>6 DEF Confirm
    <2>4. code \in 1..MaxCode
        BY <2>3 DEF Matched
    <2> DEFINE entry == [NoFactor EXCEPT !.secret = secret, !.lastStep = code, !.recovery = 1]
    <2>5. factor' = [factor EXCEPT ![u] = entry]
        BY <2>3
    <2> HIDE DEF u, secret
    <2>6. /\ entry \in FactorRow /\ entry.secret = secret /\ entry.lastStep = code /\ entry.pending = 0
        <3>1. NoFactor \in FactorRow /\ NoFactor.pending = 0
            BY DEF NoFactor, FactorRow, Secrets
        <3>2. code \in 0..MaxCode /\ 1 \in 0..1
            BY <2>4
        <3> QED BY <2>2, <3>1, <3>2 DEF FactorRow
    <2>7. \A x \in Secrets, c \in 1..MaxCode : <<u, x, c>> \in spent => x # secret
        BY <1>a, <2>1 DEF Behind, secret
    <2>8. /\ \A p \in spent' : p \in spent \/ p = <<u, secret, code>>
          /\ spent' \subseteq Users \X Secrets \X (1..MaxCode)
        BY <2>3, <1>a DEF Spend
    <2>9. ~reused'
        <3>1. <<u, secret, code>> \notin spent
            BY <2>2, <2>4, <2>7
        <3> QED BY <1>a, <2>3, <3>1 DEF Spend
    <2>10. \A v \in Users : v # u => Behind(v, factor[v], spent')
        BY <1>a, <2>8 DEF Behind
    <2> HIDE DEF entry
    <2>11. Behind(u, entry, spent')
        BY <1>c, <2>1, <2>2, <2>4, <2>6, <2>7, <2>8 DEF Behind
    <2>12. /\ FactorsSafe' /\ factor'[u].secret = secret
           /\ \A v \in Users : v # u => factor'[v] = factor[v]
        BY <1>a, <2>1, <2>5, <2>6, <2>8, <2>9, <2>10, <2>11, OneFactor DEF FactorsSafe
    <2> QED BY <1>6, <2>1, <2>12 DEF SecretStays, u, secret
<1>7. ASSUME NEW r \in Requests, NEW u \in Users, AdminReset(r, u) PROVE Goal
    <2> DEFINE a == request[r].of
               none == [NoFactor EXCEPT !.resetRequired = TRUE]
    <2>1. a \in Users /\ a # u
        BY <1>7, <1>b DEF AdminReset
    <2>2. PICK code \in Proofs(a) :
             /\ factor' = [factor EXCEPT ![a] = After(@, code), ![u] = none]
             /\ Spend(a, factor[a].secret, code)
        BY <1>7 DEF AdminReset
    <2> HIDE DEF a
    <2> DEFINE entry == After(factor[a], code)
    <2>3. /\ entry \in FactorRow /\ entry.secret = factor[a].secret
          /\ Behind(a, entry, spent')
          /\ \A v \in Users : v # a => Behind(v, factor[v], spent')
          /\ spent' \subseteq Users \X Secrets \X (1..MaxCode) /\ ~reused'
          /\ \A p \in spent' : p \in spent \/ p = <<a, factor[a].secret, code>>
        BY <2>1, <2>2, CodeAccepted
    <2> HIDE DEF entry, none
    <2>4. /\ factor' = [factor EXCEPT ![a] = entry, ![u] = none]
        BY <2>2 DEF entry
    <2>5. \A x \in Secrets, c \in 1..MaxCode : <<u, x, c>> \in spent' => x # 0
        BY <1>c, <2>1, <2>3
    <2>6. none \in FactorRow /\ none.secret = 0 /\ Behind(u, none, spent')
        BY <2>5, NoneBehind DEF none
    <2>7. /\ factor' \in [Users -> FactorRow] /\ factor'[a] = entry /\ factor'[u] = none
          /\ \A v \in Users : v # a /\ v # u => factor'[v] = factor[v]
        BY <1>a, <2>1, <2>3, <2>4, <2>6
    <2>8. \A v \in Users : Behind(v, factor'[v], spent')
        BY <2>3, <2>6, <2>7
    <2>9. FactorsSafe'
        <3>1. CodesBehind'
            BY <2>8 DEF CodesBehind, Behind
        <3> QED BY <2>3, <2>7, <3>1 DEF FactorsSafe, FactorsTyped, CodeProvesOnce
    <2>10. ResetFactor(u)
        BY <1>7 DEF AdminReset
    <2> QED BY <2>3, <2>7, <2>9, <2>10 DEF SecretStays
<1>8. ASSUME NEW u \in Users, HostReset(u) PROVE Goal
    <2> DEFINE none == [NoFactor EXCEPT !.resetRequired = TRUE]
    <2>1. factor' = [factor EXCEPT ![u] = none] /\ spent' = spent /\ reused' = reused
          /\ ResetFactor(u)
        BY <1>8 DEF HostReset, Unspent
    <2>2. none \in FactorRow /\ Behind(u, none, spent')
        BY <1>c, <2>1, NoneBehind
    <2> HIDE DEF none
    <2>3. FactorsSafe' /\ \A v \in Users : v # u => factor'[v] = factor[v]
        BY <1>a, <2>1, <2>2, OneFactor DEF FactorsSafe
    <2> QED BY <2>1, <2>3 DEF SecretStays
<1>9. ASSUME RunOut PROVE Goal
    <2>1. spent' = spent /\ reused' = reused
        BY <1>9 DEF RunOut, Unspent
    <2>2. ASSUME NEW u \in Users,
                 factor' = [factor EXCEPT ![u].pending = 0, ![u].pendingBy = 0]
          PROVE  Goal
        <3> DEFINE entry == [factor[u] EXCEPT !.pending = 0, !.pendingBy = 0]
        <3>1. factor[u] \in FactorRow
            BY <1>a
        <3>z. 0 \in Secrets /\ 0 \in SessionIds \cup {0}
            BY DEF Secrets
        <3>2. /\ entry \in FactorRow /\ entry.secret = factor[u].secret /\ entry.pending = 0
              /\ entry.lastStep = factor[u].lastStep
            BY <3>1, <3>z DEF FactorRow
        <3>3. factor' = [factor EXCEPT ![u] = entry]
            BY <2>2, <1>a
        <3> HIDE DEF entry
        <3>4. Behind(u, entry, spent')
            BY <1>a, <1>c, <2>1, <3>2 DEF Behind
        <3>5. /\ FactorsSafe' /\ factor'[u] = entry
              /\ \A v \in Users : v # u => factor'[v] = factor[v]
            BY <1>a, <2>1, <3>2, <3>3, <3>4, OneFactor DEF FactorsSafe
        <3> QED BY <3>2, <3>5 DEF SecretStays
    <2> HIDE DEF Goal
    <2> QED BY <1>1, <1>9, <2>1, <2>2 DEF RunOut
<1>10. ASSUME NEW r \in Requests, NEW u \in Users,
              \/ TypePassword(r, u) \/ EndAllSessions(r, u) \/ UpdateUser(r, u)
              \/ AddUser(r, u) \/ IssueAccess(r, u)
       PROVE  UNCHANGED <<factor, spent, reused>>
    BY <1>10 DEF TypePassword, EndAllSessions, UpdateUser, AddUser, IssueAccess, Unspent
<1>11. ASSUME NEW r \in Requests, NEW s \in SessionIds, Authorise(r, s)
       PROVE  UNCHANGED <<factor, spent, reused>>
    BY <1>11 DEF Authorise, Unspent
<1>12. ASSUME NEW r \in Requests, Refuse(r) \/ Login(r) PROVE UNCHANGED <<factor, spent, reused>>
    BY <1>12 DEF Refuse, Login, Unspent
<1>13. ASSUME NEW u \in Users, RequestReset(u) PROVE UNCHANGED <<factor, spent, reused>>
    BY <1>13 DEF RequestReset, Unspent
<1>14. ASSUME NEW s \in SessionIds, EndSession(s) PROVE UNCHANGED <<factor, spent, reused>>
    BY <1>14 DEF EndSession, Unspent
<1>15. ASSUME NEW k \in LinkIds, CompleteAccess(k) PROVE UNCHANGED <<factor, spent, reused>>
    BY <1>15 DEF CompleteAccess, Unspent
<1>16. ASSUME Tick \/ UNCHANGED authVars PROVE Goal
    BY <1>1, <1>16 DEF Tick, authVars, Unspent
<1> HIDE DEF Goal
<1>17. ASSUME NEW r \in Requests, NEW u \in Users,
              \/ TypePassword(r, u) \/ EndAllSessions(r, u) \/ AdminReset(r, u) \/ UpdateUser(r, u)
              \/ AddUser(r, u) \/ IssueAccess(r, u)
       PROVE  Goal
    BY <1>1, <1>7, <1>10, <1>17
<1>18. ASSUME NEW r \in Requests,
              \/ Refuse(r) \/ Login(r) \/ Prove(r) \/ ChangePassword(r) \/ Setup(r) \/ Confirm(r)
       PROVE  Goal
    BY <1>1, <1>3, <1>4, <1>5, <1>6, <1>12, <1>18
<1>19. ASSUME NEW u \in Users, VerifyLogin(u) \/ HostReset(u) \/ RequestReset(u) PROVE Goal
    BY <1>1, <1>2, <1>8, <1>13, <1>19
<1>20. ASSUME NEW r \in Requests, NEW s \in SessionIds, Authorise(r, s) PROVE Goal
    BY <1>1, <1>11, <1>20
<1>21. ASSUME NEW k \in LinkIds, CompleteAccess(k) PROVE Goal
    BY <1>1, <1>15, <1>21
<1>22. ASSUME NEW s \in SessionIds, EndSession(s) PROVE Goal
    BY <1>1, <1>14, <1>22
<1>23. Goal
    BY <1>9, <1>16, <1>17, <1>18, <1>19, <1>20, <1>21, <1>22 DEF AuthNext
<1> QED BY <1>23 DEF Goal

-----------------------------------------------------------------------------
(* Sessions. *)

(* The sessions of S that are live were, and are the same.                  *)
Ended(S) ==
    /\ S \in [SessionIds -> SessionRow]
    /\ \A s \in SessionIds : S[s].live =>
          session[s].live /\ S[s].of = session[s].of /\ S[s].proof = session[s].proof

(* Ending sessions opens none.                                              *)
LEMMA SessionsEnded ==
    ASSUME session \in [SessionIds -> SessionRow], NEW D \in SUBSET SessionIds,
           NEW S, S = [s \in SessionIds |-> IF s \in D THEN [session[s] EXCEPT !.live = FALSE]
                                            ELSE session[s]]
    PROVE  Ended(S) /\ \A s \in D : ~S[s].live
<1>1. \A s \in SessionIds : /\ [session[s] EXCEPT !.live = FALSE] \in SessionRow
                            /\ ~[session[s] EXCEPT !.live = FALSE].live
    BY DEF SessionRow
<1>2. /\ \A s \in D : S[s] = [session[s] EXCEPT !.live = FALSE]
      /\ \A s \in SessionIds \ D : S[s] = session[s]
    OBVIOUS
<1>3. S \in [SessionIds -> SessionRow]
    BY <1>1
<1> QED BY <1>1, <1>2, <1>3 DEF Ended

(* Revoking ends every session of the user.                                 *)
LEMMA RevokedEnds ==
    ASSUME session \in [SessionIds -> SessionRow], NEW u
    PROVE  Ended(Revoked(u)) /\ \A s \in SessionIds : Revoked(u)[s].live => Revoked(u)[s].of # u
<1> DEFINE D == {s \in SessionIds : session[s].of = u}
<1>1. Revoked(u) = [s \in SessionIds |-> IF s \in D THEN [session[s] EXCEPT !.live = FALSE]
                                         ELSE session[s]]
    BY DEF Revoked
<1>2. Ended(Revoked(u)) /\ \A s \in D : ~Revoked(u)[s].live
    BY <1>1, SessionsEnded
<1> QED BY <1>2 DEF Ended

(* Signing in adds one session.                                             *)
LEMMA OpenedAdds ==
    ASSUME NEW S \in [SessionIds -> SessionRow], NEW u \in Users, NEW version \in NewVersions,
           NEW proof \in Secrets
    PROVE  /\ Opened(S, u, version, proof) \in [SessionIds -> SessionRow]
           /\ \A s \in SessionIds :
                 \/ Opened(S, u, version, proof)[s] = S[s]
                 \/ /\ Opened(S, u, version, proof)[s].of = u
                    /\ Opened(S, u, version, proof)[s].proof = proof
<1> DEFINE entry == [of |-> u, version |-> version, live |-> TRUE, proof |-> proof]
<1>1. entry \in SessionRow /\ entry.of = u /\ entry.proof = proof
    BY DEF SessionRow
<1>2. Opened(S, u, version, proof) = [S EXCEPT ![NextSession] = entry]
    BY DEF Opened
<1> HIDE DEF entry
<1> QED BY <1>1, <1>2

(* What holds of the sessions.                                              *)
SessionsSafe ==
    session \in [SessionIds -> SessionRow] /\ LiveProven

(* Sessions only end, or one opens with the secret of now, or with none.    *)
LEMMA SessionsFollow ==
    ASSUME AuthInv, NEW S, Ended(S), \A v \in Users : SecretStays(v),
           \/ session' = S
           \/ \E u \in Users, version \in NewVersions : \E proof \in {0, factor[u].secret} :
                 session' = Opened(S, u, version, proof)
    PROVE  SessionsSafe'
<1>a. LiveProven /\ factor \in [Users -> FactorRow]
    BY DEF AuthInv, AccountsTyped
<1>1. CASE session' = S
    <2>1. LiveProven'
        BY <1>1, <1>a DEF Ended, LiveProven, SecretStays
    <2> QED BY <1>1, <2>1 DEF Ended, SessionsSafe
<1>2. ASSUME NEW u \in Users, NEW version \in NewVersions, NEW proof \in {0, factor[u].secret},
             session' = Opened(S, u, version, proof)
      PROVE  SessionsSafe'
    <2>1. proof \in Secrets
        <3>1. factor[u].secret \in Secrets
            BY <1>a DEF FactorRow
        <3> QED BY <3>1, AuthAssumption DEF Secrets
    <2>2. /\ session' \in [SessionIds -> SessionRow]
          /\ \A s \in SessionIds : \/ session'[s] = S[s]
                                   \/ (session'[s].of = u /\ session'[s].proof = proof)
        <3> DEFINE T == Opened(S, u, version, proof)
        <3>1. S \in [SessionIds -> SessionRow]
            BY DEF Ended
        <3>2. /\ T \in [SessionIds -> SessionRow]
              /\ \A s \in SessionIds : T[s] = S[s] \/ (T[s].of = u /\ T[s].proof = proof)
            BY <2>1, <3>1, OpenedAdds
        <3>3. session' = T
            BY <1>2
        <3> HIDE DEF T
        <3> QED BY <3>2, <3>3
    <2>3. ASSUME NEW s \in SessionIds, session'[s].live, session'[s].of \in Users,
                 session'[s].proof # 0
          PROVE  session'[s].proof = factor'[session'[s].of].secret
        <3>1. CASE session'[s] = S[s]
            BY <1>a, <2>3, <3>1 DEF Ended, LiveProven, SecretStays
        <3>2. CASE session'[s].of = u /\ session'[s].proof = proof
            BY <2>3, <3>2 DEF SecretStays
        <3> QED BY <2>2, <3>1, <3>2
    <2> QED BY <2>2, <2>3 DEF SessionsSafe, LiveProven
<1> QED BY <1>1, <1>2

(* A session that proves a second factor was opened with one.               *)
LEMMA SessionsKept ==
    ASSUME AuthInv, [AuthNext]_authVars
    PROVE  SessionsSafe'
<1> USE AuthAssumption
<1>a. /\ session \in [SessionIds -> SessionRow] /\ user \in [Users -> UserRow]
      /\ factor \in [Users -> FactorRow] /\ LiveProven
      /\ \A r \in Requests : request[r].kind = "login" => request[r].of \in Users
    BY DEF AuthInv, AccountsTyped, RequestsTyped
<1>b. Ended(session) /\ \A u : Ended(Revoked(u))
    BY <1>a, RevokedEnds DEF Ended
<1>1. ASSUME NEW u \in Users, \A v \in Users : v # u => SecretStays(v), session' = Revoked(u)
      PROVE  SessionsSafe'
    <2>1. \A s \in SessionIds : session'[s].live => session'[s].of # u
        BY <1>1, <1>a, RevokedEnds
    <2>2. LiveProven'
        BY <1>1, <1>a, <1>b, <2>1 DEF Ended, LiveProven, SecretStays
    <2> QED BY <1>1, <1>b, <2>2 DEF Ended, SessionsSafe
<1>2. ASSUME NEW r \in Requests, Confirm(r), request[r].of \in Users,
             \A v \in Users : v # request[r].of => SecretStays(v),
             factor'[request[r].of].secret = factor[request[r].of].pending
      PROVE  SessionsSafe'
    <2> DEFINE u == request[r].of
               secret == factor[u].pending
    <2>1. /\ user[u].version + 1 \in NewVersions /\ secret \in Secrets
          /\ session' = Opened(Revoked(u), u, user[u].version + 1, secret)
        <3>1. user[u].version < MaxVersion /\ user[u].version \in NewVersions
              /\ secret \in Secrets
            BY <1>2, <1>a DEF Confirm, UserRow, FactorRow
        <3>2. user[u].version + 1 \in NewVersions
            BY <3>1 DEF NewVersions
        <3>3. session' = Opened(Revoked(u), u, user[u].version + 1, secret)
            BY <1>2 DEF Confirm, Enrol
        <3> QED BY <3>1, <3>2, <3>3
    <2> HIDE DEF secret
    <2>2. /\ session' \in [SessionIds -> SessionRow]
          /\ \A s \in SessionIds : \/ session'[s] = Revoked(u)[s]
                                   \/ (session'[s].of = u /\ session'[s].proof = secret)
        <3> DEFINE S == Revoked(u)
                   T == Opened(S, u, user[u].version + 1, secret)
        <3>1. S \in [SessionIds -> SessionRow] /\ u \in Users
            BY <1>2, <1>b DEF Ended
        <3> HIDE DEF S, u
        <3>2. /\ T \in [SessionIds -> SessionRow]
              /\ \A s \in SessionIds : T[s] = S[s] \/ (T[s].of = u /\ T[s].proof = secret)
            BY <2>1, <3>1, OpenedAdds
        <3>3. session' = T
            BY <2>1 DEF S, u
        <3> HIDE DEF T
        <3> QED BY <3>2, <3>3 DEF S, u
    <2>3. ASSUME NEW s \in SessionIds, session'[s].live, session'[s].of \in Users,
                 session'[s].proof # 0
          PROVE  session'[s].proof = factor'[session'[s].of].secret
        <3>1. CASE session'[s] = Revoked(u)[s]
            <4>1. session'[s].of # u
                BY <1>a, <2>3, <3>1, RevokedEnds
            <4>2. session[s].live /\ session'[s].of = session[s].of
                  /\ session'[s].proof = session[s].proof
                BY <1>b, <2>3, <3>1 DEF Ended
            <4> QED BY <1>2, <1>a, <2>3, <4>1, <4>2 DEF LiveProven, SecretStays
        <3>2. CASE session'[s].of = u /\ session'[s].proof = secret
            BY <1>2, <3>2 DEF secret
        <3> QED BY <2>2, <3>1, <3>2
    <2> QED BY <2>2, <2>3 DEF SessionsSafe, LiveProven
<1>3. ASSUME \A v \in Users : SecretStays(v) PROVE SessionsSafe'
    <2>1. ASSUME UNCHANGED session PROVE SessionsSafe'
        BY <1>3, <1>b, <2>1, SessionsFollow
    <2>2. ASSUME NEW u, session' = Revoked(u) PROVE SessionsSafe'
        BY <1>3, <1>b, <2>2, SessionsFollow
    <2>3. ASSUME NEW r \in Requests, Login(r) PROVE SessionsSafe'
        <3> DEFINE u == request[r].of
        <3>1. u \in Users /\ user[u].version \in NewVersions
            <4>1. u \in Users
                BY <2>3, <1>a DEF Login
            <4> QED BY <1>a, <4>1 DEF UserRow
        <3> DEFINE Left(old) == [s \in SessionIds |->
                                   IF s \in old THEN [session[s] EXCEPT !.live = FALSE]
                                   ELSE session[s]]
        <3>2. PICK old \in {{}} \cup {{s} : s \in SessionIds} :
                 session' = Left(old) \/ session' = Opened(Left(old), u, user[u].version, 0)
            BY <2>3 DEF Login
        <3> DEFINE left == Left(old)
        <3>3. Ended(left)
            <4>1. old \in SUBSET SessionIds
                OBVIOUS
            <4> QED BY <1>a, <4>1, SessionsEnded
        <3>4. session' = left \/ session' = Opened(left, u, user[u].version, 0)
            BY <3>2
        <3> HIDE DEF left
        <3> QED BY <1>3, <3>1, <3>3, <3>4, SessionsFollow
    <2>4. ASSUME NEW u \in Users, VerifyLogin(u) PROVE SessionsSafe'
        <3>1. user[u].version \in NewVersions
            BY <1>a DEF UserRow
        <3>2. session' = Opened(session, u, user[u].version, factor[u].secret)
            BY <2>4 DEF VerifyLogin
        <3> QED BY <1>3, <1>b, <3>1, <3>2, SessionsFollow
    <2>5. ASSUME NEW s \in SessionIds, EndSession(s) PROVE SessionsSafe'
        <3>1. session' = [t \in SessionIds |-> IF t \in {s} THEN [session[t] EXCEPT !.live = FALSE]
                                               ELSE session[t]]
            BY <2>5, <1>a DEF EndSession
        <3>2. Ended(session')
            BY <1>a, <3>1, SessionsEnded
        <3> QED BY <1>3, <3>2, SessionsFollow
    <2>6. ASSUME NEW r \in Requests, NEW u \in Users,
                 \/ TypePassword(r, u) \/ EndAllSessions(r, u) \/ AdminReset(r, u)
                 \/ UpdateUser(r, u) \/ AddUser(r, u) \/ IssueAccess(r, u)
          PROVE  session' = session \/ session' = Revoked(u)
        BY <2>6 DEF TypePassword, EndAllSessions, AdminReset, ResetFactor, UpdateUser, AddUser,
           IssueAccess
    <2>7. ASSUME NEW r \in Requests, Refuse(r) \/ Prove(r) \/ ChangePassword(r) \/ Setup(r)
          PROVE  session' = session \/ session' = Revoked(request[r].of)
        BY <2>7 DEF Refuse, Prove, ChangePassword, Setup
    <2>8. ASSUME NEW r \in Requests, Confirm(r) PROVE SessionsSafe'
        <3>1. request[r].of \in Users
            BY <2>8 DEF AuthInv, RequestsTyped, Confirm, LockedUser
        <3>2. factor'[request[r].of].secret = factor[request[r].of].pending
            <4>1. PICK code \in Matched(request[r].of, factor[request[r].of].pending, 0) :
                     factor' = [factor EXCEPT ![request[r].of] =
                        [NoFactor EXCEPT !.secret = factor[request[r].of].pending,
                                         !.lastStep = code, !.recovery = 1]]
                BY <2>8 DEF Confirm
            <4>2. factor'[request[r].of] =
                        [NoFactor EXCEPT !.secret = factor[request[r].of].pending,
                                         !.lastStep = code, !.recovery = 1]
                BY <1>a, <3>1, <4>1
            <4> QED BY <4>2 DEF NoFactor
        <3> QED BY <1>2, <1>3, <2>8, <3>1, <3>2
    <2>9. ASSUME NEW u \in Users, HostReset(u) \/ RequestReset(u)
          PROVE  session' = session \/ session' = Revoked(u)
        BY <2>9 DEF HostReset, RequestReset, ResetFactor
    <2>10. ASSUME NEW k \in LinkIds, CompleteAccess(k) PROVE session' = Revoked(link[k].of)
        BY <2>10 DEF CompleteAccess
    <2>11. ASSUME NEW r \in Requests, NEW s \in SessionIds, Authorise(r, s)
           PROVE  UNCHANGED session
        BY <2>11 DEF Authorise
    <2>12. CASE Tick \/ RunOut \/ UNCHANGED authVars
        BY <2>1, <2>12 DEF Tick, RunOut, authVars
    <2> QED
        BY <2>1, <2>2, <2>3, <2>4, <2>5, <2>6, <2>7, <2>8, <2>9, <2>10, <2>11, <2>12 DEF AuthNext
<1>4. ASSUME NEW u \in Users, ResetFactor(u) PROVE session' = Revoked(u)
    BY <1>4 DEF ResetFactor
<1>5. \/ \A v \in Users : SecretStays(v)
      \/ \E u \in Users : /\ \A v \in Users : v # u => SecretStays(v)
                          /\ ResetFactor(u)
      \/ \E r \in Requests : /\ Confirm(r) /\ request[r].of \in Users
                             /\ \A v \in Users : v # request[r].of => SecretStays(v)
                             /\ factor'[request[r].of].secret = factor[request[r].of].pending
    BY FactorsKept
<1>6. ASSUME NEW u \in Users, \A v \in Users : v # u => SecretStays(v), ResetFactor(u)
      PROVE  SessionsSafe'
    BY <1>1, <1>4, <1>6
<1>7. CASE \A v \in Users : SecretStays(v)
    BY <1>3, <1>7
<1>8. CASE \E u \in Users : /\ \A v \in Users : v # u => SecretStays(v)
                            /\ ResetFactor(u)
    BY <1>6, <1>8
<1>9. CASE \E r \in Requests : /\ Confirm(r) /\ request[r].of \in Users
                               /\ \A v \in Users : v # request[r].of => SecretStays(v)
                               /\ factor'[request[r].of].secret = factor[request[r].of].pending
    <2>1. PICK r \in Requests :
             /\ Confirm(r) /\ request[r].of \in Users
             /\ \A v \in Users : v # request[r].of => SecretStays(v)
             /\ factor'[request[r].of].secret = factor[request[r].of].pending
        BY <1>9
    <2> QED BY <1>2, <2>1
<1> QED BY <1>5, <1>7, <1>8, <1>9

-----------------------------------------------------------------------------
(* What is left, and the theorems. *)

(* The types of what is remembered are kept.                                *)
LEMMA MarksKept ==
    ASSUME AuthInv, [AuthNext]_authVars
    PROVE  MarksTyped'
<1> USE AuthAssumption
<1>a. /\ challenge \in [Users -> NewVersions \cup {-1}] /\ clock \in 1..MaxCode
      /\ user \in [Users -> UserRow]
    BY DEF AuthInv, MarksTyped, AccountsTyped
<1>1. FactorsTyped' /\ ~reused'
    BY FactorsKept DEF FactorsSafe, CodeProvesOnce
<1>2. reused' \in BOOLEAN
    <2>1. ASSUME NEW u, NEW x, NEW c, Spend(u, x, c) PROVE reused' \in BOOLEAN
        BY <2>1 DEF Spend
    <2>2. reused \in BOOLEAN
        BY DEF AuthInv, MarksTyped
    <2>3. ASSUME Unspent PROVE reused' \in BOOLEAN
        BY <2>2, <2>3 DEF Unspent
    <2>4. ASSUME NEW r \in Requests, NEW u \in Users,
                 \/ TypePassword(r, u) \/ EndAllSessions(r, u) \/ AdminReset(r, u)
                 \/ UpdateUser(r, u) \/ AddUser(r, u) \/ IssueAccess(r, u)
          PROVE  reused' \in BOOLEAN
        BY <2>1, <2>3, <2>4
           DEF TypePassword, EndAllSessions, AdminReset, UpdateUser, AddUser, IssueAccess
    <2>5. ASSUME NEW r \in Requests,
                 \/ Refuse(r) \/ Login(r) \/ Prove(r) \/ ChangePassword(r) \/ Setup(r) \/ Confirm(r)
          PROVE  reused' \in BOOLEAN
        BY <2>1, <2>3, <2>5 DEF Refuse, Login, Prove, ChangePassword, Setup, Confirm
    <2>6. ASSUME NEW u \in Users, VerifyLogin(u) \/ HostReset(u) \/ RequestReset(u)
          PROVE  reused' \in BOOLEAN
        BY <2>1, <2>3, <2>6 DEF VerifyLogin, HostReset, RequestReset
    <2>7. ASSUME NEW r \in Requests, NEW s \in SessionIds, Authorise(r, s) PROVE Unspent
        BY <2>7 DEF Authorise
    <2>8. ASSUME NEW s \in SessionIds, EndSession(s) PROVE Unspent
        BY <2>8 DEF EndSession
    <2>9. ASSUME NEW k \in LinkIds, CompleteAccess(k) PROVE Unspent
        BY <2>9 DEF CompleteAccess
    <2>10. CASE Tick \/ RunOut
        BY <2>3, <2>10 DEF Tick, RunOut
    <2>11. CASE UNCHANGED authVars
        BY <2>2, <2>11 DEF authVars
    <2> QED BY <2>3, <2>4, <2>5, <2>6, <2>7, <2>8, <2>9, <2>10, <2>11 DEF AuthNext
<1>3. clock' \in 1..MaxCode
    <2>1. ASSUME NEW r \in Requests, NEW u \in Users,
                 \/ TypePassword(r, u) \/ EndAllSessions(r, u) \/ AdminReset(r, u)
                 \/ UpdateUser(r, u) \/ AddUser(r, u) \/ IssueAccess(r, u)
          PROVE  UNCHANGED clock
        BY <2>1 DEF TypePassword, EndAllSessions, AdminReset, UpdateUser, AddUser, IssueAccess
    <2>2. ASSUME NEW r \in Requests,
                 \/ Refuse(r) \/ Login(r) \/ Prove(r) \/ ChangePassword(r) \/ Setup(r) \/ Confirm(r)
          PROVE  UNCHANGED clock
        BY <2>2 DEF Refuse, Login, Prove, ChangePassword, Setup, Confirm
    <2>3. ASSUME NEW u \in Users, VerifyLogin(u) \/ HostReset(u) \/ RequestReset(u)
          PROVE  UNCHANGED clock
        BY <2>3 DEF VerifyLogin, HostReset, RequestReset
    <2>4. ASSUME NEW r \in Requests, NEW s \in SessionIds, Authorise(r, s) PROVE UNCHANGED clock
        BY <2>4 DEF Authorise
    <2>5. ASSUME NEW s \in SessionIds, EndSession(s) PROVE UNCHANGED clock
        BY <2>5 DEF EndSession
    <2>6. ASSUME NEW k \in LinkIds, CompleteAccess(k) PROVE UNCHANGED clock
        BY <2>6 DEF CompleteAccess
    <2>7. CASE Tick
        BY <1>a, <2>7 DEF Tick
    <2>8. CASE RunOut \/ UNCHANGED authVars
        BY <1>a, <2>8 DEF RunOut, authVars
    <2>9. UNCHANGED clock \/ clock' \in 1..MaxCode
        BY <2>1, <2>2, <2>3, <2>4, <2>5, <2>6, <2>7, <2>8 DEF AuthNext
    <2> QED BY <1>a, <2>9
<1>4. challenge' \in [Users -> NewVersions \cup {-1}]
    <2> DEFINE C == [Users -> NewVersions \cup {-1}]
    <2>1. ASSUME UNCHANGED challenge PROVE challenge' \in C
        BY <1>a, <2>1
    <2>2. ASSUME NEW u, NEW version \in NewVersions \cup {-1},
                 challenge' = [challenge EXCEPT ![u] = version]
          PROVE  challenge' \in C
        BY <1>a, <2>2
    <2>3. ASSUME NEW u \in Users, VerifyLogin(u) \/ ResetFactor(u) PROVE challenge' \in C
        BY <2>2, <2>3 DEF VerifyLogin, ResetFactor
    <2>4. ASSUME NEW r \in Requests, Login(r) PROVE challenge' \in C
        <3> DEFINE u == request[r].of
        <3>1. user[u].version \in NewVersions
            <4>1. u \in Users
                BY <2>4 DEF Login, AuthInv, RequestsTyped
            <4> QED BY <1>a, <4>1 DEF UserRow
        <3>2. \/ challenge' = [challenge EXCEPT ![u] = user[u].version]
              \/ UNCHANGED challenge
            BY <2>4 DEF Login
        <3> QED BY <2>1, <2>2, <3>1, <3>2
    <2>5. ASSUME RunOut PROVE challenge' \in C
        BY <2>1, <2>2, <2>5 DEF RunOut
    <2>6. ASSUME NEW r \in Requests, NEW u \in Users,
                 \/ TypePassword(r, u) \/ EndAllSessions(r, u)
                 \/ UpdateUser(r, u) \/ AddUser(r, u) \/ IssueAccess(r, u)
          PROVE  UNCHANGED challenge
        BY <2>6 DEF TypePassword, EndAllSessions, UpdateUser, AddUser, IssueAccess
    <2>7. ASSUME NEW r \in Requests,
                 \/ Refuse(r) \/ Prove(r) \/ ChangePassword(r) \/ Setup(r) \/ Confirm(r)
          PROVE  UNCHANGED challenge
        BY <2>7 DEF Refuse, Prove, ChangePassword, Setup, Confirm
    <2>8. ASSUME NEW u \in Users, RequestReset(u) PROVE UNCHANGED challenge
        BY <2>8 DEF RequestReset
    <2>9. ASSUME NEW r \in Requests, NEW s \in SessionIds, Authorise(r, s)
          PROVE  UNCHANGED challenge
        BY <2>9 DEF Authorise
    <2>10. ASSUME NEW s \in SessionIds, EndSession(s) PROVE UNCHANGED challenge
        BY <2>10 DEF EndSession
    <2>11. ASSUME NEW k \in LinkIds, CompleteAccess(k) PROVE UNCHANGED challenge
        BY <2>11 DEF CompleteAccess
    <2>12. ASSUME Tick \/ UNCHANGED authVars PROVE challenge' \in C
        BY <2>1, <2>12 DEF Tick, authVars
    <2>13. ASSUME NEW r \in Requests, NEW u \in Users, AdminReset(r, u) PROVE ResetFactor(u)
        BY <2>13 DEF AdminReset
    <2>14. ASSUME NEW u \in Users, HostReset(u) PROVE ResetFactor(u)
        BY <2>14 DEF HostReset
    <2> HIDE DEF C
    <2>15. challenge' \in C
        BY <2>1, <2>3, <2>4, <2>5, <2>6, <2>7, <2>8, <2>9, <2>10, <2>11, <2>12, <2>13, <2>14
           DEF AuthNext
    <2> QED BY <2>15 DEF C
<1> QED BY <1>1, <1>2, <1>3, <1>4 DEF MarksTyped, FactorsTyped

(* No step of a request breaks it.                                          *)
LEMMA AuthHolds == AuthSpec => []AuthInv
<1>1. ASSUME AuthInv, [AuthNext]_authVars PROVE AuthInv'
    <2>1. RequestsTyped' /\ LinksTyped' /\ OneOpen' /\ MarksTyped'
        BY <1>1, RequestsKept, LinksKept, MarksKept
    <2>2. user' \in [Users -> UserRow] /\ AdminRemains'
        BY <1>1, UsersKept
    <2>3. FactorsSafe'
        BY <1>1, FactorsKept
    <2>4. SessionsSafe'
        BY <1>1, SessionsKept
    <2> QED BY <2>1, <2>2, <2>3, <2>4
            DEF AuthInv, AccountsTyped, FactorsSafe, FactorsTyped, SessionsSafe
<1> QED BY <1>1, AuthBegins, PTL DEF AuthSpec

(* Every reachable state of accounts and sessions is well typed.            *)
THEOREM AuthTypeCorrect == AuthSpec => []AuthTypeOK
<1>1. AuthInv => AuthTypeOK
    BY DEF AuthInv, AccountsTyped, RequestsTyped, LinksTyped, MarksTyped, AuthTypeOK,
       UserRow, FactorRow, SessionRow, RequestRow, LinkRow
<1> QED BY <1>1, AuthHolds, PTL

(* An administrator who can sign in is left, for any number of users and    *)
(* requests (update_user, _lock_and_recheck_admin).                         *)
THEOREM AdminStays == AuthSpec => []AdminRemains
<1>1. AuthInv => AdminRemains
    BY DEF AuthInv
<1> QED BY <1>1, AuthHolds, PTL

(* A session that is let through has proven the secret its user has now     *)
(* (require_session, confirm, reset_mfa, verify_login).                     *)
THEOREM FactorProven == AuthSpec => []SessionProvesFactor
<1>1. AuthInv => SessionProvesFactor
    BY DEF AuthInv, LiveProven, SessionProvesFactor, Usable
<1> QED BY <1>1, AuthHolds, PTL

(* No one-time code is accepted twice, whatever it is asked for             *)
(* (matched_step, last_step).                                               *)
THEOREM CodeOnce == AuthSpec => []CodeProvesOnce
<1>1. AuthInv => CodeProvesOnce
    BY DEF AuthInv
<1> QED BY <1>1, AuthHolds, PTL

(* Of the links of an account one is live, whoever asked for them and       *)
(* whatever happened to the account since, and a code proves once           *)
(* (issue_token, _complete_access, matched_step).                           *)
THEOREM OneTime == AuthSpec => []OneTimeMeansOnce
<1>1. AuthInv => OneTimeMeansOnce
    <2> SUFFICES ASSUME AuthInv PROVE OneTimeMeansOnce
        OBVIOUS
    <2>1. OneLiveLink
        <3> SUFFICES ASSUME NEW k \in LinkIds, NEW l \in LinkIds, link[k].of = link[l].of,
                            Acceptable(k), Acceptable(l)
                     PROVE  k = l
            BY DEF OneLiveLink
        <3>1. link[k].open /\ link[l].open
            BY DEF Acceptable
        <3>2. /\ link[k].purpose \in {"invite", "reset"}
              /\ link[l].purpose \in {"invite", "reset"}
            BY DEF AuthInv, LinksTyped, LinkRow
        <3>3. (link[k].purpose = "reset") = (link[l].purpose = "reset")
            BY DEF Acceptable
        <3> QED BY <3>1, <3>2, <3>3 DEF AuthInv, OneOpen
    <2>2. CodeProvesOnce
        BY DEF AuthInv
    <2> QED BY <2>1, <2>2 DEF OneTimeMeansOnce
<1> QED BY <1>1, AuthHolds, PTL

-----------------------------------------------------------------------------
(* The opportunities of RDS reservations (RdsFindings). *)

(* What a generation has made of the rows it read: of an instance one gap at *)
(* most, of what was stale nothing; and as long as no other committed, the   *)
(* backlog is still what it read, but for what is archived.                  *)
OneGapSeen(g) ==
    \A x \in Workloads : \E rule \in Rules(x) : generator[g].verdict[<<x, rule>>] # "active"
StaleUnjudged(g) ==
    \A o \in Opportunities : o[1] \in generator[g].stale => generator[g].verdict[o] = "missing"
BacklogStands(g) ==
    generator[g].alone =>
        \A o \in Opportunities :
            generator[g].backlog[o] \in {"absent", opportunity[o].presence}

(* The inductive invariant of the generations.                              *)
GenerationInv ==
    /\ FindingsTypeOK
    /\ \A g \in Generators :
          generator[g].run # 0 => OneGapSeen(g) /\ StaleUnjudged(g) /\ BacklogStands(g)

(* A reading says of an instance what the coverage run says of it: one thing.*)
LEMMA ReadingJudges ==
    ASSUME FindingsTypeOK, NEW g \in Generators, NEW k \in Coverages, Read(g, k)
    PROVE  /\ generator' \in [Generators -> Generator]
           /\ OneGapSeen(g)' /\ StaleUnjudged(g)' /\ BacklogStands(g)'
           /\ \A h \in Generators : h # g => generator'[h] = generator[h]
<1> DEFINE verdict == [o \in Opportunities |-> PresenceOf(k, o)]
           backlog == [o \in Opportunities |->
               IF opportunity[o].archived THEN "absent" ELSE opportunity[o].presence]
           stale == {x \in Resources : ~Fresh(x)}
<1>1. \A o \in Opportunities : PresenceOf(k, o) \in Presence
    BY DEF PresenceOf, Presence
<1>2. /\ verdict \in [Opportunities -> Presence] /\ stale \in SUBSET Resources
      /\ backlog \in [Opportunities -> Presence \cup {"absent"}]
    BY <1>1 DEF FindingsTypeOK
<1>3. /\ generator' = [generator EXCEPT ![g] =
             [run |-> k, alone |-> TRUE, verdict |-> verdict, backlog |-> backlog,
              stale |-> stale]]
      /\ opportunity' = opportunity
    BY DEF Read
<1>4. \A o \in Opportunities : o[1] \in stale => verdict[o] = "missing"
    BY DEF PresenceOf, Concluded, MayResolve, Uncertain
<1>5. \A x \in Workloads : \E rule \in Rules(x) : verdict[<<x, rule>>] # "active"
    <2> SUFFICES ASSUME NEW x \in Workloads
                 PROVE  \E rule \in Rules(x) : verdict[<<x, rule>>] # "active"
        OBVIOUS
    <2>1. Rules(x) = {"UNCOVERED", "PARTIAL_COVERAGE"} /\ x \in Resources
        BY DEF Rules, Resources
    <2>2. <<x, "UNCOVERED">> \in Opportunities /\ <<x, "PARTIAL_COVERAGE">> \in Opportunities
        BY <2>1 DEF Opportunities
    <2>3. PICK rule \in {"UNCOVERED", "PARTIAL_COVERAGE"} : rule \notin Concluded(k, x)
        BY <2>1 DEF Concluded
    <2>4. PresenceOf(k, <<x, rule>>) # "active"
        BY <2>3 DEF PresenceOf
    <2> QED BY <2>1, <2>2, <2>4
<1>6. \A o \in Opportunities : backlog[o] \in {"absent", opportunity[o].presence}
    OBVIOUS
<1> HIDE DEF verdict, backlog, stale
<1>7. k \in {0} \cup Coverages /\ generator \in [Generators -> Generator]
    BY DEF FindingsTypeOK
<1>8. /\ generator' \in [Generators -> Generator]
      /\ \A h \in Generators : h # g => generator'[h] = generator[h]
    BY <1>2, <1>3, <1>7 DEF Generator
<1>9. /\ generator'[g].verdict = verdict /\ generator'[g].backlog = backlog
      /\ generator'[g].stale = stale
    BY <1>3, <1>7
<1> QED BY <1>3, <1>4, <1>5, <1>6, <1>8, <1>9 DEF OneGapSeen, StaleUnjudged, BacklogStands

(* It holds whatever generations overlap.                                   *)
LEMMA GenerationHolds == FindingsSpec => []GenerationInv
<1> USE FindingsAssumption
<1>1. FindingsInit => GenerationInv
    <2> SUFFICES ASSUME FindingsInit PROVE GenerationInv
        OBVIOUS
    <2>1. AtEase \in Generator /\ AtEase.run = 0
        BY DEF AtEase, Generator, Presence
    <2>2. NoRow \in Row
        BY DEF NoRow, Row, Hours
    <2> QED BY <2>1, <2>2 DEF FindingsInit, GenerationInv, FindingsTypeOK, Hours, Saying
<1>2. GenerationInv /\ [FindingsNext]_findingVars => GenerationInv'
    <2> SUFFICES ASSUME GenerationInv, [FindingsNext]_findingVars PROVE GenerationInv'
        OBVIOUS
    <2>t. /\ hour \in Hours /\ row \in [Resources -> Row] /\ computed \in 0..MaxCoverages
          /\ coverage \in [Coverages -> [Resources -> Saying]]
          /\ generator \in [Generators -> Generator]
          /\ opportunity \in [Opportunities -> [presence : Presence \cup {"absent"},
                                                archived : BOOLEAN]]
        BY DEF GenerationInv, FindingsTypeOK
    <2>e. AtEase \in Generator /\ AtEase.run = 0
        BY DEF AtEase, Generator, Presence
    (* Generations see only generations and the backlog. *)
    <2>s. ASSUME UNCHANGED <<generator, opportunity>>, FindingsTypeOK' PROVE GenerationInv'
        BY <2>s DEF GenerationInv, OneGapSeen, StaleUnjudged, BacklogStands
    <2>0. CASE UNCHANGED findingVars
        BY <2>0, <2>s DEF findingVars, GenerationInv, FindingsTypeOK
    <2>1. CASE HourPasses
        BY <2>1, <2>t, <2>s DEF HourPasses, FindingsTypeOK, Hours
    <2>2. ASSUME NEW x \in Resources, Collect(x) PROVE GenerationInv'
        <3>1. row' \in [Resources -> Row]
            <4>1. ASSUME NEW usable \in BOOLEAN, NEW ending \in BOOLEAN
                  PROVE  [known |-> TRUE, active |-> TRUE, usable |-> usable,
                          ending |-> ending, collectedAt |-> hour] \in Row
                BY <2>t DEF Row
            <4>2. [row EXCEPT ![x].active = FALSE, ![x].collectedAt = hour] \in [Resources -> Row]
                BY <2>t DEF Row
            <4> QED BY <2>2, <2>t, <4>1, <4>2 DEF Collect
        <3> QED BY <2>2, <2>t, <2>s, <3>1 DEF Collect, FindingsTypeOK
    <2>3. CASE Compute
        <3>1. PICK said \in [Resources -> Saying] : coverage' = [coverage EXCEPT ![computed + 1] = said]
            BY <2>3 DEF Compute
        <3>2. coverage' \in [Coverages -> [Resources -> Saying]]
            BY <2>t, <3>1
        <3>3. computed' \in 0..MaxCoverages
            BY <2>3, <2>t DEF Compute
        <3> QED BY <2>3, <2>t, <2>s, <3>2, <3>3 DEF Compute, FindingsTypeOK
    <2>4. ASSUME NEW g \in Generators, NEW k \in Coverages, Read(g, k) PROVE GenerationInv'
        <3>1. /\ generator' \in [Generators -> Generator]
              /\ OneGapSeen(g)' /\ StaleUnjudged(g)' /\ BacklogStands(g)'
              /\ \A h \in Generators : h # g => generator'[h] = generator[h]
            BY <2>4, ReadingJudges DEF GenerationInv
        <3>2. \A h \in Generators : h # g /\ generator'[h].run # 0 =>
                  OneGapSeen(h)' /\ StaleUnjudged(h)' /\ BacklogStands(h)'
            BY <2>4, <3>1 DEF Read, GenerationInv, OneGapSeen, StaleUnjudged, BacklogStands
        <3> QED BY <2>4, <2>t, <3>1, <3>2 DEF Read, GenerationInv, FindingsTypeOK
    <2>5. ASSUME NEW g \in Generators, Commit(g) PROVE GenerationInv'
        <3>1. ASSUME NEW h \in Generators
              PROVE  /\ generator'[h] \in Generator
                     /\ generator'[h].run # 0 =>
                           /\ ~generator'[h].alone
                           /\ generator'[h].run = generator[h].run
                           /\ generator'[h].verdict = generator[h].verdict
                           /\ generator'[h].stale = generator[h].stale
            <4>1. generator[h] \in Generator
                BY <2>t
            <4>2. generator'[h] = IF h = g THEN AtEase ELSE [generator[h] EXCEPT !.alone = FALSE]
                BY <2>5 DEF Commit
            <4>3. CASE h = g
                BY <2>e, <4>2, <4>3
            <4>4. CASE h # g
                <5>1. generator'[h] = [generator[h] EXCEPT !.alone = FALSE]
                    BY <4>2, <4>4
                <5>2. /\ generator'[h].alone = FALSE /\ generator'[h].run = generator[h].run
                      /\ generator'[h].verdict = generator[h].verdict
                      /\ generator'[h].stale = generator[h].stale
                    BY <4>1, <5>1 DEF Generator
                <5>3. generator'[h] \in Generator
                    BY <4>1, <5>1 DEF Generator
                <5> QED BY <5>2, <5>3
            <4> QED BY <4>3, <4>4
        <3>2. generator' \in [Generators -> Generator]
            <4>1. generator' = [h \in Generators |-> generator'[h]]
                BY <2>5 DEF Commit
            <4> QED BY <3>1, <4>1
        <3>3. ASSUME NEW o \in Opportunities
              PROVE  Written(g, o) \in [presence : Presence \cup {"absent"}, archived : BOOLEAN]
            <4>1. generator[g].verdict[o] \in Presence
                BY <2>t DEF Generator
            <4>2. opportunity[o] \in [presence : Presence \cup {"absent"}, archived : BOOLEAN]
                BY <2>t
            <4> QED BY <4>1, <4>2 DEF Written
        <3>4. \A h \in Generators : generator'[h].run # 0 =>
                  OneGapSeen(h)' /\ StaleUnjudged(h)' /\ BacklogStands(h)'
            BY <3>1 DEF GenerationInv, OneGapSeen, StaleUnjudged, BacklogStands
        <3> QED BY <2>5, <2>t, <3>2, <3>3, <3>4 DEF Commit, GenerationInv, FindingsTypeOK
    <2>6. ASSUME NEW g \in Generators, GiveUp(g) PROVE GenerationInv'
        <3>1. /\ generator' \in [Generators -> Generator] /\ generator'[g].run = 0
              /\ \A h \in Generators : h # g => generator'[h] = generator[h]
            BY <2>6, <2>t, <2>e DEF GiveUp
        <3>2. \A h \in Generators : generator'[h].run # 0 =>
                  OneGapSeen(h)' /\ StaleUnjudged(h)' /\ BacklogStands(h)'
            BY <2>6, <3>1 DEF GiveUp, GenerationInv, OneGapSeen, StaleUnjudged, BacklogStands
        <3> QED BY <2>6, <2>t, <3>1, <3>2 DEF GiveUp, GenerationInv, FindingsTypeOK
    <2>7. ASSUME NEW o \in Opportunities, NEW archived \in BOOLEAN, SetArchived(o, archived)
          PROVE  GenerationInv'
        <3>1. /\ opportunity' \in [Opportunities -> [presence : Presence \cup {"absent"},
                                                     archived : BOOLEAN]]
              /\ \A p \in Opportunities : opportunity'[p].presence = opportunity[p].presence
            BY <2>7, <2>t DEF SetArchived
        <3>2. \A h \in Generators : generator[h].run # 0 =>
                  OneGapSeen(h)' /\ StaleUnjudged(h)' /\ BacklogStands(h)'
            BY <2>7, <3>1 DEF SetArchived, GenerationInv, OneGapSeen, StaleUnjudged, BacklogStands
        <3> QED BY <2>7, <2>t, <3>1, <3>2 DEF SetArchived, GenerationInv, FindingsTypeOK
    <2> QED BY <2>0, <2>1, <2>2, <2>3, <2>4, <2>5, <2>6, <2>7 DEF FindingsNext
<1> QED BY <1>1, <1>2, PTL DEF FindingsSpec

(* Who commits writes what it has judged; an error and what others do change *)
(* no presence.                                                             *)
LEMMA CommitsWrite ==
    ASSUME GenerationInv, [FindingsNext]_findingVars, NEW g \in Generators, Commits(g)
    PROVE  \A o \in Opportunities : opportunity'[o] = Written(g, o)
<1>1. Commit(g)
    <2>1. generator[g].run # 0 /\ generator'[g].run = 0 /\ opportunity' # opportunity
        BY DEF Commits
    <2>2. generator \in [Generators -> Generator]
        BY DEF GenerationInv, FindingsTypeOK
    <2>3. PICK h \in Generators : Commit(h)
        BY <2>1 DEF FindingsNext, findingVars, HourPasses, Collect, Compute, Read, GiveUp,
                    SetArchived
    <2>4. CASE h # g
        <3>1. generator'[g] = [generator[g] EXCEPT !.alone = FALSE]
            BY <2>3, <2>4 DEF Commit
        <3>2. generator'[g].run = generator[g].run
            BY <2>2, <3>1 DEF Generator
        <3> QED BY <2>1, <3>2
    <2> QED BY <2>3, <2>4
<1> QED BY <1>1 DEF Commit

(* What generations conclude does not depend on what is computed, collected, *)
(* archived or generated meanwhile.                                          *)
THEOREM Conclusions == FindingsSpec => GenerationsConclude
<1>1. ASSUME GenerationInv, [FindingsNext]_findingVars, NEW g \in Generators, Commits(g)
      PROVE  OneGapAtMost(g) /\ StaleConcludesNothing(g)
    <2>1. /\ OneGapSeen(g) /\ StaleUnjudged(g) /\ BacklogStands(g)
          /\ \A o \in Opportunities : opportunity'[o] = Written(g, o)
        BY <1>1, CommitsWrite DEF GenerationInv, Commits
    <2>t. opportunity \in [Opportunities -> [presence : Presence \cup {"absent"},
                                                archived : BOOLEAN]]
        BY <1>1 DEF GenerationInv, FindingsTypeOK
    <2>w. \A o \in Opportunities :
              \/ opportunity'[o].presence = generator[g].verdict[o]
              \/ /\ opportunity'[o].presence = opportunity[o].presence
                 /\ \/ generator[g].verdict[o] = generator[g].backlog[o]
                    \/ generator[g].verdict[o] # "active" /\ generator[g].backlog[o] = "absent"
        BY <2>1, <2>t DEF Written
    <2>2. OneGapAtMost(g)
        <3> SUFFICES ASSUME generator[g].alone, NEW x \in Workloads
                     PROVE  \E rule \in Rules(x) :
                                \/ opportunity'[<<x, rule>>].presence # "active"
                                \/ generator[g].backlog[<<x, rule>>] = "absent"
                                   /\ generator[g].verdict[<<x, rule>>] # "active"
            BY DEF OneGapAtMost
        <3>1. PICK rule \in Rules(x) : generator[g].verdict[<<x, rule>>] # "active"
            BY <2>1 DEF OneGapSeen
        <3>2. <<x, rule>> \in Opportunities
            BY <3>1 DEF Opportunities, Resources, Rules
        <3>3. generator[g].backlog[<<x, rule>>] \in {"absent", opportunity[<<x, rule>>].presence}
            BY <2>1, <3>2 DEF BacklogStands
        <3> QED BY <2>w, <3>1, <3>2, <3>3
    <2>3. StaleConcludesNothing(g)
        BY <2>1, <2>w DEF StaleUnjudged, StaleConcludesNothing
    <2> QED BY <2>2, <2>3
<1>2. GenerationInv /\ [FindingsNext]_findingVars =>
          [\A g \in Generators : Commits(g) => OneGapAtMost(g) /\ StaleConcludesNothing(g)]_findingVars
    BY <1>1
<1> QED BY <1>2, GenerationHolds, PTL DEF FindingsSpec, GenerationsConclude

-----------------------------------------------------------------------------
(* The applies of a configuration of HTTPS (TlsApply). *)

(* The steps of an apply.                                                   *)
Steps == {"new", "locked", "stored", "loaded", "probed", "configured", "described",
          "undo", "undone", "over"}
(* An apply.                                                                *)
Apply == [step : Steps, custom : BOOLEAN, before : Configs,
          report : {"none", "applied", "restored", "refused", "unsure"}]

(* One apply works at a time: who holds the lock.                           *)
OneWorks ==
    \A q \in Applies :
        /\ (tlsLock = q) = (apply[q].step \notin {"new", "over"})
        /\ (apply[q].report = "none") = (apply[q].step # "over")

(* A configuration has the name of an apply only once that has begun, and   *)
(* what the apply at work found can still be loaded.                        *)
NamedWhenMade ==
    \A r \in Applies :
        apply[r].step = "new" =>
            /\ config # r /\ described # r
            /\ \A q \in Applies : tlsLock = q => apply[q].before # r

(* How far the apply at work has got is what the files say.                 *)
FilesFollow ==
    \A q \in Applies :
        LET a == apply[q] IN
        tlsLock = q =>
            /\ Loadable(a.before) /\ a.before # q
            /\ a.step \notin {"locked"} /\ a.custom => q \in directories
            /\ a.step \in {"locked", "stored", "loaded", "probed", "undone"} => config = a.before
            /\ a.step \in {"configured", "described"} => config = q
            /\ a.step = "undo" => config \in {a.before, q}
            /\ a.step = "described" => described = q
            /\ ~disturbed /\ a.step \in {"loaded", "probed", "configured", "described"} =>
                  runtime = q

(* What holds of the files and of the applies under way.                    *)
TlsInv ==
    /\ TlsTypeOK /\ OneWorks /\ NamedWhenMade /\ FilesFollow
    /\ NoDanglingCertificate /\ ReportedIsServed

(* Before any apply the first configuration is served.                      *)
LEMMA TlsBegins == TlsInit => TlsInv
<1> SUFFICES ASSUME TlsInit PROVE TlsInv
    OBVIOUS
<1> USE TlsAssumption
<1>1. PICK custom \in [Applies -> BOOLEAN] :
         apply = [q \in Applies |-> [step |-> "new", custom |-> custom[q],
                                     before |-> "baseline", report |-> "none"]]
    BY DEF TlsInit
<1>2. TlsTypeOK
    <2>1. apply \in [Applies -> Apply]
        <3>1. ASSUME NEW q \in Applies PROVE apply[q] \in Apply
            BY <1>1, <3>1 DEF Apply, Steps, Configs
        <3> QED BY <1>1, <3>1
    <2>2. stops \in 0..MaxStops
        BY DEF TlsInit
    <2> QED BY <2>1, <2>2 DEF TlsInit, TlsTypeOK, Apply, Steps, Configs
<1>3. OneWorks /\ NamedWhenMade /\ FilesFollow
    BY <1>1 DEF TlsInit, OneWorks, NamedWhenMade, FilesFollow
<1>4. NoDanglingCertificate /\ ReportedIsServed
    BY <1>1 DEF TlsInit, NoDanglingCertificate, ReportedIsServed, Loadable
<1> QED BY <1>2, <1>3, <1>4 DEF TlsInv

(* What a step of the apply that holds the lock leaves of the others.       *)
LEMMA OneMoves ==
    ASSUME TlsInv, NEW q \in Applies, NEW step \in Steps, To(q, step)
    PROVE  /\ apply' \in [Applies -> Apply]
           /\ apply'[q].step = step /\ apply'[q].custom = apply[q].custom
           /\ apply'[q].before = apply[q].before /\ apply'[q].report = apply[q].report
           /\ \A r \in Applies : r # q => apply'[r] = apply[r]
<1>1. apply \in [Applies -> Apply]
    BY DEF TlsInv, TlsTypeOK, Apply, Steps
<1>2. [apply[q] EXCEPT !.step = step] \in Apply
    BY <1>1 DEF Apply
<1> QED BY <1>1, <1>2 DEF To, Apply

(* The apply that works ends and lets the lock go.                          *)
LEMMA OneEnds ==
    ASSUME TlsInv, NEW q \in Applies, NEW report \in {"applied", "restored", "refused", "unsure"},
           End(q, report)
    PROVE  /\ apply' \in [Applies -> Apply]
           /\ apply'[q].step = "over" /\ apply'[q].custom = apply[q].custom
           /\ apply'[q].report = report
           /\ \A r \in Applies : r # q => apply'[r] = apply[r]
           /\ tlsLock' = "none"
<1>1. apply \in [Applies -> Apply]
    BY DEF TlsInv, TlsTypeOK, Apply, Steps
<1>2. [apply[q] EXCEPT !.step = "over", !.report = report] \in Apply
    BY <1>1 DEF Apply, Steps
<1>3. apply' = [apply EXCEPT ![q] = [apply[q] EXCEPT !.step = "over", !.report = report]]
    BY <1>1 DEF End
<1>4. tlsLock' = "none"
    BY DEF End
<1> QED BY <1>1, <1>2, <1>3, <1>4 DEF Apply

(* A step of the apply at work that does not end it: what it must see to.   *)
LEMMA Works ==
    ASSUME TlsInv, NEW q \in Applies, NEW step \in Steps \ {"new", "over"},
           apply[q].step \notin {"new", "over"}, To(q, step),
           UNCHANGED <<tlsLock, stops, disturbed>>,
           runtime' \in Configs, config' \in Configs, described' \in Applies \cup {"none"},
           directories' \subseteq Applies,
           directories \subseteq directories',
           config' \in {config, q, apply[q].before}, described' \in {described, q},
           apply[q].custom /\ step # "locked" => q \in directories',
           config' = q => step # "locked",
           step \in {"locked", "stored", "loaded", "probed", "undone"} =>
               config' = apply[q].before,
           step \in {"configured", "described"} => config' = q,
           step = "undo" => config' \in {apply[q].before, q},
           step = "described" => described' = q,
           ~disturbed /\ step \in {"loaded", "probed", "configured", "described"} => runtime' = q
    PROVE  TlsInv'
<1> USE TlsAssumption
<1>1. /\ apply' \in [Applies -> Apply]
      /\ apply'[q].step = step /\ apply'[q].custom = apply[q].custom
      /\ apply'[q].before = apply[q].before /\ apply'[q].report = apply[q].report
      /\ \A r \in Applies : r # q => apply'[r] = apply[r]
    BY OneMoves
<1>2. tlsLock = q
    BY DEF TlsInv, OneWorks
<1>3. \A c \in Configs : Loadable(c) => Loadable(c)'
    BY <1>1 DEF Loadable
<1>4. TlsTypeOK'
    BY <1>1 DEF TlsInv, TlsTypeOK, Apply, Steps
<1>5. OneWorks'
    BY <1>1 DEF TlsInv, OneWorks
<1>6. NamedWhenMade'
    <2> SUFFICES ASSUME NEW r \in Applies, apply'[r].step = "new"
                 PROVE  /\ config' # r /\ described' # r
                        /\ \A o \in Applies : tlsLock' = o => apply'[o].before # r
        BY DEF NamedWhenMade
    <2>1. r # q /\ apply[r].step = "new"
        BY <1>1
    <2>2. config # r /\ described # r /\ apply[q].before # r
        BY <1>2, <2>1 DEF TlsInv, NamedWhenMade
    <2> QED BY <1>1, <1>2, <2>1, <2>2
<1>7. Loadable(apply[q].before) /\ apply[q].before # q /\ apply[q].before \in Configs
    BY <1>2 DEF TlsInv, FilesFollow, TlsTypeOK
<1>8. FilesFollow'
    BY <1>1, <1>2, <1>3, <1>7 DEF FilesFollow
<1>9. NoDanglingCertificate'
    <2>1. Loadable(q)' \/ config' # q
        BY <1>1 DEF Loadable
    <2>2. Loadable(config) /\ config \in Configs
        BY DEF TlsInv, NoDanglingCertificate, TlsTypeOK
    <2> QED BY <1>3, <1>7, <2>1, <2>2 DEF NoDanglingCertificate
<1>10. ReportedIsServed'
    BY <1>2 DEF ReportedIsServed, Others
<1> QED BY <1>4, <1>5, <1>6, <1>8, <1>9, <1>10 DEF TlsInv

(* A step that ends the apply at work: what it must see to.                 *)
LEMMA Ends ==
    ASSUME TlsInv, NEW q \in Applies, apply[q].step \notin {"new", "over"},
           NEW report \in {"applied", "restored", "refused", "unsure"}, End(q, report),
           UNCHANGED <<described, disturbed>>, stops' \in 0..MaxStops,
           runtime' \in Configs, directories' \subseteq Applies,
           config' \in {config, apply[q].before},
           config' \in {r \in Applies : apply[r].custom} => config' \in directories',
           report = "applied" /\ ~disturbed => runtime' = q /\ config' = q /\ described = q,
           report = "restored" => runtime' = config' /\ config' # q
    PROVE  TlsInv'
<1> USE TlsAssumption
<1>1. /\ apply' \in [Applies -> Apply]
      /\ apply'[q].step = "over" /\ apply'[q].custom = apply[q].custom
      /\ apply'[q].report = report
      /\ \A r \in Applies : r # q => apply'[r] = apply[r]
      /\ tlsLock' = "none"
    BY OneEnds
<1>2. tlsLock = q
    BY DEF TlsInv, OneWorks
<1>3. TlsTypeOK'
    <2>1. config \in Configs /\ apply[q].before \in Configs
        BY DEF TlsInv, TlsTypeOK
    <2> QED BY <1>1, <2>1 DEF TlsInv, TlsTypeOK, Apply, Steps
<1>4. OneWorks'
    BY <1>1, <1>2 DEF TlsInv, OneWorks
<1>5. NamedWhenMade'
    <2> SUFFICES ASSUME NEW r \in Applies, apply'[r].step = "new"
                 PROVE  config' # r /\ described' # r
        BY <1>1 DEF NamedWhenMade
    <2>1. r # q /\ apply[r].step = "new"
        BY <1>1
    <2> QED BY <1>2, <2>1 DEF TlsInv, NamedWhenMade
<1>6. FilesFollow'
    BY <1>1 DEF FilesFollow
<1>7. NoDanglingCertificate'
    BY <1>1 DEF NoDanglingCertificate, Loadable
<1>8. ReportedIsServed'
    <2> SUFFICES ASSUME ~disturbed, NEW r \in Applies
                 PROVE  /\ apply'[r].report = "applied" /\ Others(r, {"none"})' =>
                              runtime' = r /\ config' = r /\ described = r
                        /\ apply'[r].report = "restored" /\ Others(r, {"none", "applied"})' =>
                              runtime' = config' /\ config' # r
        BY DEF ReportedIsServed
    <2>1. CASE r = q
        BY <1>1, <2>1
    <2>2. CASE r # q
        <3>1. Others(r, {"none"})' => FALSE
            BY <1>1, <2>2 DEF Others
        <3>2. Others(r, {"none", "applied"})' => report = "applied"
            BY <1>1, <2>2 DEF Others
        <3> QED BY <2>2, <3>1, <3>2
    <2> QED BY <2>1, <2>2
<1> QED BY <1>3, <1>4, <1>5, <1>6, <1>7, <1>8 DEF TlsInv

(* What the apply at work knows.                                            *)
LEMMA AtWork ==
    ASSUME TlsInv, NEW q \in Applies, apply[q].step \notin {"new", "over"}
    PROVE  /\ tlsLock = q
           /\ apply[q].before \in Configs /\ runtime \in Configs /\ config \in Configs
           /\ described \in Applies \cup {"none"} /\ directories \subseteq Applies
           /\ stops \in 0..MaxStops /\ q \in Configs
           /\ Loadable(apply[q].before) /\ apply[q].before # q /\ Loadable(config)
           /\ apply[q].step \notin {"locked"} /\ apply[q].custom => q \in directories
           /\ apply[q].step \in {"locked", "stored", "loaded", "probed", "undone"} =>
                  config = apply[q].before
           /\ apply[q].step \in {"configured", "described"} => config = q
           /\ apply[q].step = "undo" => config \in {apply[q].before, q}
           /\ apply[q].step = "described" => described = q
           /\ ~disturbed /\ apply[q].step \in {"loaded", "probed", "configured", "described"} =>
                  runtime = q
<1>1. tlsLock = q
    BY DEF TlsInv, OneWorks
<1>2. FilesFollow /\ TlsTypeOK /\ Loadable(config)
    BY DEF TlsInv, NoDanglingCertificate
<1>3. /\ apply[q].before \in Configs /\ runtime \in Configs /\ config \in Configs
      /\ described \in Applies \cup {"none"} /\ directories \subseteq Applies
      /\ stops \in 0..MaxStops /\ q \in Configs
    BY <1>2 DEF TlsTypeOK, Configs
<1> QED BY <1>1, <1>2, <1>3 DEF FilesFollow

(* Giving the previous configuration back.                                  *)
LEMMA WentBack ==
    ASSUME TlsInv, NEW q \in Applies, apply[q].step \in {"loaded", "undone"}, GoBack(q),
           UNCHANGED <<config, described, stops, disturbed>>
    PROVE  TlsInv'
<1>a. /\ apply[q].before \in Configs /\ runtime \in Configs /\ stops \in 0..MaxStops
      /\ directories \subseteq Applies
      /\ Loadable(config) /\ config = apply[q].before /\ apply[q].before # q
    BY AtWork
<1>1. CASE /\ runtime' = apply[q].before
           /\ directories' = directories \ {q} /\ End(q, "restored")
    BY <1>1, <1>a, Ends DEF Loadable
<1>2. CASE /\ runtime' \in {runtime} \cup {c \in {apply[q].before} : Loadable(c)}
           /\ UNCHANGED directories /\ End(q, "unsure")
    BY <1>2, <1>a, Ends DEF Loadable
<1> QED BY <1>1, <1>2 DEF GoBack

(* No step of an apply, nor its end in a crash, breaks it.                  *)
LEMMA TlsStep ==
    ASSUME TlsInv, [TlsNext]_tlsVars
    PROVE  TlsInv'
<1> USE TlsAssumption
<1>1. ASSUME NEW q \in Applies, LockTls(q) PROVE TlsInv'
    <2>1. /\ apply \in [Applies -> Apply] /\ config \in Configs /\ config # q
          /\ TlsTypeOK /\ NamedWhenMade /\ OneWorks /\ Loadable(config)
          /\ apply[q].step = "new" /\ apply[q].report = "none" /\ tlsLock = "none"
        BY <1>1 DEF TlsInv, TlsTypeOK, Apply, Steps, NamedWhenMade, OneWorks, LockTls,
                    NoDanglingCertificate
    <2>2. [apply[q] EXCEPT !.step = "locked", !.before = config] \in Apply
        BY <2>1 DEF Apply, Steps
    <2>3. apply' = [apply EXCEPT ![q] = [apply[q] EXCEPT !.step = "locked", !.before = config]]
        BY <1>1, <2>1 DEF LockTls
    <2>4. /\ apply' \in [Applies -> Apply]
          /\ apply'[q].step = "locked" /\ apply'[q].before = config
          /\ apply'[q].custom = apply[q].custom /\ apply'[q].report = "none"
          /\ \A r \in Applies : r # q => apply'[r] = apply[r]
        BY <2>1, <2>2, <2>3 DEF Apply
    <2>5. tlsLock' = q /\ UNCHANGED <<runtime, config, described, directories, stops, disturbed>>
        BY <1>1 DEF LockTls
    <2>6. TlsTypeOK'
        BY <2>1, <2>4, <2>5 DEF TlsTypeOK, Apply, Steps
    <2>7. Loadable(config)'
        BY <2>1, <2>4, <2>5 DEF Loadable
    <2>8. OneWorks' /\ NamedWhenMade'
        BY <2>1, <2>4, <2>5 DEF OneWorks, NamedWhenMade
    <2>9. FilesFollow'
        BY <2>1, <2>4, <2>5, <2>7 DEF FilesFollow
    <2>10. ReportedIsServed'
        BY <2>5 DEF ReportedIsServed, Others
    <2> QED BY <2>6, <2>7, <2>8, <2>9, <2>10 DEF TlsInv, NoDanglingCertificate
<1>2. ASSUME NEW q \in Applies, Store(q) PROVE TlsInv'
    <2>1. apply[q].step = "locked"
          /\ UNCHANGED <<runtime, config, described, stops, disturbed>>
        BY <1>2 DEF Store
    <2>2. CASE /\ To(q, "stored") /\ UNCHANGED tlsLock
               /\ directories' = IF apply[q].custom THEN directories \cup {q} ELSE directories
        BY <2>1, <2>2, AtWork, Works DEF Steps
    <2>3. CASE End(q, "refused") /\ directories' \in {directories, directories \cup {q}}
        BY <2>1, <2>3, AtWork, Ends DEF Loadable
    <2> QED BY <1>2, <2>2, <2>3 DEF Store
<1>3. ASSUME NEW q \in Applies, LoadCandidate(q) PROVE TlsInv'
    <2>1. apply[q].step = "stored" /\ UNCHANGED <<config, described, stops, disturbed>>
        BY <1>3 DEF LoadCandidate
    <2>2. CASE runtime' = q /\ To(q, "loaded") /\ UNCHANGED <<tlsLock, directories>>
        BY <2>1, <2>2, AtWork, Works DEF Steps
    <2>3. CASE /\ runtime' \in {runtime, q} /\ directories' = directories \ {q}
               /\ End(q, "refused")
        BY <2>1, <2>3, AtWork, Ends DEF Loadable
    <2> QED BY <1>3, <2>2, <2>3 DEF LoadCandidate
<1>4. ASSUME NEW q \in Applies, Probe(q) PROVE TlsInv'
    BY <1>4, AtWork, Works DEF Probe, Steps
<1>5. ASSUME NEW q \in Applies, ProbeFails(q) \/ PersistFails(q) PROVE TlsInv'
    BY <1>5, WentBack DEF ProbeFails, PersistFails
<1>6. ASSUME NEW q \in Applies, WriteConfig(q) PROVE TlsInv'
    <2>1. /\ apply[q].step = "probed"
          /\ UNCHANGED <<tlsLock, runtime, described, directories, stops, disturbed>>
        BY <1>6 DEF WriteConfig
    <2>2. CASE config' = q /\ To(q, "configured")
        BY <2>1, <2>2, AtWork, Works DEF Steps
    <2>3. CASE config' \in {config, q} /\ To(q, "undo")
        BY <2>1, <2>3, AtWork, Works DEF Steps
    <2> QED BY <1>6, <2>2, <2>3 DEF WriteConfig
<1>7. ASSUME NEW q \in Applies, WriteState(q) PROVE TlsInv'
    <2>1. /\ apply[q].step = "configured"
          /\ UNCHANGED <<tlsLock, runtime, config, directories, stops, disturbed>>
        BY <1>7 DEF WriteState
    <2>2. CASE described' = q /\ To(q, "described")
        BY <2>1, <2>2, AtWork, Works DEF Steps
    <2>3. CASE described' \in {described, q} /\ To(q, "undo")
        BY <2>1, <2>3, AtWork, Works DEF Steps
    <2> QED BY <1>7, <2>2, <2>3 DEF WriteState
<1>8. ASSUME NEW q \in Applies, RestorePersisted(q) PROVE TlsInv'
    <2>1. /\ apply[q].step = "undo"
          /\ UNCHANGED <<runtime, described, directories, stops, disturbed>>
        BY <1>8 DEF RestorePersisted
    <2>2. CASE config' = apply[q].before /\ To(q, "undone") /\ UNCHANGED tlsLock
        BY <2>1, <2>2, AtWork, Works DEF Steps
    <2>3. CASE config' \in {config, apply[q].before} /\ End(q, "unsure")
        BY <2>1, <2>3, AtWork, Ends DEF Loadable
    <2> QED BY <1>8, <2>2, <2>3 DEF RestorePersisted
<1>9. ASSUME NEW q \in Applies, Cleanup(q) PROVE TlsInv'
    <2>1. /\ apply[q].step = "described" /\ End(q, "applied")
          /\ UNCHANGED <<runtime, config, described, stops, disturbed>>
        BY <1>9 DEF Cleanup
    <2>2. directories' \subseteq directories /\ directories \cap Kept(q) \subseteq directories'
        BY <1>9 DEF Cleanup
    <2>3. apply[q].custom => q \in directories'
        BY <2>1, <2>2, AtWork DEF Kept
    <2> QED BY <2>1, <2>2, <2>3, AtWork, Ends
<1>10. ASSUME NEW q \in Applies, CrashApply(q) PROVE TlsInv'
    <2>1. apply[q].step \notin {"new", "over"}
        BY <1>10 DEF CrashApply, TlsInv, OneWorks
    <2>2. /\ End(q, "unsure") /\ stops < MaxStops /\ stops' = stops + 1
          /\ UNCHANGED <<runtime, config, described, directories, disturbed>>
        BY <1>10 DEF CrashApply
    <2> QED BY <2>1, <2>2, AtWork, Ends DEF Loadable
<1>11. CASE RestartProxy
    <2>1. /\ stops < MaxStops /\ stops' = stops + 1 /\ runtime' = config
          /\ disturbed' = (disturbed \/ tlsLock # "none")
          /\ UNCHANGED <<apply, tlsLock, config, described, directories>>
        BY <1>11 DEF RestartProxy
    <2>2. TlsTypeOK'
        BY <2>1 DEF TlsInv, TlsTypeOK
    <2>3. OneWorks' /\ NamedWhenMade' /\ NoDanglingCertificate'
        BY <2>1 DEF TlsInv, OneWorks, NamedWhenMade, NoDanglingCertificate, Loadable
    <2>4. FilesFollow'
        BY <2>1 DEF TlsInv, FilesFollow, Loadable
    <2>5. ReportedIsServed'
        BY <2>1 DEF TlsInv, ReportedIsServed, Others
    <2> QED BY <2>2, <2>3, <2>4, <2>5 DEF TlsInv
<1>12. CASE UNCHANGED tlsVars
    BY <1>12 DEF tlsVars, TlsInv, TlsTypeOK, OneWorks, NamedWhenMade, FilesFollow,
                 NoDanglingCertificate, ReportedIsServed, Loadable, Others
<1> QED
    BY <1>1, <1>2, <1>3, <1>4, <1>5, <1>6, <1>7, <1>8, <1>9, <1>10, <1>11, <1>12 DEF TlsNext

(* What an apply leaves, whether it ended, failed or was cut off, can be    *)
(* started from and is what was reported, for any number of applies,        *)
(* crashes and restarts (apply, its error paths, _cleanup_certificates).    *)
THEOREM ServedAsSaid == TlsSpec => []ServedAsReported
<1>1. TlsInv => ServedAsReported
    BY DEF TlsInv, ServedAsReported
<1> QED BY <1>1, TlsBegins, TlsStep, PTL DEF TlsSpec

=============================================================================
