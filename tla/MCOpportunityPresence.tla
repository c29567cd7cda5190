------------------------ MODULE MCOpportunityPresence ------------------------
(* Instances of OpportunityPresence for TLC. *)
EXTENDS OpportunityPresence, FiniteSets, TLC

MCRuleOf == [f \in Findings |-> CHOOSE rule \in Rules : TRUE]
MCRegionOf == [f \in Findings |-> CHOOSE region \in Regions : TRUE]
MCDays == [policy \in Policies |-> 1]

(* One behaviour takes one of three courses, to keep the actors that meet few:   *)
(*   treatment   three runs that overlap, treatments, a sweep from day 3 on      *)
(*   decisions   two runs that overlap, all an operator can do, a sweep          *)
(*   resolved    three runs in turn, all an operator can do, no sweep            *)
VARIABLE course

Claimed == {r \in Runs : run'[r].state # "none"}
AtWork == {r \in Runs : run'[r].state \in {"running", "persisting"}}

Treatment ==
    Collection \/ (now >= 3 /\ Retention) \/ Tick \/ \E f \in Findings : Treat({f})

Decisions == Next /\ now' < MaxTime /\ Cardinality(Claimed) <= 2

Resolved ==
    /\ Collection \/ Decision \/ Archiving \/ Tick
    /\ now' < MaxTime /\ Cardinality(AtWork) <= 1

CourseInit == Init /\ course \in {"treatment", "decisions", "resolved"}

CourseNext ==
    /\ \/ course = "treatment" /\ Treatment
       \/ course = "decisions" /\ Decisions
       \/ course = "resolved" /\ Resolved
    /\ UNCHANGED course

CourseSpec == CourseInit /\ [][CourseNext]_<<vars, course>>

(* Overlapping runs alone, with nobody deciding or archiving. *)
CollectionSpec ==
    /\ CourseInit /\ course = "treatment"
    /\ [][(Collection \/ Tick) /\ UNCHANGED course]_<<vars, course>>

RunSymmetry == Permutations(Runs)
=============================================================================
