-------------------------- MODULE OpportunityContract --------------------------
(***************************************************************************)
(* What operators are promised about an opportunity, with runs, clocks and *)
(* policies left out: an opportunity has a human status, is or is not in   *)
(* the operational backlog (archive), and may ask for a review.            *)
(*   - only people change a status once the opportunity was discovered;    *)
(*   - a rejected opportunity is silent: nothing brings it back to the     *)
(*     backlog, or asks for its review, but reopening it;                  *)
(*   - an opportunity that asks for review is not retired by a policy.     *)
(* The statements are those of opportunity-lifecycle.md and of             *)
(* opportunity-operational-archiving.md; OpportunityPresence implements    *)
(* them. Opportunities are independent, and one transaction may move any   *)
(* number of them.                                                         *)
(***************************************************************************)
CONSTANT Findings

VARIABLES status, archive, needsReview

vars == <<status, archive, needsReview>>

Init ==
    /\ status = [f \in Findings |-> "none"]
    /\ archive = [f \in Findings |-> "none"]
    /\ needsReview = [f \in Findings |-> FALSE]

Keeps(f) ==
    /\ status'[f] = status[f]
    /\ archive'[f] = archive[f]
    /\ needsReview'[f] = needsReview[f]

Discover(f) ==
    /\ status[f] = "none" /\ status'[f] = "open"
    /\ archive'[f] = "none"
    /\ needsReview'[f] = FALSE

Decide(f) ==
    /\ status[f] = "open" /\ status'[f] \in {"treated", "rejected"}
    /\ archive'[f] = archive[f]
    /\ needsReview'[f] = FALSE

(* Reopening is what ends the silence of a rejected opportunity. *)
Reopen(f) ==
    /\ status[f] \in {"treated", "rejected"} /\ status'[f] = "open"
    /\ archive'[f] = IF status[f] = "rejected" THEN "none" ELSE archive[f]
    /\ needsReview'[f] = FALSE

Hide(f) ==
    /\ status[f] # "none" /\ status'[f] = status[f]
    /\ archive[f] = "none" /\ archive'[f] = "MANUAL"
    /\ needsReview'[f] = needsReview[f]

Retire(f) ==
    /\ status[f] # "none" /\ status'[f] = status[f]
    /\ archive[f] = "none" /\ archive'[f] = "RETENTION_POLICY"
    /\ ~needsReview[f] /\ ~needsReview'[f]

(* By hand, or because a collection found it again. *)
Return(f) ==
    /\ status[f] \in {"open", "treated"} /\ status'[f] = status[f]
    /\ archive'[f] \in {archive[f], "none"}
    /\ \/ needsReview'[f] = needsReview[f]
       \/ status[f] = "treated" /\ needsReview'[f]

Step(f) ==
    \/ Discover(f) \/ Decide(f) \/ Reopen(f)
    \/ Hide(f) \/ Retire(f) \/ Return(f)
    \/ Keeps(f)

Next == \A f \in Findings : Step(f)

Spec == Init /\ [][Next]_vars

=============================================================================
