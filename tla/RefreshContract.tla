---------------------------- MODULE RefreshContract ---------------------------
(***************************************************************************)
(* What readers of the RDS reservations are promised of the refreshes      *)
(* (refresh_rds_reservations), with processes, their lock, deaths and the  *)
(* age of runs left out:                                                   *)
(*   - one refresh is at work at a time, on the newest of its runs;        *)
(*   - a run is published once its inventory and its coverage are whole,   *)
(*     and what is published stays so;                                     *)
(*   - findings are judged of a published run, whose refresh says how that *)
(*     ended, or nobody does;                                              *)
(*   - a run that its refresh has left before it was published ends failed *)
(*     before the next refresh begins.                                     *)
(* RdsPipeline implements it.                                              *)
(***************************************************************************)
EXTENDS Integers

CONSTANT Ids        \* the runs, numbered as they are made

VARIABLES
    phase,          \* phase[k]: how far run k is; "aside" if it is no refresh's
    working         \* the run a refresh is at work on, 0 if none is

vars == <<phase, working>>

Unpublished == {"collecting", "computing"}

Init ==
    /\ phase = [k \in Ids |-> "none"]
    /\ working = 0

ComesNext(k) == phase[k] = "none" /\ \A j \in Ids : j < k => phase[j] # "none"

(* Runs that were left are given up while nobody is at work. *)
GivenUp(j) == phase'[j] = phase[j] \/ (phase[j] \in Unpublished /\ phase'[j] = "failed")

Begin(k) ==
    /\ working = 0 /\ working' = k /\ ComesNext(k)
    /\ phase'[k] = "collecting"
    /\ \A j \in Ids : j # k => GivenUp(j) /\ phase'[j] \notin Unpublished

GiveUp ==
    /\ working = 0 /\ working' = 0
    /\ \A j \in Ids : GivenUp(j)

(* Only the run that is worked on gets on. *)
Goes(from, to) ==
    /\ working # 0 /\ phase[working] \in from
    /\ phase' = [phase EXCEPT ![working] = to]

Collected == Goes({"collecting"}, "computing") /\ UNCHANGED working
Published == Goes({"computing"}, "published") /\ UNCHANGED working
Judging == Goes({"published"}, "judging") /\ UNCHANGED working
Judged == Goes({"judging"}, "judged") /\ working' = 0
Unjudged == Goes({"judging"}, "unjudged") /\ working' = 0
Fails == Goes(Unpublished, "failed") /\ working' = 0

(* The refresh is cut off. *)
Cut == working # 0 /\ working' = 0 /\ UNCHANGED phase

(* The coverage route makes a run of its own. *)
Aside(k) ==
    /\ ComesNext(k)
    /\ phase' = [phase EXCEPT ![k] = "aside"] /\ UNCHANGED working

Next ==
    \/ \E k \in Ids : Begin(k) \/ Aside(k)
    \/ GiveUp
    \/ Collected \/ Published \/ Judging
    \/ Judged \/ Unjudged \/ Fails \/ Cut

Spec == Init /\ [][Next]_vars

=============================================================================
