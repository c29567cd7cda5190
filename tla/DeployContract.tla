---------------------------- MODULE DeployContract ----------------------------
(***************************************************************************)
(* What docs/auto-deploy.md promises whoever pushes to the branch or       *)
(* operates the host, with releases, locks and interruptions left out:     *)
(*   - a version is accepted only while the containers are its;            *)
(*   - the containers are only touched under an attempt that is on record, *)
(*     and brought back only after the attempt is blocked;                 *)
(*   - an attempt ends accepted, or blocked with the accepted version in   *)
(*     the containers, and no other way;                                   *)
(*   - a blocked version is not attempted again until an operator says so, *)
(*     but to go back to the version before.                               *)
(* AutoDeploy implements it, wherever its machine stops.                   *)
(***************************************************************************)
CONSTANT Commits

VARIABLES
    accepted,       \* the version last found healthy
    before,         \* the one accepted before it
    attempt,        \* the version that is being tried, or undone
    blocked,
    serving         \* the version of the containers

vars == <<accepted, before, attempt, blocked, serving>>

Init ==
    /\ accepted \in Commits /\ serving = accepted
    /\ before = "none" /\ attempt = "none"
    /\ blocked = {}

Begin(v) ==
    /\ attempt = "none" /\ serving = accepted
    /\ v # accepted
    /\ v \notin blocked \/ v = before
    /\ attempt' = v
    /\ UNCHANGED <<accepted, before, blocked, serving>>

(* What cannot be built is blocked without an attempt. *)
Refuse(v) ==
    /\ attempt = "none" /\ serving = accepted
    /\ v # accepted /\ v \notin blocked
    /\ blocked' = blocked \cup {v}
    /\ UNCHANGED <<accepted, before, attempt, serving>>

Disturb ==
    /\ attempt # "none"
    /\ serving' \in {"mixed", attempt}
    /\ UNCHANGED <<accepted, before, attempt, blocked>>

(* The version that was left is blocked when an operator left it. *)
Accept ==
    /\ attempt # "none" /\ serving = attempt
    /\ accepted' = attempt /\ before' = accepted /\ attempt' = "none"
    /\ blocked' \in {blocked, blocked \cup {accepted}}
    /\ UNCHANGED serving

Block ==
    /\ attempt # "none"
    /\ blocked' = blocked \cup {attempt}
    /\ UNCHANGED <<accepted, before, attempt, serving>>

BringBack ==
    /\ attempt \in blocked
    /\ serving' = accepted
    /\ UNCHANGED <<accepted, before, attempt, blocked>>

GiveUp ==
    /\ attempt \in blocked /\ serving = accepted
    /\ attempt' = "none"
    /\ UNCHANGED <<accepted, before, blocked, serving>>

Unblock ==
    /\ blocked' = {}
    /\ UNCHANGED <<accepted, before, attempt, serving>>

Next ==
    \/ \E v \in Commits : Begin(v) \/ Refuse(v)
    \/ Disturb \/ Accept
    \/ Block \/ BringBack \/ GiveUp
    \/ Unblock

Spec == Init /\ [][Next]_vars

=============================================================================
