----------------------------- MODULE ScanContract -----------------------------
(***************************************************************************)
(* The life of a scan and of the run that is made for it, with workers,    *)
(* schedules and crashes left out (docs/implementation-roadmap.md:13 and   *)
(* 659):                                                                   *)
(*   - scans are taken up in the order of their numbers, and each once:    *)
(*     none that was taken up waits again, and none that ended is at work  *)
(*     again;                                                              *)
(*   - a run is made when its scan is taken up, and ends as its scan ends; *)
(*     a failure may still take back a success;                            *)
(*   - a deleted scan leaves its run as it was, for good.                  *)
(* CollectionQueue implements it.                                          *)
(***************************************************************************)
EXTENDS Integers

CONSTANT Scans      \* numbered in the order they were asked for

VARIABLES
    life,           \* life[s]: the state of scan s
    owner,          \* owner[s]: the account it is for
    run             \* run[s]: the state of its run

vars == <<life, owner, run>>

Init ==
    /\ life = [s \in Scans |-> "none"]
    /\ run = [s \in Scans |-> "none"]

Rests(s) == life'[s] = life[s] /\ owner'[s] = owner[s] /\ run'[s] = run[s]

(* A scan goes from one state to another, with its run. *)
Goes(s, from, to, runFrom, runTo) ==
    /\ life[s] = from /\ life'[s] = to
    /\ run[s] = runFrom /\ run'[s] = runTo
    /\ owner'[s] = owner[s]

FirstWaiting(s) == \A t \in Scans : life[t] = "pending" => s <= t

Ask(s) ==
    /\ life[s] = "none" /\ life'[s] = "pending"
    /\ run[s] = "none" /\ run'[s] = "none"

Start(s) == FirstWaiting(s) /\ Goes(s, "pending", "running", "none", "RUNNING")
Refuse(s) == FirstWaiting(s) /\ Goes(s, "pending", "failed", "none", "none")
Succeed(s) == Goes(s, "running", "completed", "RUNNING", "SUCCESS")
Fail(s) ==
    \/ Goes(s, "running", "failed", "RUNNING", "FAILED")
    \/ Goes(s, "completed", "failed", "SUCCESS", "FAILED")

Delete(s) ==
    /\ life[s] # "none" /\ life'[s] = "deleted"
    /\ owner'[s] = owner[s] /\ run'[s] = run[s]

Next ==
    \A s \in Scans :
        \/ Ask(s) \/ Start(s) \/ Refuse(s)
        \/ Succeed(s) \/ Fail(s)
        \/ Delete(s) \/ Rests(s)

Spec == Init /\ [][Next]_vars

=============================================================================
