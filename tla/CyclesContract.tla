---------------------------- MODULE CyclesContract ----------------------------
(***************************************************************************)
(* What docs/opportunity-history-cycles.md:58 says of the history, with    *)
(* collections, policies and clocks left out: periods are opened once and  *)
(* closed once; with a closed one its snapshots stay as they are, and it   *)
(* is not opened again. HistoryCycles implements it.                       *)
(***************************************************************************)
VARIABLES
    open,           \* the periods that are open
    closed          \* the records of those that were closed

vars == <<open, closed>>

Init == open = {} /\ closed = {}

(* One transaction may close several periods and open those that follow. *)
Next ==
    \E ended \in SUBSET open :
        /\ closed \subseteq closed'
        /\ {c.period : c \in closed' \ closed} = ended
        /\ \A c, d \in closed' \ closed : c.period = d.period => c = d
        /\ ended \cap open' = {} /\ open \ ended \subseteq open'
        /\ \A p \in open' : p \in open \/ \A c \in closed : c.period # p

Spec == Init /\ [][Next]_vars

=============================================================================
