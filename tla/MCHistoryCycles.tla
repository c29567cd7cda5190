----------------------------- MODULE MCHistoryCycles -----------------------------
(* Instances of HistoryCycles for TLC. *)
EXTENDS HistoryCycles, TLC

(* A month of two days, and a cycle of three that does not start with it. *)
MCGrids == {[mode |-> "CALENDAR_MONTH", length |-> 2, anchor |-> 0],
            [mode |-> "FIXED_DAYS", length |-> 3, anchor |-> 1]}

=============================================================================
