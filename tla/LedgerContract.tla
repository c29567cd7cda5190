---------------------------- MODULE LedgerContract ----------------------------
(***************************************************************************)
(* The FinOps ledger as a book, with evidence, collections and accounts    *)
(* left out (docs/implementation-roadmap.md:4097 and 4198):                *)
(*   - what is written stays as it is written;                             *)
(*   - it is written once for each decision or request, a saving of its    *)
(*     own decision and with it;                                           *)
(*   - it is made good whole and once, and then for good.                  *)
(* SavingLedger implements it.                                             *)
(***************************************************************************)
EXTENDS Integers

CONSTANTS Findings, Requests

VARIABLES
    decided,        \* decided[f]: how many decisions there are on f
    book,           \* what was written: a key and what it is worth
    undone          \* the keys that were reversed

vars == <<decided, book, undone>>

Init ==
    /\ decided = [f \in Findings |-> 0]
    /\ book = {}
    /\ undone = {}

Written(k) == \E b \in book : b.key = k

(* One decision, on each of F, writes for some of them. *)
Decide(F) ==
    /\ decided' = [f \in Findings |-> IF f \in F THEN decided[f] + 1 ELSE decided[f]]
    /\ book \subseteq book'
    /\ \A b \in book' \ book :
          /\ b.worth > 0
          /\ \E f \in F : b.key = <<f, decided'[f]>>
          /\ ~Written(b.key)
          /\ \A c \in book' \ book : c.key = b.key => c = b
    /\ UNCHANGED undone

Enter(q) ==
    /\ ~Written(<<q, 0>>)
    /\ \E b \in book' : /\ book' = book \cup {b}
                        /\ b.key = <<q, 0>> /\ b.worth # 0
    /\ UNCHANGED <<decided, undone>>

Reverse(k) ==
    /\ Written(k) /\ k \notin undone
    /\ undone' = undone \cup {k}
    /\ UNCHANGED <<decided, book>>

Next ==
    \/ \E F \in SUBSET Findings : Decide(F)
    \/ \E q \in Requests : Enter(q)
    \/ \E b \in book : Reverse(b.key)

Spec == Init /\ [][Next]_vars

=============================================================================
