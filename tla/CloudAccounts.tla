---------------------------- MODULE CloudAccounts ----------------------------
(***************************************************************************)
(* The row of a cloud account, its configuration and the state of its      *)
(* connection, as administrators edit it, replace its key, test it and     *)
(* delete it, and as collections use it (cloud_accounts.py, both routes of *)
(* accounts, worker.py).                                                   *)
(*                                                                         *)
(* A request reads the account into its session once and writes at the end *)
(* the columns it has changed. Neither a commit nor the later SELECT ... FOR*)
(* UPDATE refreshes what the session holds (session.py, expire_on_commit   *)
(* and cloud_accounts.py, get_cloud_account_for_update); a rollback does.  *)
(***************************************************************************)
EXTENDS Integers

CONSTANTS
    Jobs,       \* requests of administrators and collections, one of each
    Settings,   \* what a connection needs beside its key: user, region, scope or role
    Secrets        \* API signing keys

ASSUME AccountsAssumption == "none" \notin Secrets

VARIABLES
    provider,   \* the provider of the account
    row,        \* the account as it is stored
    job,        \* the requests and collections
    proved      \* what the provider has accepted: settings with their key

accountVars == <<provider, row, job, proved>>

Status == {"untested", "connected", "error"}
Row == [stored : {"not yet", "yes", "deleted"}, settings : Settings,
        key : Secrets \cup {"none"}, revision : Nat, status : Status]

(* new is what the request asks for, copy what its session holds, expected   *)
(* the revision it set out from.                                             *)
Job == [kind : {"none", "create", "update", "test", "replace", "delete", "collect"},
        step : {"new", "loaded", "accepted", "refused", "done"},
        copy : Row, settings : Settings, key : Secrets \cup {"none"}, expected : Nat]

AccountsTypeOK ==
    /\ provider \in {"aws", "oci"} /\ row \in Row /\ job \in [Jobs -> Job]
    /\ proved \subseteq Settings \X (Secrets \cup {"none"})

(* What the provider is asked about. An AWS account has no key of its own.   *)
Pair(r) == <<r.settings, r.key>>

NoAccount(s) == [stored |-> "not yet", settings |-> s, key |-> "none", revision |-> 1,
                 status |-> "untested"]

AccountsInit ==
    /\ provider \in {"aws", "oci"} /\ proved = {}
    /\ \E s \in Settings :
          /\ row = NoAccount(s)
          /\ job = [j \in Jobs |-> [kind |-> "none", step |-> "new", copy |-> NoAccount(s),
                                    settings |-> s, key |-> "none", expected |-> 0]]

-----------------------------------------------------------------------------
(* The columns a session has changed are written, the others are left.       *)
Flush(copy, new) ==
    row' = [c \in DOMAIN row |-> IF new[c] # copy[c] THEN new[c] ELSE row[c]]

Step(j, step) == job' = [job EXCEPT ![j].step = step]

(* create_cloud_account: untested, of its first revision, with the key given. *)
Created(s, k) == [NoAccount(s) EXCEPT !.stored = "yes", !.key = k]

(* A key is checked against its fingerprint and encrypted; nobody is asked   *)
(* whether it works.                                                         *)
Create(j) ==
    /\ job[j].step = "new" /\ row.stored = "not yet"
    /\ \E s \in Settings, k \in IF provider = "oci" THEN Secrets ELSE {"none"} :
          row' = Created(s, k)
    /\ job' = [job EXCEPT ![j].step = "done", ![j].kind = "create"]
    /\ UNCHANGED <<provider, proved>>

(* A request reads the account; it is not found once it is deleted.          *)
Load(j, kind, s, k) ==
    /\ job[j].step = "new" /\ row.stored = "yes"
    /\ job' = [job EXCEPT ![j] =
                  [kind |-> kind, step |-> "loaded", copy |-> row, settings |-> s, key |-> k,
                   expected |-> row.revision]]
    /\ UNCHANGED <<provider, row, proved>>

(* Mutant: what was tested before is left as it is. *)
MutantInvalidated(j, new) == [new EXCEPT !.revision = @ + 1]

(* What was tested before does not count for what is different now.          *)
Invalidated(j, new) ==
    IF Pair(new) = Pair(job[j].copy) THEN new
    ELSE [new EXCEPT !.status = "untested",
                     !.revision = IF provider = "oci" THEN @ + 1 ELSE @]

(* What an edit of settings, or the removal of the key, makes of its copy.   *)
Edited(j) ==
    Invalidated(j, [job[j].copy EXCEPT !.settings = job[j].settings, !.key = job[j].key])

(* The row is not locked.                                                    *)
Update(j) ==
    /\ job[j].kind = "update" /\ job[j].step = "loaded"
    /\ Step(j, "done")
    /\ IF row.stored = "yes"
       THEN Flush(job[j].copy, Edited(j))
       ELSE UNCHANGED row
    /\ UNCHANGED <<provider, proved>>

Delete(j) ==
    /\ job[j].kind = "delete" /\ job[j].step = "loaded"
    /\ Step(j, "done")
    /\ row' = [row EXCEPT !.stored = "deleted"]
    /\ UNCHANGED <<provider, proved>>

(* What the provider is asked: the account as it was loaded, or the key that *)
(* is to replace its key.                                                    *)
Asked(j) ==
    IF job[j].kind = "replace" THEN <<job[j].settings, job[j].key>> ELSE Pair(job[j].copy)

HasKey(j) == provider = "oci" => Asked(j)[2] # "none"

(* The provider accepts it, or refuses, or cannot be reached. *)
Validate(j) ==
    /\ job[j].kind \in {"test", "replace", "collect"} /\ job[j].step = "loaded" /\ HasKey(j)
    /\ \/ Step(j, "accepted") /\ proved' = proved \cup {Asked(j)}
       \/ Step(j, "refused") /\ UNCHANGED proved
    /\ UNCHANGED <<provider, row>>

(* There is no key to test: the session is rolled back, so that the row is   *)
(* read again.                                                               *)
TestWithoutKey(j) ==
    /\ job[j].kind = "test" /\ job[j].step = "loaded" /\ ~HasKey(j)
    /\ Step(j, "done")
    /\ row' = IF row.stored = "yes" /\ row.revision = job[j].expected
              THEN [row EXCEPT !.status = "error"] ELSE row
    /\ UNCHANGED <<provider, proved>>

(* The revision the session finds in the row it locks is the one it holds.   *)
Stale(j) == provider = "oci" /\ job[j].copy.revision # job[j].expected

(* The outcome of a test is recorded. *)
RecordTest(j) ==
    /\ job[j].kind = "test" /\ job[j].step \in {"accepted", "refused"}
    /\ Step(j, "done")
    /\ IF row.stored = "yes" /\ ~Stale(j)
       THEN Flush(job[j].copy, [job[j].copy EXCEPT !.status =
                                   IF job[j].step = "accepted" THEN "connected" ELSE "error"])
       ELSE UNCHANGED row
    /\ UNCHANGED <<provider, proved>>

(* The new key takes the place of the old, with the settings it came with. A *)
(* key that was refused leaves all as it was.                                *)
Replace(j) ==
    /\ job[j].kind = "replace" /\ job[j].step \in {"accepted", "refused"}
    /\ Step(j, "done")
    /\ IF row.stored = "yes" /\ ~Stale(j) /\ job[j].step = "accepted"
       THEN Flush(job[j].copy, [job[j].copy EXCEPT !.settings = job[j].settings,
                                                   !.key = job[j].key, !.revision = @ + 1,
                                                   !.status = "connected"])
       ELSE UNCHANGED row
    /\ UNCHANGED <<provider, proved>>

(* A collection reads the row again before it marks the connection, and does *)
(* not ask what it is of now. Not every failure is one of the connection.    *)
CollectionEnds(j) ==
    /\ job[j].kind = "collect"
    /\ \/ job[j].step \in {"accepted", "refused"}
       \/ job[j].step = "loaded" /\ ~HasKey(j)
    /\ Step(j, "done")
    /\ \E status \in IF job[j].step = "accepted" THEN {"connected"} ELSE {"error", row.status} :
          row' = IF row.stored = "yes" THEN [row EXCEPT !.status = status] ELSE row
    /\ UNCHANGED <<provider, proved>>

AccountsNext ==
    \E j \in Jobs :
        \/ Create(j)
        \/ \E kind \in {"test", "delete", "collect"} : Load(j, kind, row.settings, row.key)
        \/ \E s \in Settings, k \in {row.key, "none"} : Load(j, "update", s, k)
        \/ \E s \in Settings, k \in Secrets : provider = "oci" /\ Load(j, "replace", s, k)
        \/ Update(j) \/ Delete(j) \/ Validate(j) \/ TestWithoutKey(j) \/ RecordTest(j)
        \/ Replace(j) \/ CollectionEnds(j)

AccountsSpec == AccountsInit /\ [][AccountsNext]_accountVars

-----------------------------------------------------------------------------
Unproved(r) == r.stored = "yes" /\ r.status = "connected" /\ Pair(r) \notin proved'

(* An account comes to be connected with what its provider has not accepted  *)
(* only by the answer of a request or a collection the row of which has      *)
(* changed since it was read: what is edited takes the connection with it,   *)
(* and a replaced key brings it with what it was validated with              *)
(* (_invalidate_connection_state, apply_validated_oci_replacement).          *)
ConnectedWasProved ==
    [][Unproved(row') /\ ~Unproved(row) =>
          \E j \in Jobs :
              job[j].step # "done" /\ job'[j].step = "done" /\ job[j].copy # row]_accountVars

(* "O teste captura configuration_revision, encerra a transacao antes das    *)
(* chamadas remotas e so grava o resultado se a revisao ainda for atual.     *)
(* Assim, um teste antigo nao marca uma configuracao nova como validada"     *)
(* (docs/implementation-roadmap.md:2576).                                    *)
OldTestMarksNothing ==
    [][\A j \in Jobs :
          /\ provider = "oci" /\ job[j].kind = "test"
          /\ job[j].step = "accepted" /\ job'[j].step = "done"
          /\ row.status # "connected" /\ row'.status = "connected"
          => Pair(row) = Pair(job[j].copy)]_accountVars

=============================================================================
