----------------------------- MODULE AuthSessions -----------------------------
(***************************************************************************)
(* Accounts, sessions, links that set a password, and one-time codes       *)
(* (services/authentication.py, mfa.py, users.py and their routes). A      *)
(* request is authorised from what it reads; if it changes an account it   *)
(* then takes one lock, the AuthState row, and looks again. Between the    *)
(* two anything may have happened. Time is the 30 second step of codes;    *)
(* sessions, links and challenges run out at any moment. That a password   *)
(* was typed within five minutes is not tracked.                           *)
(***************************************************************************)
EXTENDS Integers, FiniteSets

CONSTANTS
    Users, First,   \* accounts; the one bootstrap_admin makes
    Requests,       \* requests in flight at a time
    MaxSessions, MaxLinks, MaxVersion, MaxSecrets, MaxCode     \* bounds

ASSUME AuthAssumption ==
    /\ First \in Users /\ "none" \notin Users /\ IsFiniteSet(Users)
    /\ {MaxSessions, MaxLinks, MaxVersion, MaxSecrets} \subseteq Nat /\ MaxCode \in Nat \ {0}

VARIABLES
    user, factor,   \* the User and MfaCredential rows
    challenge,      \* challenge[u]: the version of the open MfaChallenge, -1 without
    session, link,  \* LoginSession and AccessToken rows
    request,        \* request[r]: what the authorisation read
    clock,
    spent, reused   \* the codes accepted so far, and that one was accepted twice

authVars == <<user, factor, challenge, session, link, request, clock, spent, reused>>

SessionIds == 1..MaxSessions
LinkIds == 1..MaxLinks
Secrets == 0..MaxSecrets
NewVersions == 0..MaxVersion

AuthTypeOK ==
    /\ user \in [Users -> [exists : BOOLEAN, active : BOOLEAN, admin : BOOLEAN,
                           passwordSet : BOOLEAN, version : NewVersions]]
    /\ factor \in [Users -> [secret : Secrets, lastStep : 0..MaxCode, recovery : 0..1,
                             pending : Secrets, pendingBy : SessionIds \cup {0},
                             resetRequired : BOOLEAN]]
    /\ challenge \in [Users -> NewVersions \cup {-1}]
    /\ session \in [SessionIds -> [of : Users \cup {"none"}, version : NewVersions,
                                   live : BOOLEAN, proof : Secrets]]
    /\ link \in [LinkIds -> [of : Users \cup {"none"}, purpose : {"invite", "reset"},
                             version : NewVersions, open : BOOLEAN]]
    /\ request \in [Requests -> [kind : {"none", "login", "session"}, of : Users \cup {"none"},
                                 by : SessionIds \cup {0}, version : NewVersions,
                                 may : {"enrol", "use", "administer"}]]
    /\ clock \in 1..MaxCode
    /\ spent \subseteq Users \X Secrets \X (1..MaxCode)
    /\ reused \in BOOLEAN

NoFactor == [secret |-> 0, lastStep |-> 0, recovery |-> 0, pending |-> 0, pendingBy |-> 0,
             resetRequired |-> FALSE]
NoRequest == [kind |-> "none", of |-> "none", by |-> 0, version |-> 0, may |-> "use"]

(* bootstrap_admin, in the first migration. *)
AuthInit ==
    /\ user = [u \in Users |-> [exists |-> u = First, active |-> u = First, admin |-> u = First,
                                passwordSet |-> u = First, version |-> 0]]
    /\ factor = [u \in Users |-> NoFactor]
    /\ challenge = [u \in Users |-> -1]
    /\ session = [s \in SessionIds |-> [of |-> "none", version |-> 0, live |-> FALSE, proof |-> 0]]
    /\ link = [k \in LinkIds |->
                 [of |-> "none", purpose |-> "reset", version |-> 0, open |-> FALSE]]
    /\ request = [r \in Requests |-> NoRequest]
    /\ clock = 1
    /\ spent = {} /\ reused = FALSE

SignsIn(u) == user[u].exists /\ user[u].active /\ user[u].passwordSet

NextSession == 1 + Cardinality({s \in SessionIds : session[s].of # "none"})
NextLink == 1 + Cardinality({k \in LinkIds : link[k].of # "none"})

(* revoke_sessions, and new_session where the handler goes on to open one.  *)
Revoked(u) == [s \in SessionIds |->
                 IF session[s].of = u THEN [session[s] EXCEPT !.live = FALSE] ELSE session[s]]

Opened(S, u, version, proof) ==
    [S EXCEPT ![NextSession] = [of |-> u, version |-> version, live |-> TRUE, proof |-> proof]]

Bumped(u) == [user EXCEPT ![u].version = @ + 1]

(* What require_session lets through, the secret being the user's.          *)
Usable(s) ==
    LET u == session[s].of IN
    /\ session[s].live /\ u \in Users /\ SignsIn(u)
    /\ session[s].version = user[u].version
    /\ factor[u].secret # 0 => session[s].proof # 0

Done(r) == request' = [request EXCEPT ![r] = NoRequest]

-----------------------------------------------------------------------------
(* Codes. A code is 0 where none is needed, -1 for a recovery code.         *)

(* Mutant: the last step itself is still good. *)
MutantMatched(u, secret, last) == {c \in {clock - 1, clock, clock + 1} : c >= last} \cap 1..MaxCode

(* matched_step: a window of three steps, newer than the last one accepted. *)
Matched(u, secret, last) == {c \in {clock - 1, clock, clock + 1} : c > last} \cap 1..MaxCode

(* require_factor and verify_factor. *)
Proofs(u) ==
    IF factor[u].secret = 0 THEN {0}
    ELSE Matched(u, factor[u].secret, factor[u].lastStep)
         \cup (IF factor[u].recovery > 0 THEN {-1} ELSE {})

After(row, code) ==
    CASE code > 0 -> [row EXCEPT !.lastStep = code]
      [] code = -1 -> [row EXCEPT !.recovery = @ - 1]
      [] OTHER -> row

Spend(u, secret, code) ==
    LET used == {<<u, secret, code>>} \cap (Users \X Secrets \X (1..MaxCode))
    IN  /\ spent' = spent \cup used
        /\ reused' = (reused \/ used \cap spent # {})

Unspent == UNCHANGED <<spent, reused>>

-----------------------------------------------------------------------------
(* Authorisation. *)

(* login up to the lock: the password was right for this version. *)
TypePassword(r, u) ==
    /\ request[r].kind = "none" /\ SignsIn(u)
    /\ request' = [request EXCEPT ![r] = [NoRequest EXCEPT !.kind = "login", !.of = u,
                                                           !.version = user[u].version]]
    /\ UNCHANGED <<user, factor, challenge, session, link, clock>> /\ Unspent

(* require_session; before the factor that is asked for is enrolled only    *)
(* enrolment and logging out are allowed. mfa_required is off.              *)
Authorise(r, s) ==
    /\ request[r].kind = "none" /\ Usable(s)
    /\ LET u == session[s].of IN
       request' = [request EXCEPT ![r] =
          [kind |-> "session", of |-> u, by |-> s, version |-> user[u].version,
           may |-> IF factor[u].secret = 0 /\ factor[u].resetRequired THEN "enrol"
                   ELSE IF user[u].admin THEN "administer" ELSE "use"]]
    /\ UNCHANGED <<user, factor, challenge, session, link, clock>> /\ Unspent

(* _locked_user. *)
LockedUser(r) ==
    /\ request[r].kind = "session"
    /\ SignsIn(request[r].of) /\ user[request[r].of].version = request[r].version
    /\ session[request[r].by].live

(* require_admin, then _lock_and_recheck_admin. *)
LockedAdmin(r) ==
    LET u == request[r].of IN
    /\ request[r].may = "administer"
    /\ user[u].active /\ user[u].admin /\ user[u].version = request[r].version

(* Any refusal. *)
Refuse(r) ==
    /\ request[r].kind # "none"
    /\ Done(r)
    /\ UNCHANGED <<user, factor, challenge, session, link, clock>> /\ Unspent

-----------------------------------------------------------------------------
(* Signing in and out. *)

(* login under the lock; the session of the browser's old cookie ends.      *)
Login(r) ==
    LET u == request[r].of IN
    /\ request[r].kind = "login" /\ SignsIn(u) /\ user[u].version = request[r].version
    /\ \E old \in {{}} \cup {{s} : s \in SessionIds} :
          LET left == [s \in SessionIds |-> IF s \in old THEN [session[s] EXCEPT !.live = FALSE]
                                            ELSE session[s]]
          IN  IF factor[u].secret # 0
              THEN /\ challenge' = [challenge EXCEPT ![u] = user[u].version]
                   /\ session' = left
              ELSE /\ NextSession \in SessionIds
                   /\ session' = Opened(left, u, user[u].version, 0)
                   /\ UNCHANGED challenge
    /\ Done(r)
    /\ UNCHANGED <<user, factor, link, clock>> /\ Unspent

(* verify_login with a code that is good. *)
VerifyLogin(u) ==
    /\ challenge[u] = user[u].version /\ SignsIn(u)
    /\ factor[u].secret # 0 /\ NextSession \in SessionIds
    /\ \E code \in Proofs(u) :
          /\ factor' = [factor EXCEPT ![u] = After(@, code)]
          /\ Spend(u, factor[u].secret, code)
    /\ challenge' = [challenge EXCEPT ![u] = -1]
    /\ session' = Opened(session, u, user[u].version, factor[u].secret)
    /\ UNCHANGED <<user, link, request, clock>>

(* logout, revoke_session, revoke_one_user_session, and running out.        *)
EndSession(s) ==
    /\ session[s].live
    /\ session' = [session EXCEPT ![s].live = FALSE]
    /\ UNCHANGED <<user, factor, challenge, link, request, clock>> /\ Unspent

(* logout_all, or revoke_user_sessions by an administrator. *)
EndAllSessions(r, u) ==
    /\ LockedAdmin(r) \/ (LockedUser(r) /\ request[r].of = u)
    /\ session' = Revoked(u)
    /\ Done(r)
    /\ UNCHANGED <<user, factor, challenge, link, clock>> /\ Unspent

-----------------------------------------------------------------------------
(* One's own password and factor. *)

(* reauthenticate, and regenerate of the recovery codes. *)
Prove(r) ==
    LET u == request[r].of IN
    /\ LockedUser(r) /\ request[r].may # "enrol"
    /\ \E code \in Proofs(u), codes \in {"kept", "new"} :
          /\ codes = "new" => factor[u].secret # 0
          /\ factor' = [factor EXCEPT ![u] = IF codes = "new"
                                             THEN [After(@, code) EXCEPT !.recovery = 1]
                                             ELSE After(@, code)]
          /\ Spend(u, factor[u].secret, code)
    /\ Done(r)
    /\ UNCHANGED <<user, challenge, session, link, clock>>

ChangePassword(r) ==
    LET u == request[r].of IN
    /\ LockedUser(r) /\ request[r].may # "enrol"
    /\ user[u].version < MaxVersion
    /\ \E code \in Proofs(u) :
          /\ factor' = [factor EXCEPT ![u] = After(@, code)]
          /\ Spend(u, factor[u].secret, code)
    /\ user' = Bumped(u) /\ session' = Revoked(u)
    /\ Done(r)
    /\ UNCHANGED <<challenge, link, clock>>

Made == {factor[u].secret : u \in Users} \cup {factor[u].pending : u \in Users}
            \cup {p[2] : p \in spent}

(* setup: a fresh secret waits for the confirmation of this session.        *)
Setup(r) ==
    LET u == request[r].of IN
    /\ LockedUser(r)
    /\ \E code \in Proofs(u), fresh \in (1..MaxSecrets) \ Made :
          /\ \A i \in 1..fresh - 1 : i \in Made
          /\ factor' = [factor EXCEPT ![u] = [After(@, code) EXCEPT !.pending = fresh,
                                                            !.pendingBy = request[r].by]]
          /\ Spend(u, factor[u].secret, code)
    /\ Done(r)
    /\ UNCHANGED <<user, challenge, session, link, clock>>

(* Mutant: a new secret leaves the other sessions of the user as they are. *)
MutantEnrol(u, secret) ==
    /\ session' = Opened(session, u, user[u].version, secret)
    /\ UNCHANGED user

(* Once a secret is confirmed all sessions end, and a new one has proven it. *)
Enrol(u, secret) ==
    /\ user' = Bumped(u)
    /\ session' = Opened(Revoked(u), u, user[u].version + 1, secret)

Confirm(r) ==
    LET u == request[r].of
        secret == factor[u].pending IN
    /\ LockedUser(r) /\ secret # 0 /\ factor[u].pendingBy = request[r].by
    /\ user[u].version < MaxVersion /\ NextSession \in SessionIds
    /\ \E code \in Matched(u, secret, 0) :
          /\ factor' = [factor EXCEPT ![u] =
                [NoFactor EXCEPT !.secret = secret, !.lastStep = code, !.recovery = 1]]
          /\ Spend(u, secret, code)
    /\ Enrol(u, secret)
    /\ Done(r)
    /\ UNCHANGED <<challenge, link, clock>>

(* reset_mfa. *)
ResetFactor(u) ==
    /\ user[u].version < MaxVersion
    /\ user' = Bumped(u) /\ session' = Revoked(u)
    /\ challenge' = [challenge EXCEPT ![u] = -1]

(* admin_reset: of another account, by who has just proven a factor.        *)
AdminReset(r, u) ==
    LET a == request[r].of IN
    /\ LockedUser(r) /\ request[r].may = "administer" /\ a # u /\ SignsIn(u)
    /\ factor[a].secret # 0 /\ session[request[r].by].proof # 0
    /\ \E code \in Proofs(a) :
          /\ factor' = [factor EXCEPT ![a] = After(@, code),
                                      ![u] = [NoFactor EXCEPT !.resetRequired = TRUE]]
          /\ Spend(a, factor[a].secret, code)
    /\ ResetFactor(u)
    /\ Done(r)
    /\ UNCHANGED <<link, clock>>

(* manage.py mfa-reset, on the host. *)
HostReset(u) ==
    /\ SignsIn(u) /\ ResetFactor(u)
    /\ factor' = [factor EXCEPT ![u] = [NoFactor EXCEPT !.resetRequired = TRUE]]
    /\ UNCHANGED <<link, request, clock>> /\ Unspent

-----------------------------------------------------------------------------
(* Accounts and links. *)

(* Mutant: invited administrators count as well. *)
MutantAdmins == {u \in Users : user[u].exists /\ user[u].active /\ user[u].admin}

(* admin_count. *)
Admins == {u \in Users : SignsIn(u) /\ user[u].admin}

(* update_user: role, activity or e-mail. *)
UpdateUser(r, u) ==
    /\ LockedAdmin(r) /\ user[u].exists /\ user[u].version < MaxVersion
    /\ \E admin, active \in BOOLEAN :
          /\ SignsIn(u) /\ user[u].admin /\ ~(admin /\ active) => Cardinality(Admins) > 1
          /\ user' = [Bumped(u) EXCEPT ![u].admin = admin, ![u].active = active]
    /\ session' = Revoked(u)
    /\ Done(r)
    /\ UNCHANGED <<factor, challenge, link, clock>> /\ Unspent

(* Mutant: links issued before stay good. *)
MutantIssued(L, u, purpose) ==
    [L EXCEPT ![NextLink] = [of |-> u, purpose |-> purpose, version |-> user[u].version,
                             open |-> TRUE]]

(* issue_token. *)
Issued(L, u, purpose) ==
    [k \in LinkIds |->
        IF k = NextLink
        THEN [of |-> u, purpose |-> purpose, version |-> user[u].version, open |-> TRUE]
        ELSE IF L[k].of = u /\ L[k].purpose = purpose THEN [L[k] EXCEPT !.open = FALSE]
        ELSE L[k]]

(* create_user sets the password, invite_user issues a link to set it.      *)
AddUser(r, u) ==
    /\ LockedAdmin(r) /\ ~user[u].exists
    /\ \E admin, invited \in BOOLEAN :
          /\ user' = [user EXCEPT ![u] = [exists |-> TRUE, active |-> TRUE, admin |-> admin,
                                          passwordSet |-> ~invited, version |-> 0]]
          /\ IF invited THEN NextLink \in LinkIds /\ link' = Issued(link, u, "invite")
             ELSE UNCHANGED link
    /\ Done(r)
    /\ UNCHANGED <<factor, challenge, session, clock>> /\ Unspent

(* _issue_access. *)
IssueAccess(r, u) ==
    /\ LockedAdmin(r) /\ user[u].exists /\ user[u].active /\ NextLink \in LinkIds
    /\ link' = Issued(link, u, IF user[u].passwordSet THEN "reset" ELSE "invite")
    /\ Done(r)
    /\ UNCHANGED <<user, factor, challenge, session, clock>> /\ Unspent

(* request_password_reset by mail, and recovery_link on the host. *)
RequestReset(u) ==
    /\ SignsIn(u) /\ NextLink \in LinkIds
    /\ link' = Issued(link, u, "reset")
    /\ UNCHANGED <<user, factor, challenge, session, request, clock>> /\ Unspent

(* The conditions of _complete_access. *)
Acceptable(k) ==
    LET u == link[k].of IN
    /\ link[k].open /\ user[u].active /\ user[u].version = link[k].version
    /\ user[u].passwordSet = (link[k].purpose = "reset")

CompleteAccess(k) ==
    LET u == link[k].of IN
    /\ Acceptable(k) /\ user[u].version < MaxVersion
    /\ user' = [Bumped(u) EXCEPT ![u].passwordSet = TRUE]
    /\ session' = Revoked(u)
    /\ link' = [link EXCEPT ![k].open = FALSE]
    /\ UNCHANGED <<factor, challenge, request, clock>> /\ Unspent

-----------------------------------------------------------------------------
(* Time. *)

Tick ==
    /\ clock < MaxCode /\ clock' = clock + 1
    /\ UNCHANGED <<user, factor, challenge, session, link, request>> /\ Unspent

(* A link, a challenge or a secret that waits runs out. *)
RunOut ==
    /\ \/ \E k \in LinkIds :
             link[k].open /\ link' = [link EXCEPT ![k].open = FALSE]
             /\ UNCHANGED <<challenge, factor>>
       \/ \E u \in Users :
             challenge[u] # -1 /\ challenge' = [challenge EXCEPT ![u] = -1]
             /\ UNCHANGED <<link, factor>>
       \/ \E u \in Users :
             factor[u].pending # 0
             /\ factor' = [factor EXCEPT ![u].pending = 0, ![u].pendingBy = 0]
             /\ UNCHANGED <<link, challenge>>
    /\ UNCHANGED <<user, session, request, clock>> /\ Unspent

AuthNext ==
    \/ \E r \in Requests :
          \/ \E u \in Users : TypePassword(r, u) \/ EndAllSessions(r, u) \/ AdminReset(r, u)
                              \/ UpdateUser(r, u) \/ AddUser(r, u) \/ IssueAccess(r, u)
          \/ \E s \in SessionIds : Authorise(r, s)
          \/ Refuse(r) \/ Login(r) \/ Prove(r) \/ ChangePassword(r) \/ Setup(r) \/ Confirm(r)
    \/ \E u \in Users : VerifyLogin(u) \/ HostReset(u) \/ RequestReset(u)
    \/ \E s \in SessionIds : EndSession(s)
    \/ \E k \in LinkIds : CompleteAccess(k)
    \/ Tick \/ RunOut

AuthSpec == AuthInit /\ [][AuthNext]_authVars

-----------------------------------------------------------------------------
(* Properties. *)

(* Whatever administrators do to each other at the same time, one who can   *)
(* sign in is left (update_user, _lock_and_recheck_admin).                  *)
AdminRemains == \E u \in Users : SignsIn(u) /\ user[u].admin

(* Of all the links that were ever sent for an account at most one sets its *)
(* password, whoever asked for it and whatever happened to the account      *)
(* since (issue_token, _complete_access).                                   *)
OneLiveLink ==
    \A k, l \in LinkIds :
        link[k].of # "none" /\ link[k].of = link[l].of /\ Acceptable(k) /\ Acceptable(l) => k = l

(* A session that is let through has proven the secret its user has now,    *)
(* not one that was replaced or reset since (require_session, confirm,      *)
(* reset_mfa, verify_login).                                                *)
SessionProvesFactor ==
    \A s \in SessionIds :
        Usable(s) /\ factor[session[s].of].secret # 0 =>
            session[s].proof = factor[session[s].of].secret

(* A one-time code is accepted once, for whatever it is asked, signing in   *)
(* and enrolling included (matched_step, last_step).                        *)
CodeProvesOnce == ~reused

(* What is sent or shown to be used once, is: of the links of an account one is *)
(* live, and a code proves once, across all handlers that take either.          *)
OneTimeMeansOnce == OneLiveLink /\ CodeProvesOnce

=============================================================================
