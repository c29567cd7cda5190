------------------------------- MODULE TlsApply -------------------------------
(***************************************************************************)
(* Applying an HTTPS configuration (TlsManager.apply): under a file lock   *)
(* the certificate is stored, the proxy loads the candidate, an own        *)
(* connection probes it, the configuration and a description of it are     *)
(* written, and the directories of other certificates are removed. What    *)
(* fails is undone as far as the step had got. The proxy reads the         *)
(* configuration file only when it starts (compose.yaml).                  *)
(***************************************************************************)
EXTENDS Integers, FiniteSets

CONSTANTS
    Applies,        \* calls of apply, each with a certificate directory of its own
    MaxStops        \* bound on crashes of the API and restarts of the proxy

ASSUME TlsAssumption == "baseline" \notin Applies /\ "none" \notin Applies /\ MaxStops \in Nat

VARIABLES
    apply,          \* apply[q]: how far the call is and what it found
    tlsLock,        \* who holds the file lock
    runtime,        \* the configuration the proxy runs
    config,         \* deepops/Caddyfile
    described,      \* the apply that state.json describes
    directories,    \* the certificate directories
    stops,
    disturbed       \* the proxy was restarted while an apply was at work

tlsVars == <<apply, tlsLock, runtime, config, described, directories, stops, disturbed>>

(* A configuration is named by the apply that made it.                      *)
Configs == Applies \cup {"baseline"}

TlsTypeOK ==
    /\ apply \in [Applies ->
          [step : {"new", "locked", "stored", "loaded", "probed", "configured", "described",
                   "undo", "undone", "over"},
           custom : BOOLEAN, before : Configs,
           report : {"none", "applied", "restored", "refused", "unsure"}]]
    /\ tlsLock \in Applies \cup {"none"}
    /\ runtime \in Configs /\ config \in Configs
    /\ described \in Applies \cup {"none"}
    /\ directories \subseteq Applies
    /\ stops \in 0..MaxStops /\ disturbed \in BOOLEAN

TlsInit ==
    /\ \E custom \in [Applies -> BOOLEAN] :
          apply = [q \in Applies |-> [step |-> "new", custom |-> custom[q],
                                      before |-> "baseline", report |-> "none"]]
    /\ tlsLock = "none"
    /\ runtime = "baseline" /\ config = "baseline" /\ described = "none"
    /\ directories = {}
    /\ stops = 0 /\ disturbed = FALSE

Loadable(c) == c \in {q \in Applies : apply[q].custom} => c \in directories

To(q, step) == apply' = [apply EXCEPT ![q].step = step]

End(q, report) ==
    /\ apply' = [apply EXCEPT ![q].step = "over", ![q].report = report]
    /\ tlsLock' = "none"

(* The lock is had, and what was configured is read.                        *)
LockTls(q) ==
    /\ apply[q].step = "new" /\ tlsLock = "none"
    /\ tlsLock' = q
    /\ apply' = [apply EXCEPT ![q].step = "locked", ![q].before = config]
    /\ UNCHANGED <<runtime, config, described, directories, stops, disturbed>>

(* _write_custom_files; what it wrote before an error stays.                *)
Store(q) ==
    /\ apply[q].step = "locked"
    /\ \/ /\ To(q, "stored")
          /\ directories' = IF apply[q].custom THEN directories \cup {q} ELSE directories
          /\ UNCHANGED tlsLock
       \/ /\ apply[q].custom
          /\ directories' \in {directories, directories \cup {q}}
          /\ End(q, "refused")
    /\ UNCHANGED <<runtime, config, described, stops, disturbed>>

(* The proxy takes the candidate, refuses it, or takes it and answers late. *)
LoadCandidate(q) ==
    /\ apply[q].step = "stored"
    /\ \/ /\ runtime' = q
          /\ To(q, "loaded")
          /\ UNCHANGED <<tlsLock, directories>>
       \/ /\ runtime' \in {runtime, q}
          /\ directories' = directories \ {q}
          /\ End(q, "refused")
    /\ UNCHANGED <<config, described, stops, disturbed>>

Probe(q) ==
    /\ apply[q].step = "loaded"
    /\ runtime # "baseline"
    /\ To(q, "probed")
    /\ UNCHANGED <<tlsLock, runtime, config, described, directories, stops, disturbed>>

(* The proxy is given the previous configuration back.                      *)
GoBack(q) ==
    \/ /\ Loadable(apply[q].before) /\ runtime' = apply[q].before
       /\ directories' = directories \ {q}
       /\ End(q, "restored")
    \/ /\ runtime' \in {runtime} \cup {c \in {apply[q].before} : Loadable(c)}
       /\ UNCHANGED directories
       /\ End(q, "unsure")

ProbeFails(q) ==
    /\ apply[q].step = "loaded"
    /\ GoBack(q)
    /\ UNCHANGED <<config, described, stops, disturbed>>

(* _atomic_write may fail after it replaced the file.                       *)
WriteConfig(q) ==
    /\ apply[q].step = "probed"
    /\ \/ config' = q /\ To(q, "configured")
       \/ config' \in {config, q} /\ To(q, "undo")
    /\ UNCHANGED <<tlsLock, runtime, described, directories, stops, disturbed>>

WriteState(q) ==
    /\ apply[q].step = "configured"
    /\ \/ described' = q /\ To(q, "described")
       \/ described' \in {described, q} /\ To(q, "undo")
    /\ UNCHANGED <<tlsLock, runtime, config, directories, stops, disturbed>>

(* _restore_persisted: the configuration, and not its description. An error *)
(* in it is not caught.                                                     *)
RestorePersisted(q) ==
    /\ apply[q].step = "undo"
    /\ \/ /\ config' = apply[q].before
          /\ To(q, "undone")
          /\ UNCHANGED tlsLock
       \/ config' \in {config, apply[q].before} /\ End(q, "unsure")
    /\ UNCHANGED <<runtime, described, directories, stops, disturbed>>

PersistFails(q) ==
    /\ apply[q].step = "undone"
    /\ GoBack(q)
    /\ UNCHANGED <<config, described, stops, disturbed>>

(* Mutant: nothing is kept for an automatic certificate or a custom one. *)
MutantKept(q) == {}

Kept(q) == IF apply[q].custom THEN {q} ELSE {}

(* _cleanup_certificates, as far as it gets.                                *)
Cleanup(q) ==
    /\ apply[q].step = "described"
    /\ directories' \in {D \cup (directories \cap Kept(q)) : D \in SUBSET directories}
    /\ End(q, "applied")
    /\ UNCHANGED <<runtime, config, described, stops, disturbed>>

(* The API dies in the middle; the file lock goes with it.                  *)
CrashApply(q) ==
    /\ tlsLock = q
    /\ stops < MaxStops /\ stops' = stops + 1
    /\ End(q, "unsure")
    /\ UNCHANGED <<runtime, config, described, directories, disturbed>>

(* A proxy whose file names a missing certificate does not start at all.    *)
RestartProxy ==
    /\ stops < MaxStops /\ stops' = stops + 1
    /\ Loadable(config) /\ runtime' = config
    /\ disturbed' = (disturbed \/ tlsLock # "none")
    /\ UNCHANGED <<apply, tlsLock, config, described, directories>>

TlsNext ==
    \/ \E q \in Applies :
          \/ LockTls(q) \/ Store(q) \/ LoadCandidate(q) \/ Probe(q) \/ ProbeFails(q)
          \/ WriteConfig(q) \/ WriteState(q) \/ RestorePersisted(q) \/ PersistFails(q)
          \/ Cleanup(q) \/ CrashApply(q)
    \/ RestartProxy

TlsSpec == TlsInit /\ [][TlsNext]_tlsVars

-----------------------------------------------------------------------------
(* Properties. *)

(* The configuration a proxy would start with never names a certificate     *)
(* that was removed, whichever step of an apply failed or was cut off, and  *)
(* so the proxy can start (apply, _cleanup_certificates).                   *)
NoDanglingCertificate == Loadable(config)

Others(q, reports) ==
    tlsLock = "none" /\ \A r \in Applies \ {q} : apply[r].report \in reports

(* When the last apply reported that the new configuration is active, or    *)
(* that the previous one was restored, the proxy serves what it would serve *)
(* after a restart, which is that configuration (apply, its error paths).   *)
ReportedIsServed ==
    ~disturbed =>
        \A q \in Applies :
            /\ apply[q].report = "applied" /\ Others(q, {"none"}) =>
                  runtime = q /\ config = q /\ described = q
            /\ apply[q].report = "restored" /\ Others(q, {"none", "applied"}) =>
                  runtime = config /\ config # q

(* Both: what an apply leaves, whether it ended, failed or was cut off, can *)
(* be started from, and is what was reported.                               *)
ServedAsReported == NoDanglingCertificate /\ ReportedIsServed

=============================================================================
