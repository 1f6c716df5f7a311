------------------------- MODULE SystemVersionCheck -------------------------
(***************************************************************************)
(* What the server knows of its own releases: the flag and the version it  *)
(* keeps in the key-value store, the scheduled job, the checks a user      *)
(* forces, the early access setting, and the updates of the system, each   *)
(* to the version that is kept.                                            *)
(***************************************************************************)
EXTENDS Versions

CONSTANTS
    Release,     \* what may be released
    First,       \* the version that runs at first
    Force,       \* forced checks
    MaxInstalls  \* bound: updates of the system

VARIABLES
    released,         \* the releases so far
    current,          \* the version that runs
    earlyAccess,      \* system.earlyAccess
    updateAvailable,  \* system.updateAvailable
    latestVersion,    \* system.latestVersion: none or one
    job,              \* how far the check job is
    force,            \* how far each forced check is
    answer,           \* what it has found
    installs

kvVars == <<earlyAccess, updateAvailable, latestVersion>>
forceVars == <<force, answer>>
vars == <<released, current, kvVars, job, forceVars, installs>>

Init ==
    /\ released = {First} /\ current = First
    /\ earlyAccess = FALSE
    /\ updateAvailable = FALSE /\ latestVersion = {}
    /\ job = "idle"
    /\ force = [f \in Force |-> "idle"]
    /\ answer = [f \in Force |-> [available |-> FALSE, version |-> First]]
    /\ installs = 0

\* Releases come in their order.
Publish ==
    /\ \E v \in Release \ released :
         /\ \A w \in released : IsNewerVersion(v, w, TRUE)
         /\ released' = released \cup {v}
    /\ UNCHANGED <<current, kvVars, job, forceVars, installs>>

SetEarlyAccess ==
    /\ earlyAccess' = ~earlyAccess
    /\ UNCHANGED <<released, current, updateAvailable, latestVersion, job, forceVars, installs>>

-----------------------------------------------------------------------------
(* The job: it asks without force, and so is told what is kept. *)

ReadKept ==
    /\ job = "idle"
    /\ job' = IF updateAvailable THEN "idle" ELSE "none"
    /\ UNCHANGED <<released, current, kvVars, forceVars, installs>>

\* "System is up to date".
ClearAvailable ==
    /\ job = "none"
    /\ updateAvailable' = FALSE
    /\ job' = "idle"
    /\ UNCHANGED <<released, current, earlyAccess, latestVersion, forceVars, installs>>

CheckJob == ReadKept \/ ClearAvailable

-----------------------------------------------------------------------------
(* A forced check *)

Considered == {v \in released : earlyAccess \/ ~v.pre}
LatestRelease == {v \in Considered : \A w \in Considered : ~IsNewerVersion(w, v, TRUE)}

AskGitHub(f) ==
    /\ force[f] = "idle"
    /\ \E v \in LatestRelease :
         answer' = [answer EXCEPT ![f] =
           [available |-> IsNewerVersion(v, current, earlyAccess), version |-> v]]
    /\ force' = [force EXCEPT ![f] = "answered"]
    /\ UNCHANGED <<released, current, kvVars, job, installs>>

KeepAvailable(f) ==
    /\ force[f] = "answered"
    /\ updateAvailable' = answer[f].available
    /\ force' = [force EXCEPT ![f] = "half kept"]
    /\ UNCHANGED <<released, current, earlyAccess, latestVersion, job, answer, installs>>

KeepVersion(f) ==
    /\ force[f] = "half kept"
    /\ latestVersion' = {answer[f].version}
    /\ force' = [force EXCEPT ![f] = "idle"]
    /\ UNCHANGED <<released, current, earlyAccess, updateAvailable, job, answer, installs>>

ForceCheck(f) == AskGitHub(f) \/ KeepAvailable(f) \/ KeepVersion(f)

-----------------------------------------------------------------------------

\* The system is updated to the version that is kept, or to the newest image without one.
\* The requests of the server end with it.
Install ==
    /\ installs < MaxInstalls
    /\ installs' = installs + 1
    /\ current' \in IF latestVersion = {} THEN LatestRelease ELSE latestVersion
    /\ force' = [f \in Force |-> "idle"]
    /\ job' = "idle"
    /\ UNCHANGED <<released, kvVars, answer>>

Next == Publish \/ SetEarlyAccess \/ CheckJob \/ Install \/ \E f \in Force : ForceCheck(f)

Spec == Init /\ [][Next]_vars

\* The job is scheduled every 12 hours, and a forced check that has started goes on.
FairSpec ==
    /\ Spec
    /\ WF_vars(CheckJob)
    /\ \A f \in Force : WF_vars(KeepAvailable(f) \/ KeepVersion(f))

-----------------------------------------------------------------------------
(* Properties *)

\* "the CheckUpdateJob will update these values every 12 hours" (system_service.ts:328):
\* a release that is newer than what runs is noticed without a user.
ReleaseNoticed ==
    (\E v \in released : Newer(v, current))
        ~> updateAvailable \/ ~\E v \in released : Newer(v, current)

=============================================================================
