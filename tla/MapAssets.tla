----------------------------- MODULE MapAssets -----------------------------
(***************************************************************************)
(* The base assets of the maps.  Every request that needs them looks for   *)
(* them and, if they are not there, downloads an archive to one fixed      *)
(* path, extracts and removes it; requests know nothing of each other, and *)
(* a download goes on from the size of the file it finds.  Of the archive  *)
(* it counts whether it is the whole, a beginning of it, the whole and     *)
(* more, which can be extracted though it has a wrong size, or none of     *)
(* these.                                                                  *)
(***************************************************************************)
EXTENDS Naturals

CONSTANTS
    Request,      \* requests at a time
    MaxAttempts,  \* attempts of a download (2 in the code)
    MaxErrors,    \* bound: network errors
    MaxCrashes    \* bound: restarts of the server

VARIABLES
    assets,    \* the base styles file and the assets directory
    tar,       \* the archive at its path
    stage,     \* how far each request is
    mode,      \* how it opens the archive, from the size it saw
    outdated,  \* the requests whose look at the archive is no longer true
    unlinked,  \* those that write to an archive that was removed
    holed,     \* those that write behind the end of an archive truncated since
    attempt, errors, crashes

lookVars == <<mode, outdated>>
bounds == <<errors, crashes>>
writers == <<unlinked, holed>>
vars == <<assets, tar, stage, lookVars, writers, attempt, bounds>>

Init ==
    /\ assets = "absent" /\ tar = "absent"
    /\ stage = [r \in Request |-> "idle"]
    /\ mode = [r \in Request |-> "new"]
    /\ outdated = {} /\ unlinked = {} /\ holed = {}
    /\ attempt = [r \in Request |-> 0]
    /\ errors = 0 /\ crashes = 0

GoTo(r, from, to) == stage[r] = from /\ stage' = [stage EXCEPT ![r] = to]

Writers == {r \in Request : stage[r] = "write" /\ r \notin unlinked}
Others(r) == Writers \ {r}

\* Whoever has looked at the archive, and not opened it yet, knows its old size.
Touched == outdated' = outdated \cup {q \in Request : stage[q] = "open"}

-----------------------------------------------------------------------------

\* ensureBaseAssets: only both paths are looked for, and a failed extraction may leave them.
EnsureBaseAssets(r) ==
    /\ GoTo(r, "idle", IF assets = "absent" THEN "look" ELSE "idle")
    /\ attempt' = [attempt EXCEPT ![r] = 0]
    /\ UNCHANGED <<assets, tar, lookVars, writers, bounds>>

\* What has the size of the whole is not downloaded, whatever it is, and what is too long
\* makes the server refuse the range.  What is spoilt may have any size.
LookAtArchive(r) ==
    /\ \E next \in CASE tar = "whole" -> {"extract"} [] tar = "long" -> {"idle"}
                     [] tar = "bad" -> {"extract", "idle", "open"} [] OTHER -> {"open"} :
         GoTo(r, "look", next)
    /\ mode' = [mode EXCEPT ![r] = IF tar = "absent" THEN "new" ELSE "append"]
    /\ outdated' = outdated \ {r}
    /\ UNCHANGED <<assets, tar, writers, attempt, bounds>>

\* Truncates the file; what another request still appends to it comes in between, and
\* one that writes from the start goes on at its place, behind a hole.
OpenNew(r) ==
    /\ mode[r] = "new"
    /\ tar' = IF \E q \in Others(r) : mode[q] = "append" THEN "bad" ELSE "beginning"
    /\ holed' = (holed \ {r}) \cup {q \in Others(r) : mode[q] = "new"}

\* Goes on at the size that was seen, or at the end of whatever is there by now.
OpenAppend(r) ==
    /\ mode[r] = "append"
    /\ tar' = CASE tar \in {"whole", "long"} -> "long"
                [] tar = "beginning" /\ r \notin outdated /\ Others(r) = {} -> "beginning"
                [] OTHER -> "bad"
    /\ holed' = holed \ {r}

OpenArchive(r) ==
    /\ GoTo(r, "open", "write")
    /\ OpenNew(r) \/ OpenAppend(r)
    /\ unlinked' = unlinked \ {r}
    /\ outdated' = outdated \cup {q \in Request \ {r} : stage[q] = "open"}
    /\ UNCHANGED <<assets, mode, attempt, bounds>>

\* Who writes from the start makes good what others have appended, as far as the whole
\* reaches; the hole in front of it is filled only by who truncated the file, if at all.
Written(r) ==
    IF mode[r] = "append" THEN {IF tar = "beginning" THEN "whole" ELSE tar}
    ELSE (CASE tar = "bad" -> {"whole", "long"} [] tar = "long" -> {"long"}
            [] OTHER -> {"whole"})
         \cup IF r \in holed THEN {"bad"} ELSE {}

EndDownload(r) ==
    /\ GoTo(r, "write", "extract")
    /\ IF r \in unlinked THEN UNCHANGED <<tar, holed>>
       ELSE /\ tar' \in Written(r)
            /\ holed' = IF mode[r] = "new" /\ r \notin holed THEN {} ELSE holed \ {r}
    /\ Touched
    /\ UNCHANGED <<assets, mode, unlinked, attempt, bounds>>

\* What requests that are cut off leave: the hole in front of what one has written stays.
LeftBy(S) == IF S \cap (holed \ unlinked) = {} THEN {tar} ELSE {tar, "bad"}

\* A network error is tried again, another one, of a stall among them, is not; what was
\* written stays for the next attempt.
NetworkError(r) ==
    /\ errors < MaxErrors
    /\ errors' = errors + 1
    /\ stage[r] \in {"look", "open", "write"}
    /\ attempt' = [attempt EXCEPT ![r] = @ + 1]
    /\ \E next \in IF attempt[r] + 1 < MaxAttempts THEN {"look", "idle"} ELSE {"idle"} :
         stage' = [stage EXCEPT ![r] = next]
    /\ tar' \in LeftBy({r} \cap Writers)
    /\ Touched
    /\ UNCHANGED <<assets, mode, writers, crashes>>

\* The request fails if the archive is not there or cannot be read, and leaves it there;
\* what came before the spoilt place, or the end of a beginning, is extracted.
ExtractSome(r) ==
    LET ok == tar \in {"whole", "long"}
    IN  /\ GoTo(r, "extract", IF ok THEN "extracting" ELSE "idle")
        /\ assets' \in (IF ok THEN {} ELSE {assets})
                     \cup IF assets = "absent" /\ tar # "absent" THEN {"some"} ELSE {assets}
        /\ UNCHANGED <<tar, lookVars, writers, attempt, bounds>>

\* It fails, too, if the archive is truncated meanwhile.
ExtractAll(r) ==
    LET ok == tar \in {"whole", "long", "absent"}
    IN  /\ GoTo(r, "extracting", IF ok THEN "remove" ELSE "idle")
        /\ assets' = IF ok THEN "all" ELSE assets
        /\ UNCHANGED <<tar, lookVars, writers, attempt, bounds>>

RemoveArchive(r) ==
    /\ GoTo(r, "remove", "idle")
    /\ tar' = "absent"
    /\ unlinked' = unlinked \cup Writers
    /\ Touched
    /\ UNCHANGED <<assets, mode, holed, attempt, bounds>>

\* The server restarts.
Crash ==
    /\ crashes < MaxCrashes
    /\ crashes' = crashes + 1
    /\ stage' = [r \in Request |-> "idle"]
    /\ tar' \in LeftBy(Writers)
    /\ UNCHANGED <<assets, lookVars, writers, attempt, errors>>

Handle(r) ==
    \/ LookAtArchive(r) \/ OpenArchive(r) \/ EndDownload(r)
    \/ ExtractSome(r) \/ ExtractAll(r) \/ RemoveArchive(r)

Next == Crash \/ \E r \in Request : EnsureBaseAssets(r) \/ Handle(r) \/ NetworkError(r)

Spec == Init /\ [][Next]_vars

\* Requests end, network errors do, and the user tries again.
FairSpec ==
    Spec /\ \A r \in Request : WF_vars(EnsureBaseAssets(r)) /\ WF_vars(Handle(r))

-----------------------------------------------------------------------------
(* Properties *)

\* "... could not be downloaded. Please check your connection and try again", says the
\* message of maps_controller.ts:82, though nothing sends it, since ensureBaseAssets answers
\* true or throws: with a connection, the next tries bring all of the assets.
TryAgainHelps == <>(assets = "all")

=============================================================================
