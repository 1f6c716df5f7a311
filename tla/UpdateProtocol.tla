--------------------------- MODULE UpdateProtocol ---------------------------
(***************************************************************************)
(* What SystemUpdate promises to whoever asks for an update and watches    *)
(* its status: a request is taken while the status is at rest, a stage     *)
(* follows the one before it, an end is shown before the next request is   *)
(* taken, and only a restart breaks an update off.  Files, callers,        *)
(* containers and image tags are not part of it.                           *)
(***************************************************************************)
EXTENDS Naturals

VARIABLES
    waiting,   \* a request is waiting
    asked,     \* requests so far
    begun,     \* updates so far
    work,      \* what is being done: "update", or "none"
    stage,     \* its stage
    readable,  \* the status can be read
    restarts   \* restarts so far

protocolVars == <<waiting, asked, begun, work, stage, readable, restarts>>

Ends == {"complete", "error"}

\* What may be announced while an update is carried out.
Follows ==
    [idle       |-> {"starting"},
     starting   |-> {"pulling", "error"},
     pulling    |-> {"pulled", "error"},
     pulled     |-> {"recreating"},
     recreating |-> {"recreating", "complete", "error"},
     complete   |-> {},
     error      |-> {}]

ProtocolInit ==
    /\ waiting = FALSE /\ asked = 0
    /\ begun = 0 /\ work = "none"
    /\ stage = "idle" /\ readable = TRUE
    /\ restarts = 0

\* A request that nobody has taken yet may be replaced by another.
Ask ==
    /\ waiting' = TRUE
    /\ asked' = asked + 1
    /\ UNCHANGED <<begun, work, stage, readable, restarts>>

Take ==
    /\ waiting /\ work = "none" /\ stage = "idle" /\ readable
    /\ waiting' = FALSE
    /\ begun' = begun + 1
    /\ work' = "update"
    /\ UNCHANGED <<asked, stage, readable, restarts>>

\* The status is unreadable until the new stage is published.
Announce ==
    /\ work = "update" /\ readable
    /\ stage' \in Follows[stage]
    /\ readable' = FALSE
    /\ UNCHANGED <<waiting, asked, begun, work, restarts>>

\* Between two updates, and after a restart, the status is idle.
Rest ==
    /\ work = "none" /\ readable
    /\ stage' = "idle"
    /\ readable' = FALSE
    /\ UNCHANGED <<waiting, asked, begun, work, restarts>>

\* The update is over when its end is published.
Publish ==
    /\ ~readable
    /\ readable' = TRUE
    /\ work' = IF stage \in Ends THEN "none" ELSE work
    /\ UNCHANGED <<waiting, asked, begun, stage, restarts>>

\* A restart gives the update up; a stage it was about to publish, too.
GiveUpUpdate ==
    /\ restarts' = restarts + 1
    /\ work' = "none"
    /\ stage' = IF readable THEN stage ELSE "idle"
    /\ UNCHANGED <<waiting, asked, begun, readable>>

ProtocolNext == Ask \/ Take \/ Announce \/ Rest \/ Publish \/ GiveUpUpdate

ProtocolSpec == ProtocolInit /\ [][ProtocolNext]_protocolVars

=============================================================================
