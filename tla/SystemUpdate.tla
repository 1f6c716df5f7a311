---------------------------- MODULE SystemUpdate ----------------------------
(***************************************************************************)
(* The system's update of itself.  The admin server drops a request file   *)
(* on a shared volume; a sidecar container polls for it, sets the image    *)
(* tag in compose.yml, pulls, and recreates the containers one by one, the *)
(* admin server among them.  The only thing the two share is two files,    *)
(* and each writes its file by truncating it first.                        *)
(***************************************************************************)
EXTENDS Naturals, Sequences

CONSTANTS
    Client,       \* concurrent calls of requestUpdate
    Tag,          \* image tags a request may carry
    InitialTag,   \* the tag of compose.yml at the start
    MaxRequests,  \* bound: request files written
    MaxCrashes,   \* bound: crashes of the sidecar
    Faults        \* what Docker and sed may fail at, a subset of FaultKinds

\* What jq prints for an empty request file: not even its default.
NoTag == "no tag"
FaultKinds == {"sed", "pull", "stop", "rm", "up"}
SERVICES_TO_UPDATE == <<"admin", "mysql", "redis", "dozzle">>
Services == {"admin", "mysql", "redis", "dozzle"}

ASSUME SystemUpdateAssumption ==
    /\ Tag \cap {NoTag, "absent", "torn"} = {}
    /\ InitialTag \in Tag
    /\ MaxRequests \in Nat /\ MaxCrashes \in Nat
    /\ Faults \subseteq FaultKinds

VARIABLES
    request,    \* the request file: absent, truncated, or the tag it asks for
    status,     \* the status file: truncated, or a stage
    handler,    \* how far each requestUpdate call is
    pc,         \* what the sidecar does next
    target,     \* TARGET_TAG
    svc,        \* the service the recreate loop is at
    compose,    \* the admin image tag in compose.yml
    running,    \* the tag the admin container was created with
    container,  \* the container of each service
    requested,  \* request files opened so far
    started,    \* updates started so far
    crashes     \* crashes of the sidecar so far

adminVars == <<handler, requested>>
dockerVars == <<container, running>>
sidecarVars == <<pc, target, svc, started, crashes>>
vars == <<request, status, adminVars, sidecarVars, compose, dockerVars>>

AtRest == {"idle", "complete", "error"}
Stages == AtRest \cup {"starting", "pulling", "pulled", "recreating"}
Updating == {"starting", "set tag", "pulling", "pull", "pulled", "recreating",
             "stop", "rm", "up", "complete", "failed"}
Points == {"boot", "poll", "read", "remove", "rest"} \cup Updating

TypeOK ==
    /\ request \in Tag \cup {"absent", "torn"}
    /\ status \in Stages \cup {"torn"}
    /\ handler \in [Client -> {"idle", "checked", "open", "detached"}]
    /\ pc \in Points
    /\ target \in Tag \cup {NoTag}
    /\ svc \in 1 .. Len(SERVICES_TO_UPDATE)
    /\ compose \in Tag \cup {NoTag}
    /\ running \in Tag \cup {NoTag}
    /\ container \in [Services -> {"up", "stopped", "absent"}]
    /\ requested \in 0 .. MaxRequests
    /\ started \in Nat
    /\ crashes \in 0 .. MaxCrashes
    /\ pc \in {"read", "remove"} => request # "absent"

Init ==
    /\ request = "absent"
    /\ status = "idle"
    /\ handler = [c \in Client |-> "idle"]
    /\ pc = "boot"
    /\ target = InitialTag
    /\ svc = 1
    /\ compose = InitialTag
    /\ running = InitialTag
    /\ container = [s \in Services |-> "up"]
    /\ requested = 0
    /\ started = 0
    /\ crashes = 0

-----------------------------------------------------------------------------
(* requestUpdate, in the admin container *)

\* A status that cannot be parsed counts as none, and passes.
CheckStatus(c) ==
    /\ container["admin"] = "up"
    /\ handler[c] = "idle"
    /\ requested < MaxRequests
    /\ status \in AtRest \cup {"torn"}
    /\ handler' = [handler EXCEPT ![c] = "checked"]
    /\ UNCHANGED <<request, status, requested, sidecarVars, compose, dockerVars>>

\* The version comes from the database, then writeFile truncates the request file.
OpenRequest(c) ==
    /\ handler[c] = "checked"
    /\ container["mysql"] = "up"
    /\ requested < MaxRequests
    /\ handler' = [handler EXCEPT ![c] = "open"]
    /\ request' = "torn"
    /\ requested' = requested + 1
    /\ UNCHANGED <<status, sidecarVars, compose, dockerVars>>

\* Without the database, or with the bound reached, the call ends here.
GiveUp(c) ==
    /\ handler[c] = "checked"
    /\ container["mysql"] # "up" \/ requested = MaxRequests
    /\ handler' = [handler EXCEPT ![c] = "idle"]
    /\ UNCHANGED <<request, status, requested, sidecarVars, compose, dockerVars>>

\* The contents arrive; if the file was unlinked meanwhile they are lost with it.
WriteRequest(c) ==
    /\ \/ handler[c] = "open" /\ request' \in Tag
       \/ handler[c] = "detached" /\ UNCHANGED request
    /\ handler' = [handler EXCEPT ![c] = "idle"]
    /\ UNCHANGED <<status, requested, sidecarVars, compose, dockerVars>>

-----------------------------------------------------------------------------
(* The sidecar *)

\* cat > "$STATUS_FILE": truncate, then write.
WriteStatus(at, stage, next) ==
    /\ pc = at
    /\ \/ status # "torn" /\ status' = "torn" /\ UNCHANGED pc
       \/ status = "torn" /\ status' = stage /\ pc' = next
    /\ UNCHANGED <<request, adminVars, target, svc, started, crashes, compose, dockerVars>>

GoTo(from, to) == pc = from /\ pc' = to

\* Mutation: the loop is left after one update.
PollOnce ==
    /\ started = 0
    /\ request # "absent"
    /\ GoTo("poll", "read")
    /\ UNCHANGED <<request, status, adminVars, target, svc, started, crashes, compose, dockerVars>>

Poll ==
    /\ request # "absent"
    /\ GoTo("poll", "read")
    /\ UNCHANGED <<request, status, adminVars, target, svc, started, crashes, compose, dockerVars>>

\* Mutation: the request is removed before it is read, not after.
ReadRequestRemoving ==
    /\ GoTo("read", "remove")
    /\ request' = "absent"
    /\ target' = NoTag
    /\ UNCHANGED <<status, adminVars, svc, started, crashes, compose, dockerVars>>

ReadRequest ==
    /\ GoTo("read", "remove")
    /\ target' = IF request = "torn" THEN NoTag ELSE request
    /\ UNCHANGED <<request, status, adminVars, svc, started, crashes, compose, dockerVars>>

\* Mutation: the request file is left in place.
RemoveRequestForgotten ==
    /\ GoTo("remove", "starting")
    /\ started' = started + 1
    /\ UNCHANGED <<request, status, adminVars, target, svc, crashes, compose, dockerVars>>

\* Whoever has the file open goes on writing to an unlinked file.
RemoveRequest ==
    /\ GoTo("remove", "starting")
    /\ request' = "absent"
    /\ handler' = [c \in Client |-> IF handler[c] = "open" THEN "detached" ELSE handler[c]]
    /\ started' = started + 1
    /\ UNCHANGED <<status, requested, target, svc, crashes, compose, dockerVars>>

SetTag ==
    /\ pc = "set tag"
    /\ \/ compose' = target /\ pc' = "pulling"
       \/ "sed" \in Faults /\ pc' = "failed" /\ UNCHANGED compose
    /\ UNCHANGED <<request, status, adminVars, target, svc, started, crashes, dockerVars>>

\* Mutation: a failed pull ends the update without a word.
PullSilently ==
    /\ pc = "pull"
    /\ \/ compose # NoTag /\ pc' = "pulled"
       \/ (compose = NoTag \/ "pull" \in Faults) /\ pc' = "rest"
    /\ UNCHANGED <<request, status, adminVars, target, svc, started, crashes, compose, dockerVars>>

\* Without a tag the image reference in compose.yml is no reference.
Pull ==
    /\ pc = "pull"
    /\ \/ compose # NoTag /\ pc' = "pulled"
       \/ (compose = NoTag \/ "pull" \in Faults) /\ pc' = "failed"
    /\ UNCHANGED <<request, status, adminVars, target, svc, started, crashes, compose, dockerVars>>

Service == SERVICES_TO_UPDATE[svc]

\* Stopping the admin container ends the calls it was serving.
StopService ==
    /\ GoTo("stop", "rm")
    /\ \/ /\ container' = [container EXCEPT ![Service] = IF @ = "up" THEN "stopped" ELSE @]
          /\ handler' = IF Service = "admin" THEN [c \in Client |-> "idle"] ELSE handler
       \/ "stop" \in Faults /\ UNCHANGED <<container, handler>>
    /\ UNCHANGED <<request, status, requested, target, svc, started, crashes, compose, running>>

\* rm -f does not remove a running container of a compose project.
RmService ==
    /\ GoTo("rm", "up")
    /\ \/ container' = [container EXCEPT ![Service] = IF @ = "up" THEN @ ELSE "absent"]
       \/ "rm" \in Faults /\ UNCHANGED container
    /\ UNCHANGED <<request, status, adminVars, target, svc, started, crashes, compose, running>>

Advance ==
    IF svc < Len(SERVICES_TO_UPDATE)
    THEN pc' = "recreating" /\ svc' = svc + 1
    ELSE pc' = "complete" /\ svc' = 1

\* Mutation: a service that cannot be started is logged, and the loop goes on.
UpServiceIgnoringFailure ==
    /\ pc = "up"
    /\ \/ /\ container' = [container EXCEPT ![Service] = "up"]
          /\ running' = IF Service = "admin" THEN compose ELSE running
       \/ "up" \in Faults /\ UNCHANGED dockerVars
    /\ Advance
    /\ UNCHANGED <<request, status, adminVars, target, started, crashes, compose>>

\* up -d also replaces a running container if its image changed, and its calls with it.
UpService ==
    /\ pc = "up"
    /\ \/ /\ container' = [container EXCEPT ![Service] = "up"]
          /\ running' = IF Service = "admin" THEN compose ELSE running
          /\ \/ UNCHANGED handler
             \/ Service = "admin" /\ handler' = [c \in Client |-> "idle"]
          /\ Advance
       \/ /\ "up" \in Faults
          /\ pc' = "failed" /\ svc' = 1
          /\ UNCHANGED <<dockerVars, handler>>
    /\ UNCHANGED <<request, status, requested, target, started, crashes, compose>>

\* Mutation: the sidecar does not reset the status file when it starts.
BootSilently ==
    /\ GoTo("boot", "poll")
    /\ UNCHANGED <<request, status, adminVars, target, svc, started, crashes, compose, dockerVars>>

Boot == WriteStatus("boot", "idle", "poll")

\* perform_update and the rest of the loop body; the sleeps are the time between steps.
\* The loop starts with a status write of its own, equal to the one before the loop.
PerformUpdate ==
    \/ WriteStatus("starting", "starting", "set tag")
    \/ SetTag
    \/ WriteStatus("pulling", "pulling", "pull")
    \/ Pull
    \/ WriteStatus("pulled", "pulled", "recreating")
    \/ WriteStatus("recreating", "recreating", "stop")
    \/ StopService \/ RmService \/ UpService
    \/ WriteStatus("complete", "complete", "rest")
    \/ WriteStatus("failed", "error", "rest")

Sidecar ==
    \/ Boot \/ Poll \/ ReadRequest \/ RemoveRequest
    \/ PerformUpdate
    \/ WriteStatus("rest", "idle", "poll")

\* Docker starts it again; what it was doing is forgotten.
Crash ==
    /\ crashes < MaxCrashes
    /\ crashes' = crashes + 1
    /\ pc' = "boot"
    /\ svc' = 1
    /\ UNCHANGED <<request, status, adminVars, target, started, compose, dockerVars>>

Next ==
    \/ \E c \in Client :
         CheckStatus(c) \/ OpenRequest(c) \/ GiveUp(c) \/ WriteRequest(c)
    \/ Sidecar
    \/ Crash

Spec == Init /\ [][Next]_vars

\* The sidecar's loop is sequential and restarted by Docker.
FairSpec == Spec /\ WF_vars(Sidecar)

-----------------------------------------------------------------------------
(* Properties *)

\* A request file starts at most one update, through crashes of the sidecar too
\* (update-watcher.sh:135), and no update starts without one.
AtMostOnce ==
    /\ started <= requested
    /\ request # "absent" \/ pc \in {"read", "remove"} => started < requested

\* A completed update has brought back every container and runs the tag it pulled,
\* whatever earlier updates and crashes left behind.
CompleteIsComplete ==
    status = "complete" =>
        (\A s \in Services : container[s] = "up") /\ running = compose

\* A request file is taken by the sidecar, whatever it is doing when the file appears.
RequestTaken == request # "absent" ~> request = "absent"

\* An update shown as in progress ends or is given up: requestUpdate does not refuse forever.
StatusRests == status \notin AtRest ~> status \in AtRest

\* compose.yml names an image: the tag of a request, or "latest" for want of one.
ComposeHasTag == compose # NoTag

-----------------------------------------------------------------------------
(* The protocol it implements *)

\* The stage that is being written, for each point where the file may be truncated.
Announced ==
    CASE pc = "starting"   -> "starting"
      [] pc = "pulling"    -> "pulling"
      [] pc = "pulled"     -> "pulled"
      [] pc = "recreating" -> "recreating"
      [] pc = "complete"   -> "complete"
      [] pc = "failed"     -> "error"
      [] OTHER             -> "idle"

Protocol == INSTANCE UpdateProtocol WITH
    waiting  <- request # "absent",
    asked    <- requested,
    begun    <- started,
    work     <- IF pc \in Updating THEN "update" ELSE "none",
    stage    <- IF status = "torn" THEN Announced ELSE status,
    readable <- status # "torn",
    restarts <- crashes

\* The files the two programs share keep the protocol, through crashes and races: the
\* stages requestUpdate and the update page read follow each other in order, every end is
\* written, and a request is taken only in between (update-watcher.sh:118-150).
KeepsProtocol == Protocol!ProtocolSpec

=============================================================================
