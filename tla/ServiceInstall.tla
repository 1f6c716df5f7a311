--------------------------- MODULE ServiceInstall ---------------------------
(***************************************************************************)
(* The containers behind the services: installation, forced reinstallation *)
(* and update with rollback, each a long call of the HTTP process that     *)
(* gives way at every await, and the sync that copies what Docker has into *)
(* the services table whenever a page lists the services.                  *)
(*                                                                         *)
(* Each request gets a DockerService of its own, so activeInstallations    *)
(* holds only what the request itself put there and refuses nothing; it is *)
(* left out.  Calls meet in two places: the rows, which a save overwrites  *)
(* only in the columns it changed, and the container names.                *)
(***************************************************************************)
EXTENDS Naturals

CONSTANTS
    Service,
    DependsOn,    \* the service a service needs first, or None
    Call,         \* requests, each made at most once
    Offers,       \* the operations requested of each service (OperationKinds)
    Syncs,        \* whether the services are listed meanwhile
    Preinstalled, \* the services that are installed and running at the start
    Faults,       \* what Docker may fail at (FaultKinds)
    Seed,         \* the container of a preinstalled service
    None

OperationKinds == {"install", "reinstall", "update", "affect"}
FaultKinds == {"create", "start", "remove", "pull", "stop", "launch", "exit", "list"}

ASSUME ServiceAssumption ==
    /\ None \notin Service \cup Call
    /\ Seed \notin Call \cup {None}
    /\ DependsOn \in [Service -> Service \cup {None}]
    /\ \A s \in Service : DependsOn[s] # None => DependsOn[DependsOn[s]] = None
    /\ Offers \in [Service -> SUBSET OperationKinds]
    /\ Syncs \in BOOLEAN
    /\ Preinstalled \subseteq Service
    /\ Faults \subseteq FaultKinds

VARIABLES
    row,     \* the services table
    call,    \* each request: where it is and what it holds
    main,    \* the container named after the service, by the call that created it
    parked,  \* the container named <service>_old
    up       \* the containers that run

dockerVars == <<main, parked, up>>
vars == <<row, call, dockerVars>>

Row == [installed : BOOLEAN, status : {"idle", "installing", "error"}]
Container == Call \cup {Seed}

ReinstallPoints == {"mark", "list", "remove", "clear"}
CreatePoints == {"create", "start", "record"}
InstallPoints == {"save", "depend"} \cup ReinstallPoints \cup CreatePoints
CleanupPoints == {"error", "search", "discard"}
UpdatePoints == {"pull", "stop", "park", "replace", "launch", "check", "drop", "undo",
                 "restore", "relaunch"}
SyncPoints == {"compare", "sync"}
Points == {"ready", "done"} \cup InstallPoints \cup CleanupPoints \cup UpdatePoints
              \cup SyncPoints

CallState ==
    [at : Points,
     svc : Service \cup {None},          \* the service it was asked for
     target : Service \cup {None},       \* the one it creates: that or its dependency
     saw : [Service -> Row],             \* rows as it read or last saved them
     found : Container \cup {None},      \* the container it looked up
     again : BOOLEAN,                    \* in the second cleanup of a failure
     listed : SUBSET Service,            \* sync: services with a container
     todo : SUBSET Service]              \* sync: rows not yet dealt with

TypeOK ==
    /\ row \in [Service -> Row]
    /\ call \in [Call -> CallState]
    /\ main \in [Service -> Container \cup {None}]
    /\ parked \in [Service -> Container \cup {None}]
    /\ up \subseteq Service \X Container
    /\ \A c \in Call :
         /\ call[c].at \in InstallPoints \cup CleanupPoints \cup UpdatePoints
              => call[c].svc \in Service
         /\ call[c].at \in CreatePoints \cup CleanupPoints => call[c].target \in Service

Init ==
    /\ row = [s \in Service |-> [installed |-> s \in Preinstalled, status |-> "idle"]]
    /\ call = [c \in Call |->
                 [at |-> "ready", svc |-> None, target |-> None, saw |-> row,
                  found |-> None, again |-> FALSE, listed |-> {}, todo |-> {}]]
    /\ main = [s \in Service |-> IF s \in Preinstalled THEN Seed ELSE None]
    /\ parked = [s \in Service |-> None]
    /\ up = Preinstalled \X {Seed}

-----------------------------------------------------------------------------
(* Docker and the rows *)

Exists(s, id) == id # None /\ id \in {main[s], parked[s]}

\* A container is removed by its id, whatever its name is by now.
Remove(s, id) ==
    /\ main' = [main EXCEPT ![s] = IF @ = id THEN None ELSE @]
    /\ parked' = [parked EXCEPT ![s] = IF @ = id THEN None ELSE @]
    /\ up' = up \ {<<s, id>>}

\* ... if Docker does it, or no more than stops it; nobody gives up at a failure.
TryRemove(s, id) ==
    \/ id # None /\ Remove(s, id)
    \/ id = None /\ UNCHANGED dockerVars
    \/ "remove" \in Faults /\ up' \in {up, up \ {<<s, id>>}} /\ UNCHANGED <<main, parked>>

\* Docker starts what exists and does not run, and answers anything else with an error.
CanRun(s, id) == Exists(s, id) /\ <<s, id>> \notin up

Run(s, id) == up' = up \cup {<<s, id>>} /\ UNCHANGED <<main, parked>>

\* What a search for the service's container finds.
Listed(s) == {main[s]} \cup (IF "list" \in Faults THEN {None} ELSE {})

\* The rows as call c knows them, once s is r to it.
Seen(c, s, r) == [call[c].saw EXCEPT ![s] = r]

\* save() writes the columns that differ from what the call read.
Save(c, s, new) ==
    LET old == call[c].saw[s]
    IN  row' = [row EXCEPT ![s] =
                  [installed |-> IF new.installed # old.installed THEN new.installed
                                 ELSE @.installed,
                   status |-> IF new.status # old.status THEN new.status ELSE @.status]]

GoTo(c, from, to) ==
    /\ call[c].at = from
    /\ call' = [call EXCEPT ![c].at = to]

-----------------------------------------------------------------------------
(* createContainerPreflight *)

Install(c, s) ==
    /\ "install" \in Offers[s]
    /\ call[c].at = "ready"
    /\ ~row[s].installed
    /\ row[s].status # "installing"
    /\ call' = [call EXCEPT ![c].at = "save", ![c].svc = s, ![c].saw = Seen(c, s, row[s])]
    /\ UNCHANGED <<row, dockerVars>>

\* The row says "installing"; the request is answered and the creation goes on.
SaveInstalling(c) ==
    LET s == call[c].svc
        new == [call[c].saw[s] EXCEPT !.status = "installing"]
    IN  /\ call[c].at \in {"save", "mark"}
        /\ Save(c, s, new)
        /\ call' = [call EXCEPT ![c].at = IF @ = "save" THEN "depend" ELSE "list",
                                ![c].saw = Seen(c, s, new)]
        /\ UNCHANGED dockerVars

-----------------------------------------------------------------------------
(* forceReinstall *)

\* Nothing but the activeInstallations of another instance would refuse it.
Reinstall(c, s) ==
    /\ "reinstall" \in Offers[s]
    /\ call[c].at = "ready"
    /\ call' = [call EXCEPT ![c].at = "mark", ![c].svc = s, ![c].saw = Seen(c, s, row[s])]
    /\ UNCHANGED <<row, dockerVars>>

ListContainer(c) ==
    /\ call[c].at = "list"
    /\ \E found \in Listed(call[c].svc) :
         call' = [call EXCEPT ![c].at = "remove", ![c].found = found]
    /\ UNCHANGED <<row, dockerVars>>

RemoveContainer(c) ==
    /\ GoTo(c, "remove", "clear")
    /\ TryRemove(call[c].svc, call[c].found)
    /\ UNCHANGED row

ClearInstalled(c) ==
    LET s == call[c].svc
        new == [installed |-> FALSE, status |-> "installing"]
    IN  /\ call[c].at = "clear"
        /\ Save(c, s, new)
        /\ call' = [call EXCEPT ![c].at = "depend", ![c].saw = Seen(c, s, new)]
        /\ UNCHANGED dockerVars

-----------------------------------------------------------------------------
(* _createContainer *)

\* Mutation: a service without a dependency is not told from one with.
DependUnchecked(c) ==
    LET d == DependsOn[call[c].svc]
    IN  /\ call[c].at = "depend"
        /\ call' = [call EXCEPT ![c].at = "create", ![c].target = d]
        /\ UNCHANGED <<row, dockerVars>>

\* A dependency that is not installed comes first, and passes no preflight.
Depend(c) ==
    LET s == call[c].svc
        d == DependsOn[s]
    IN  /\ call[c].at = "depend"
        /\ \/ /\ d # None
              /\ ~row[d].installed
              /\ call' = [call EXCEPT ![c].at = "create", ![c].target = d,
                                      ![c].saw = Seen(c, d, row[d])]
           \/ /\ d # None => row[d].installed
              /\ call' = [call EXCEPT ![c].at = "create", ![c].target = s]
        /\ UNCHANGED <<row, dockerVars>>

\* From the image check to createContainer.  Docker refuses a name in use; a failed
\* download before it has the same end.
Create(c) ==
    LET s == call[c].target
    IN  /\ \/ /\ GoTo(c, "create", "start")
              /\ main[s] = None
              /\ main' = [main EXCEPT ![s] = c]
           \/ /\ GoTo(c, "create", "error")
              /\ main[s] # None \/ "create" \in Faults
              /\ UNCHANGED main
        /\ UNCHANGED <<row, parked, up>>

Start(c) ==
    LET s == call[c].target
    IN  /\ \/ /\ GoTo(c, "start", "record")
              /\ CanRun(s, c)
              /\ Run(s, c)
           \/ /\ GoTo(c, "start", "error")
              /\ ~CanRun(s, c) \/ "start" \in Faults
              /\ UNCHANGED dockerVars
        /\ UNCHANGED row

\* Installed; after a dependency the service itself follows.
Record(c) ==
    LET s == call[c].target
    IN  /\ call[c].at = "record"
        /\ Save(c, s, [installed |-> TRUE, status |-> "idle"])
        /\ call' = [call EXCEPT ![c].at = IF s = call[c].svc THEN "done" ELSE "create",
                                ![c].target = call[c].svc]
        /\ UNCHANGED dockerVars

-----------------------------------------------------------------------------
(* _cleanupFailedInstallation *)

\* Mutation: the cleanup removes the container and leaves the row.
MarkErrorForgotten(c) ==
    /\ GoTo(c, "error", "search")
    /\ UNCHANGED <<row, dockerVars>>

MarkError(c) ==
    /\ GoTo(c, "error", "search")
    /\ row' = [row EXCEPT ![call[c].target].status = "error"]
    /\ UNCHANGED dockerVars

\* The container is looked up by name: it need not be the one this call created.
Search(c) ==
    /\ call[c].at = "search"
    /\ \E found \in Listed(call[c].target) :
         call' = [call EXCEPT ![c].at = "discard", ![c].found = found]
    /\ UNCHANGED <<row, dockerVars>>

\* The error is rethrown: a dependency's failure is one of its service too, and the
\* caller of _createContainer cleans up once more.
Discard(c) ==
    LET dependency == call[c].target # call[c].svc
    IN  /\ call[c].at = "discard"
        /\ TryRemove(call[c].target, call[c].found)
        /\ call' = [call EXCEPT
                      ![c].at = IF ~dependency /\ call[c].again THEN "done" ELSE "error",
                      ![c].target = call[c].svc,
                      ![c].again = ~dependency]
        /\ UNCHANGED row

-----------------------------------------------------------------------------
(* updateContainer *)

Update(c, s) ==
    /\ "update" \in Offers[s]
    /\ call[c].at = "ready"
    /\ row[s].installed
    /\ call' = [call EXCEPT ![c].at = "pull", ![c].svc = s]
    /\ UNCHANGED <<row, dockerVars>>

\* Pull, list and inspect.
FindOld(c) ==
    LET s == call[c].svc
        old == main[s]
    IN  /\ \/ /\ call[c].at = "pull"
              /\ old # None
              /\ call' = [call EXCEPT ![c].at = IF <<s, old>> \in up THEN "stop" ELSE "park",
                                      ![c].found = old]
           \/ /\ GoTo(c, "pull", "done")
              /\ old = None \/ "pull" \in Faults
        /\ UNCHANGED <<row, dockerVars>>

StopOld(c) ==
    LET s == call[c].svc
        old == call[c].found
    IN  /\ \/ /\ GoTo(c, "stop", "park")
              /\ Exists(s, old) /\ <<s, old>> \in up
              /\ up' = up \ {<<s, old>>}
           \/ /\ GoTo(c, "stop", "done")
              /\ ~Exists(s, old) \/ <<s, old>> \notin up \/ "stop" \in Faults
              /\ UNCHANGED up
        /\ UNCHANGED <<row, main, parked>>

\* Mutation: a container left under the name is removed to make room.
ParkOverwriting(c) ==
    LET s == call[c].svc
        old == call[c].found
    IN  /\ \/ /\ GoTo(c, "park", "replace")
              /\ main[s] = old
              /\ parked' = [parked EXCEPT ![s] = old]
              /\ main' = [main EXCEPT ![s] = None]
           \/ /\ GoTo(c, "park", "done")
              /\ main[s] # old
              /\ UNCHANGED <<main, parked>>
        /\ UNCHANGED <<row, up>>

\* Renaming fails if the container is gone, or parked already, or the name is taken.
Park(c) ==
    LET s == call[c].svc
        old == call[c].found
    IN  /\ \/ /\ GoTo(c, "park", "replace")
              /\ main[s] = old
              /\ parked[s] = None
              /\ parked' = [parked EXCEPT ![s] = old]
              /\ main' = [main EXCEPT ![s] = None]
           \/ /\ GoTo(c, "park", "done")
              /\ main[s] # old \/ parked[s] # None
              /\ UNCHANGED <<main, parked>>
        /\ UNCHANGED <<row, up>>

Replace(c) ==
    LET s == call[c].svc
    IN  /\ \/ /\ GoTo(c, "replace", "launch")
              /\ main[s] = None
              /\ main' = [main EXCEPT ![s] = c]
           \/ /\ GoTo(c, "replace", "restore")
              /\ main[s] # None \/ "create" \in Faults
              /\ UNCHANGED main
        /\ UNCHANGED <<row, parked, up>>

\* What start() throws ends the update where it is.
Launch(c) ==
    LET s == call[c].svc
    IN  /\ \/ /\ GoTo(c, "launch", "check")
              /\ CanRun(s, c)
              /\ Run(s, c)
           \/ /\ GoTo(c, "launch", "done")
              /\ ~CanRun(s, c) \/ "launch" \in Faults
              /\ UNCHANGED dockerVars
        /\ UNCHANGED row

\* Five seconds later: does the new container run?
CheckHealth(c) ==
    LET s == call[c].svc
        new == <<s, c>>
    IN  /\ \/ /\ GoTo(c, "check", "drop")
              /\ Exists(s, c) /\ new \in up
              /\ UNCHANGED up
           \/ /\ GoTo(c, "check", "undo")
              /\ Exists(s, c)
              /\ new \notin up \/ "exit" \in Faults
              /\ up' = up \ {new}
           \/ /\ GoTo(c, "check", "done")
              /\ ~Exists(s, c)
              /\ UNCHANGED up
        /\ UNCHANGED <<row, main, parked>>

DropOld(c) ==
    /\ GoTo(c, "drop", "done")
    /\ TryRemove(call[c].svc, parked[call[c].svc])
    /\ UNCHANGED row

UndoNew(c) ==
    /\ GoTo(c, "undo", "restore")
    /\ TryRemove(call[c].svc, c)
    /\ UNCHANGED row

RestoreOld(c) ==
    LET s == call[c].svc
        old == parked[s]
    IN  /\ \/ /\ call[c].at = "restore"
              /\ old # None
              /\ main[s] = None
              /\ main' = [main EXCEPT ![s] = old]
              /\ parked' = [parked EXCEPT ![s] = None]
              /\ call' = [call EXCEPT ![c].at = "relaunch", ![c].found = old]
           \/ /\ GoTo(c, "restore", "done")
              /\ old = None \/ main[s] # None \/ "list" \in Faults
              /\ UNCHANGED <<main, parked>>
        /\ UNCHANGED <<row, up>>

RelaunchOld(c) ==
    LET s == call[c].svc
        old == call[c].found
    IN  /\ GoTo(c, "relaunch", "done")
        /\ \/ CanRun(s, old) /\ Run(s, old)
           \/ (~CanRun(s, old) \/ "start" \in Faults) /\ UNCHANGED dockerVars
        /\ UNCHANGED row

-----------------------------------------------------------------------------
(* affectContainer, and _syncContainersWithDatabase *)

Affect(s) ==
    /\ "affect" \in Offers[s]
    /\ row[s].installed
    /\ main[s] # None
    /\ \/ up' = up \cup {<<s, main[s]>>}
       \/ up' = up \ {<<s, main[s]>>}
    /\ UNCHANGED <<row, call, main, parked>>

Sync(c) ==
    /\ Syncs
    /\ call[c].at = "ready"
    /\ call' = [call EXCEPT ![c].at = "compare", ![c].saw = row, ![c].todo = Service]
    /\ UNCHANGED <<row, dockerVars>>

\* A Docker error counts as an empty list.
Compare(c) ==
    /\ call[c].at = "compare"
    /\ \E listed \in {{s \in Service : main[s] # None}}
                       \cup (IF "list" \in Faults THEN {{}} ELSE {}) :
         call' = [call EXCEPT ![c].at = "sync", ![c].listed = listed]
    /\ UNCHANGED <<row, dockerVars>>

SyncRow(c, s) ==
    LET saw == call[c].saw[s]
        exists == s \in call[c].listed
    IN  /\ call[c].at = "sync"
        /\ s \in call[c].todo
        /\ IF saw.installed = exists
           THEN UNCHANGED row
           ELSE Save(c, s, [installed |-> exists, status |-> "idle"])
        /\ call' = [call EXCEPT ![c].at = IF call[c].todo = {s} THEN "done" ELSE "sync",
                                ![c].todo = @ \ {s}]
        /\ UNCHANGED dockerVars

-----------------------------------------------------------------------------

Creation(c) ==
    SaveInstalling(c) \/ Depend(c) \/ Create(c) \/ Start(c) \/ Record(c)
Removal(c) == ListContainer(c) \/ RemoveContainer(c) \/ ClearInstalled(c)
Cleanup(c) == MarkError(c) \/ Search(c) \/ Discard(c)
Replacement(c) ==
    \/ FindOld(c) \/ StopOld(c) \/ Park(c) \/ Replace(c) \/ Launch(c) \/ CheckHealth(c)
    \/ DropOld(c) \/ UndoNew(c) \/ RestoreOld(c) \/ RelaunchOld(c)

Next ==
    \/ \E c \in Call, s \in Service : Install(c, s) \/ Reinstall(c, s) \/ Update(c, s)
    \/ \E c \in Call : Creation(c) \/ Removal(c) \/ Cleanup(c) \/ Replacement(c)
    \/ \E c \in Call : Sync(c) \/ Compare(c) \/ \E s \in Service : SyncRow(c, s)
    \/ \E s \in Service : Affect(s)

Spec == Init /\ [][Next]_vars

-----------------------------------------------------------------------------
(* Properties *)

\* A call that will still write the status of s: it is creating s, or cleaning up
\* and has not written its last error.
Owes(c, s) ==
    /\ call[c].svc = s
    /\ \/ call[c].at \in InstallPoints
       \/ call[c].at \in CleanupPoints /\ (call[c].target # s \/ ~call[c].again)
       \/ call[c].at = "error"

\* A service shown as installing, which refuses further installs, is in the hands of a
\* call that will end that, however installs, reinstalls, failures and syncs overlap
\* (docker_service.ts:198, 215, 540, 665).
InstallingHasCall ==
    \A s \in Service : row[s].status = "installing" => \E c \in Call : Owes(c, s)

\* A service that is only ever updated: never reinstalled, nobody's dependency.
OnlyUpdated(s) ==
    /\ Offers[s] \subseteq {"update", "affect"}
    /\ \A t \in Service : DependsOn[t] # s

\* Updates never lose a service: with any number of updates of it at once, failing
\* anywhere, the container it had or its replacement is still there.  What makes this
\* work is the name <service>_old, which only one container can have.
NeverLost ==
    \A s \in Preinstalled : OnlyUpdated(s) => main[s] # None \/ parked[s] # None

\* At most one call at a time creates the container of a service.
AtMostOneInstall ==
    \A c, d \in Call :
        call[c].at \in CreatePoints /\ call[d].at \in CreatePoints
            /\ call[c].target = call[d].target => c = d

\* When no update is at work the service runs: an update that fails rolls back.
RolledBack ==
    (\A c \in Call : call[c].at \in {"ready", "done"}) =>
        \A s \in Preinstalled : <<s, main[s]>> \in up

=============================================================================
