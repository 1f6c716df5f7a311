------------------------- MODULE ServiceUpdateCheck -------------------------
(***************************************************************************)
(* The offers of updates for installed services: the jobs that look them   *)
(* up in the registry, nightly or when asked, next to the users who choose *)
(* a version and the updates they start.  A job and an update each work on *)
(* a row they have read before a long wait, and save only the columns they *)
(* have changed.  What an update does with containers is ServiceInstall.   *)
(***************************************************************************)
EXTENDS Versions

CONSTANTS
    Service,        \* installed services
    Release,        \* the tags their registries may get, as versions
    First,          \* the tag every service starts with
    Supported,      \* tags made for this host, or that cannot be looked up
    Check,          \* check jobs that may run at a time (3 in the code)
    Client,         \* browsers with the list of services
    MaxArchChecks,  \* 10 in the code
    MaxFailures,    \* bound: requests to a registry that fail
    MaxStalls,      \* bound: restarts of the worker
    MaxUpdates      \* bound: updates started

ASSUME CheckAssumption ==
    /\ Release \subseteq Tags /\ IsFiniteSet(Release)
    /\ First \in Release
    /\ MaxArchChecks \in Nat
    /\ MaxFailures \in Nat /\ MaxStalls \in Nat /\ MaxUpdates \in Nat

VARIABLES
    tags,      \* the tags each registry has
    image,     \* container_image of each service, as its tag
    offer,     \* available_update_version of each service: none or one
    check,     \* how far each job is
    todo,      \* the services it has not come to yet
    seen,      \* the rows it has read
    found,     \* the update it has found for the service it is at
    shown,     \* the dialog of a browser: its service, and the versions to choose from
    update,    \* the update it has started
    target,    \* to which version
    row,       \* with which row
    failures, stalls, updates

rowVars == <<image, offer>>
checkVars == <<check, todo, seen, found>>
clientVars == <<shown, update, target, row>>
bounds == <<failures, stalls, updates>>
vars == <<tags, rowVars, checkVars, clientVars, bounds>>

Offer == {{}} \cup {{t} : t \in Release}
Row == [image : Release, offer : Offer]

TypeOK ==
    /\ tags \in [Service -> SUBSET Release]
    /\ image \in [Service -> Release] /\ offer \in [Service -> Offer]
    /\ check \in [Check -> {"idle", "next", "save"}]
    /\ todo \in [Check -> SUBSET Service]
    /\ seen \in [Check -> [Service -> Row]]
    /\ found \in [Check -> [service : Service, latest : Offer]]
    /\ shown \in [Client -> [service : Service, versions : SUBSET Release]]
    /\ update \in [Client -> {"none", "running"}]
    /\ target \in [Client -> Release] /\ row \in [Client -> Row]
    /\ failures \in 0 .. MaxFailures /\ stalls \in 0 .. MaxStalls
    /\ updates \in 0 .. MaxUpdates

RowOf(s) == [image |-> image[s], offer |-> offer[s]]
FirstRow == [image |-> First, offer |-> {}]
NoRows == [s \in Service |-> FirstRow]

Init ==
    /\ tags = [s \in Service |-> {First}]
    /\ image = [s \in Service |-> First]
    /\ offer = [s \in Service |-> {}]
    /\ check = [j \in Check |-> "idle"]
    /\ todo = [j \in Check |-> {}]
    /\ seen = [j \in Check |-> NoRows]
    /\ \E s \in Service :
         /\ found = [j \in Check |-> [service |-> s, latest |-> {}]]
         /\ shown = [c \in Client |-> [service |-> s, versions |-> {}]]
    /\ update = [c \in Client |-> "none"]
    /\ target = [c \in Client |-> First]
    /\ row = [c \in Client |-> FirstRow]
    /\ failures = 0 /\ stalls = 0 /\ updates = 0

\* getAvailableUpdates, for a row with this image.
UpdatesFor(s, current) == AvailableUpdates(tags[s], current, Supported, MaxArchChecks)

-----------------------------------------------------------------------------
(* The registry, and the check jobs *)

Publish(s) ==
    /\ \E t \in Release \ tags[s] : tags' = [tags EXCEPT ![s] = @ \cup {t}]
    /\ UNCHANGED <<rowVars, checkVars, clientVars, bounds>>

\* Every night, or when it is asked for.  All rows are read at once.
TakeCheck(j) ==
    /\ check[j] = "idle"
    /\ check' = [check EXCEPT ![j] = "next"]
    /\ todo' = [todo EXCEPT ![j] = Service]
    /\ seen' = [seen EXCEPT ![j] = [s \in Service |-> RowOf(s)]]
    /\ UNCHANGED <<tags, rowVars, found, clientVars, bounds>>

AskRegistry(j, s) ==
    /\ check[j] = "next" /\ s \in todo[j]
    /\ found' = [found EXCEPT ![j] =
         [service |-> s, latest |-> LatestUpdate(UpdatesFor(s, seen[j][s].image))]]
    /\ check' = [check EXCEPT ![j] = "save"]
    /\ UNCHANGED <<tags, rowVars, todo, seen, clientVars, bounds>>

\* Its service is left as it is, and the others are checked.
RegistryFails(j, s) ==
    /\ check[j] = "next" /\ s \in todo[j]
    /\ failures < MaxFailures
    /\ failures' = failures + 1
    /\ todo' = [todo EXCEPT ![j] = @ \ {s}]
    /\ UNCHANGED <<tags, rowVars, check, seen, found, clientVars, stalls, updates>>

\* Mutation: a row is saved only if an update was found.
SaveOfferFound(j) ==
    LET s == found[j].service
    IN  /\ check[j] = "save"
        /\ offer' = IF found[j].latest \in {{}, seen[j][s].offer} THEN offer
                    ELSE [offer EXCEPT ![s] = found[j].latest]
        /\ todo' = [todo EXCEPT ![j] = @ \ {s}]
        /\ found' = [found EXCEPT ![j].latest = {}]
        /\ check' = [check EXCEPT ![j] = "next"]
        /\ UNCHANGED <<tags, image, seen, clientVars, bounds>>

\* The row as it was read is saved: what is as it was then is not written.
SaveOffer(j) ==
    LET s == found[j].service
    IN  /\ check[j] = "save"
        /\ offer' = IF found[j].latest = seen[j][s].offer THEN offer
                    ELSE [offer EXCEPT ![s] = found[j].latest]
        /\ todo' = [todo EXCEPT ![j] = @ \ {s}]
        /\ found' = [found EXCEPT ![j].latest = {}]
        /\ check' = [check EXCEPT ![j] = "next"]
        /\ UNCHANGED <<tags, image, seen, clientVars, bounds>>

EndCheck(j) ==
    /\ check[j] = "next" /\ todo[j] = {}
    /\ check' = [check EXCEPT ![j] = "idle"]
    /\ seen' = [seen EXCEPT ![j] = NoRows]
    /\ UNCHANGED <<tags, rowVars, todo, found, clientVars, bounds>>

CheckStep(j) ==
    SaveOffer(j) \/ EndCheck(j) \/ \E s \in Service : AskRegistry(j, s)

\* The jobs of the worker end where they are; what they have saved stays.
WorkerRestart ==
    /\ stalls < MaxStalls
    /\ stalls' = stalls + 1
    /\ \E j \in Check : check[j] # "idle"
    /\ check' = [j \in Check |-> "idle"]
    /\ todo' = [j \in Check |-> {}]
    /\ seen' = [j \in Check |-> NoRows]
    /\ found' = [j \in Check |-> [found[j] EXCEPT !.latest = {}]]
    /\ UNCHANGED <<tags, rowVars, clientVars, failures, updates>>

-----------------------------------------------------------------------------
(* Users, and the updates they start *)

\* The dialog of a service is there while an update is offered, and starts with it.
OpenDialog(c, s) ==
    /\ update[c] = "none" /\ offer[s] # {}
    /\ shown' = [shown EXCEPT ![c] = [service |-> s, versions |-> offer[s]]]
    /\ UNCHANGED <<tags, rowVars, checkVars, update, target, row, bounds>>

\* Its list of versions is loaded when it is opened.
LoadVersions(c) ==
    LET s == shown[c].service
    IN  /\ update[c] = "none" /\ shown[c].versions # {}
        /\ shown' = [shown EXCEPT ![c].versions = @ \cup UpdatesFor(s, image[s])]
        /\ UNCHANGED <<tags, rowVars, checkVars, update, target, row, bounds>>

\* updateContainer reads the row; nothing asks whether the version is still newer.
StartUpdate(c) ==
    /\ update[c] = "none" /\ updates < MaxUpdates
    /\ updates' = updates + 1
    /\ \E t \in shown[c].versions : target' = [target EXCEPT ![c] = t]
    /\ row' = [row EXCEPT ![c] = RowOf(shown[c].service)]
    /\ update' = [update EXCEPT ![c] = "running"]
    /\ UNCHANGED <<tags, rowVars, checkVars, shown, failures, stalls>>

\* The page is loaded again.
EndUpdate(c) ==
    /\ update' = [update EXCEPT ![c] = "none"]
    /\ shown' = [shown EXCEPT ![c].versions = {}]
    /\ target' = [target EXCEPT ![c] = First]
    /\ row' = [row EXCEPT ![c] = FirstRow]

\* The offer is written if there was one in the row that was read.
CompleteUpdate(c) ==
    LET s == shown[c].service
    IN  /\ update[c] = "running"
        /\ image' = [image EXCEPT ![s] = target[c]]
        /\ offer' = IF row[c].offer = {} THEN offer ELSE [offer EXCEPT ![s] = {}]
        /\ EndUpdate(c)
        /\ UNCHANGED <<tags, checkVars, bounds>>

\* Refused, failed, rolled back or cut off: the row is left as it is.
FailUpdate(c) ==
    /\ update[c] = "running"
    /\ EndUpdate(c)
    /\ UNCHANGED <<tags, rowVars, checkVars, bounds>>

User(c) ==
    \/ LoadVersions(c) \/ StartUpdate(c) \/ CompleteUpdate(c) \/ FailUpdate(c)
    \/ \E s \in Service : OpenDialog(c, s)

Next ==
    \/ \E s \in Service : Publish(s)
    \/ \E j \in Check :
         \/ TakeCheck(j) \/ CheckStep(j) \/ \E s \in Service : RegistryFails(j, s)
    \/ WorkerRestart
    \/ \E c \in Client : User(c)

Spec == Init /\ [][Next]_vars

\* The check is scheduled every night, and a job that runs goes on.
FairSpec == Spec /\ \A j \in Check : WF_vars(TakeCheck(j)) /\ WF_vars(CheckStep(j))

-----------------------------------------------------------------------------
(* Properties *)

\* An update never takes a service to another major version, whatever the dialog has shown
\* and whoever has updated it meanwhile (container_registry_service.ts:385-387).
MajorKept == [][\A s \in Service : Major(image'[s]) = Major(image[s])]_vars

\* What is offered is never of another major version than what is installed, though the
\* offer was computed for a row that may have been updated since.
OfferKeepsMajor == \A s \in Service : \A t \in offer[s] : Major(t) = Major(image[s])

\* Once registries and users come to rest, every service is offered its newest update, or
\* nothing, and no offer that was saved from an old row survives
\* (check_service_updates_job.ts:29-46).
OffersSettle ==
    \A s \in Service : <>[](offer[s] = LatestUpdate(UpdatesFor(s, image[s])))

=============================================================================
