------------------------ MODULE ServiceInstallProofs ------------------------
(***************************************************************************)
(* What holds of ServiceInstall for every set of services and dependencies *)
(* of them, every number of requests and every kind of Docker failure.     *)
(***************************************************************************)
EXTENDS ServiceInstall, TLAPS

\* The points a call can be at, one by one.
LEMMA PointNames ==
    {"ready", "done", "save", "depend", "mark", "list", "remove", "clear", "create", "start",
     "record", "error", "search", "discard", "pull", "stop", "park", "replace", "launch",
     "check", "drop", "undo", "restore", "relaunch", "compare", "sync"} \subseteq Points
BY DEF Points, InstallPoints, ReinstallPoints, CreatePoints, CleanupPoints, UpdatePoints,
       SyncPoints

\* The points where a call has a service in hand, and those where it has a container's.
Busy == InstallPoints \cup CleanupPoints \cup UpdatePoints
Creating == CreatePoints \cup CleanupPoints

LEMMA GroupNames ==
    /\ Busy = {"save", "depend", "mark", "list", "remove", "clear", "create", "start",
               "record", "error", "search", "discard", "pull", "stop", "park", "replace",
               "launch", "check", "drop", "undo", "restore", "relaunch"}
    /\ Creating = {"create", "start", "record", "error", "search", "discard"}
BY DEF Busy, Creating, InstallPoints, ReinstallPoints, CreatePoints, CleanupPoints,
       UpdatePoints

\* What Docker has is typed.
DockerTypeOK ==
    /\ main \in [Service -> Container \cup {None}]
    /\ parked \in [Service -> Container \cup {None}]
    /\ up \subseteq Service \X Container

\* A step moves one call; the rest of TypeOK is about what it writes.
LEMMA MoveType ==
    ASSUME TypeOK, NEW c \in Call, NEW new \in CallState, call' = [call EXCEPT ![c] = new],
           new.at \in Busy => new.svc \in Service,
           new.at \in Creating => new.target \in Service,
           row' \in [Service -> Row], DockerTypeOK'
    PROVE  TypeOK'
<1>1. call' \in [Call -> CallState]
  BY DEF TypeOK
<1>2. \A d \in Call : /\ call'[d].at \in Busy => call'[d].svc \in Service
                      /\ call'[d].at \in Creating => call'[d].target \in Service
  <2> TAKE d \in Call
  <2>1. CASE d = c  BY <2>1 DEF TypeOK
  <2>2. CASE d # c  BY <2>2 DEF TypeOK, Busy, Creating
  <2> QED BY <2>1, <2>2
<1> QED BY <1>1, <1>2 DEF TypeOK, DockerTypeOK, Busy, Creating

\* The same for a step that changes nothing of the call but where it is.
LEMMA GoToType ==
    ASSUME TypeOK, NEW c \in Call, NEW from, NEW to \in Points, GoTo(c, from, to),
           to \in Busy => from \in Busy, to \in Creating => from \in Creating,
           row' \in [Service -> Row], DockerTypeOK'
    PROVE  TypeOK'
<1> DEFINE new == [call[c] EXCEPT !.at = to]
<1>1. call[c] \in CallState /\ call[c].at = from
  BY DEF TypeOK, GoTo
<1>2. new \in CallState /\ new.at = to /\ new.svc = call[c].svc /\ new.target = call[c].target
  BY <1>1 DEF CallState
<1>3. call' = [call EXCEPT ![c] = new]
  BY DEF GoTo
<1>4. /\ new.at \in Busy => new.svc \in Service
      /\ new.at \in Creating => new.target \in Service
  BY <1>1, <1>2 DEF TypeOK, Busy, Creating
<1> HIDE DEF new
<1> QED BY <1>2, <1>3, <1>4, MoveType

\* Saving a row leaves rows.
LEMMA SaveType ==
    ASSUME TypeOK, NEW c \in Call, NEW s \in Service, NEW new \in Row, Save(c, s, new)
    PROVE  row' \in [Service -> Row]
BY DEF TypeOK, Save, Row, CallState

\* Knowing a row is knowing rows.
LEMMA SeenType ==
    ASSUME TypeOK, NEW c \in Call, NEW s \in Service, NEW r \in Row
    PROVE  Seen(c, s, r) \in [Service -> Row]
BY DEF TypeOK, CallState, Seen

\* Removing a container, and starting one, leaves containers.
LEMMA DockerType ==
    ASSUME TypeOK, NEW s \in Service, NEW id,
           \/ TryRemove(s, id)
           \/ id \in Container /\ Run(s, id)
           \/ UNCHANGED dockerVars
    PROVE  DockerTypeOK'
BY DEF TypeOK, DockerTypeOK, TryRemove, Remove, Run, dockerVars

\* The steps that begin an operation keep the types.
LEMMA BeginType ==
    ASSUME TypeOK, NEW c \in Call, NEW s \in Service,
           Install(c, s) \/ Reinstall(c, s) \/ Update(c, s)
    PROVE  TypeOK'
<1>1. /\ call[c] \in CallState /\ row[s] \in Row
      /\ "save" \in Points /\ "mark" \in Points /\ "pull" \in Points
      /\ "save" \notin Creating /\ "mark" \notin Creating /\ "pull" \notin Creating
  BY PointNames, GroupNames DEF TypeOK
<1>2. row' \in [Service -> Row] /\ DockerTypeOK'
  BY DEF Install, Reinstall, Update, TypeOK, DockerTypeOK, dockerVars
<1>3. Seen(c, s, row[s]) \in [Service -> Row]
  BY <1>1, SeenType
<1>4. CASE Install(c, s)
  <2> DEFINE new == [call[c] EXCEPT !.at = "save", !.svc = s, !.saw = Seen(c, s, row[s])]
  <2>1. new \in CallState /\ new.at = "save" /\ new.svc = s
    BY <1>1, <1>3 DEF CallState
  <2>2. call' = [call EXCEPT ![c] = new]
    BY <1>4 DEF Install
  <2> HIDE DEF new
  <2> QED BY <1>1, <1>2, <2>1, <2>2, MoveType
<1>5. CASE Reinstall(c, s)
  <2> DEFINE new == [call[c] EXCEPT !.at = "mark", !.svc = s, !.saw = Seen(c, s, row[s])]
  <2>1. new \in CallState /\ new.at = "mark" /\ new.svc = s
    BY <1>1, <1>3 DEF CallState
  <2>2. call' = [call EXCEPT ![c] = new]
    BY <1>5 DEF Reinstall
  <2> HIDE DEF new
  <2> QED BY <1>1, <1>2, <2>1, <2>2, MoveType
<1>6. CASE Update(c, s)
  <2> DEFINE new == [call[c] EXCEPT !.at = "pull", !.svc = s]
  <2>1. new \in CallState /\ new.at = "pull" /\ new.svc = s
    BY <1>1 DEF CallState
  <2>2. call' = [call EXCEPT ![c] = new]
    BY <1>6 DEF Update
  <2> HIDE DEF new
  <2> QED BY <1>1, <1>2, <2>1, <2>2, MoveType
<1> QED BY <1>4, <1>5, <1>6

\* So do the steps that create a container and record it.
LEMMA CreationType == ASSUME TypeOK, NEW c \in Call, Creation(c) PROVE TypeOK'
<1> DEFINE s == call[c].svc
           t == call[c].target
<1>1. call[c] \in CallState
  BY DEF TypeOK
<1>2. CASE SaveInstalling(c)
  <2> DEFINE saving == [call[c].saw[s] EXCEPT !.status = "installing"]
             at == IF call[c].at = "save" THEN "depend" ELSE "list"
             new == [call[c] EXCEPT !.at = at, !.saw = Seen(c, s, saving)]
  <2>1. s \in Service
    BY <1>2, GroupNames DEF SaveInstalling, TypeOK, Busy
  <2>2. saving \in Row
    BY <1>1, <2>1 DEF CallState, Row
  <2>3. row' \in [Service -> Row]
    BY <1>2, <2>1, <2>2, SaveType DEF SaveInstalling
  <2>4. Seen(c, s, saving) \in [Service -> Row]
    BY <2>1, <2>2, SeenType
  <2>5. at \in Points /\ at \notin Creating
    BY PointNames, GroupNames
  <2>6. call' = [call EXCEPT ![c] = new]
    BY <1>2 DEF SaveInstalling
  <2> HIDE DEF saving, at
  <2>7. new \in CallState /\ new.at = at /\ new.svc = s
    BY <1>1, <2>4, <2>5 DEF CallState
  <2>8. DockerTypeOK'
    BY <1>2 DEF SaveInstalling, TypeOK, DockerTypeOK, dockerVars
  <2> HIDE DEF new
  <2> QED BY <2>1, <2>3, <2>5, <2>6, <2>7, <2>8, MoveType
<1>3. CASE Depend(c)
  <2> DEFINE d == DependsOn[s]
             first == [call[c] EXCEPT !.at = "create", !.target = d,
                                      !.saw = Seen(c, d, row[d])]
             own == [call[c] EXCEPT !.at = "create", !.target = s]
  <2>1. s \in Service
    BY <1>3, GroupNames DEF Depend, TypeOK, Busy
  <2>2. row' \in [Service -> Row] /\ DockerTypeOK'
    BY <1>3 DEF Depend, TypeOK, DockerTypeOK, dockerVars
  <2>3. "create" \in Points
    BY PointNames
  <2>4. CASE d # None /\ call' = [call EXCEPT ![c] = first]
    <3>1. d \in Service
      BY <2>1, <2>4, ServiceAssumption
    <3>2. Seen(c, d, row[d]) \in [Service -> Row]
      BY <3>1, SeenType DEF TypeOK
    <3> HIDE DEF d
    <3>3. first \in CallState /\ first.svc = s /\ first.target = d
      BY <1>1, <2>3, <3>1, <3>2 DEF CallState
    <3> HIDE DEF first
    <3> QED BY <2>1, <2>2, <2>4, <3>1, <3>3, MoveType
  <2>5. CASE call' = [call EXCEPT ![c] = own]
    <3>1. own \in CallState /\ own.svc = s /\ own.target = s
      BY <1>1, <2>1, <2>3 DEF CallState
    <3> HIDE DEF own
    <3> QED BY <2>1, <2>2, <2>5, <3>1, MoveType
  <2> QED BY <1>3, <2>4, <2>5 DEF Depend
<1>4. CASE Create(c)
  <2>1. t \in Service
    BY <1>4, GroupNames DEF Create, GoTo, TypeOK, Creating
  <2>2. row' \in [Service -> Row] /\ DockerTypeOK'
    BY <1>4, <2>1 DEF Create, TypeOK, DockerTypeOK, Container
  <2> QED BY <1>4, <2>2, GoToType, PointNames, GroupNames DEF Create
<1>5. CASE Start(c)
  <2>1. t \in Service
    BY <1>5, GroupNames DEF Start, GoTo, TypeOK, Creating
  <2>2. row' \in [Service -> Row] /\ DockerTypeOK'
    BY <1>5, <2>1, DockerType DEF Start, TypeOK, Container
  <2> QED BY <1>5, <2>2, GoToType, PointNames, GroupNames DEF Start
<1>6. CASE Record(c)
  <2> DEFINE at == IF t = s THEN "done" ELSE "create"
             new == [call[c] EXCEPT !.at = at, !.target = s]
  <2>1. s \in Service /\ t \in Service
    BY <1>6, GroupNames DEF Record, TypeOK, Busy, Creating
  <2>2. row' \in [Service -> Row]
    <3>1. [installed |-> TRUE, status |-> "idle"] \in Row
      BY DEF Row
    <3> QED BY <1>6, <2>1, <3>1, SaveType DEF Record
  <2>3. at \in Points
    BY PointNames
  <2>4. call' = [call EXCEPT ![c] = new]
    BY <1>6 DEF Record
  <2> HIDE DEF at
  <2>5. new \in CallState /\ new.svc = s /\ new.target = s
    BY <1>1, <2>1, <2>3 DEF CallState
  <2>6. DockerTypeOK'
    BY <1>6 DEF Record, TypeOK, DockerTypeOK, dockerVars
  <2> HIDE DEF new
  <2> QED BY <2>1, <2>2, <2>4, <2>5, <2>6, MoveType
<1> QED BY <1>2, <1>3, <1>4, <1>5, <1>6 DEF Creation

\* So do the steps that clear away a container.
LEMMA ClearingType ==
    ASSUME TypeOK, NEW c \in Call, Removal(c) \/ Cleanup(c)
    PROVE  TypeOK'
<1> DEFINE s == call[c].svc
           t == call[c].target
<1>1. call[c] \in CallState
  BY DEF TypeOK
<1>2. \A r \in Service : Listed(r) \subseteq Container \cup {None}
  BY DEF Listed, TypeOK
<1>3. CASE ListContainer(c)
  <2>1. s \in Service
    BY <1>3, GroupNames DEF ListContainer, TypeOK, Busy
  <2>2. PICK found \in Listed(s) :
           call' = [call EXCEPT ![c] = [call[c] EXCEPT !.at = "remove", !.found = found]]
    BY <1>3 DEF ListContainer
  <2> DEFINE new == [call[c] EXCEPT !.at = "remove", !.found = found]
  <2>3. new \in CallState /\ new.at = "remove" /\ new.svc = s
    BY <1>1, <1>2, <2>1, PointNames DEF CallState
  <2>4. row' \in [Service -> Row] /\ DockerTypeOK'
    BY <1>3 DEF ListContainer, TypeOK, DockerTypeOK, dockerVars
  <2>5. call' = [call EXCEPT ![c] = new]
    BY <2>2
  <2> HIDE DEF new
  <2> QED BY <2>1, <2>3, <2>4, <2>5, MoveType, GroupNames
<1>4. CASE RemoveContainer(c)
  <2>1. s \in Service
    BY <1>4, GroupNames DEF RemoveContainer, GoTo, TypeOK, Busy
  <2>2. row' \in [Service -> Row] /\ DockerTypeOK'
    BY <1>4, <2>1, DockerType DEF RemoveContainer, TypeOK
  <2> QED BY <1>4, <2>2, GoToType, PointNames, GroupNames DEF RemoveContainer
<1>5. CASE ClearInstalled(c)
  <2> DEFINE clearing == [installed |-> FALSE, status |-> "installing"]
             new == [call[c] EXCEPT !.at = "depend", !.saw = Seen(c, s, clearing)]
  <2>1. s \in Service
    BY <1>5, GroupNames DEF ClearInstalled, TypeOK, Busy
  <2>2. clearing \in Row
    BY DEF Row
  <2>3. row' \in [Service -> Row]
    BY <1>5, <2>1, <2>2, SaveType DEF ClearInstalled
  <2>4. Seen(c, s, clearing) \in [Service -> Row]
    BY <2>1, <2>2, SeenType
  <2>5. call' = [call EXCEPT ![c] = new]
    BY <1>5 DEF ClearInstalled
  <2> HIDE DEF clearing
  <2>6. new \in CallState /\ new.at = "depend" /\ new.svc = s
    BY <1>1, <2>4, PointNames DEF CallState
  <2>7. DockerTypeOK'
    BY <1>5 DEF ClearInstalled, TypeOK, DockerTypeOK, dockerVars
  <2> HIDE DEF new
  <2> QED BY <2>1, <2>3, <2>5, <2>6, <2>7, MoveType, GroupNames
<1>6. CASE MarkError(c)
  <2>1. row' \in [Service -> Row] /\ DockerTypeOK'
    BY <1>6 DEF MarkError, TypeOK, Row, DockerTypeOK, dockerVars
  <2> QED BY <1>6, <2>1, GoToType, PointNames, GroupNames DEF MarkError
<1>7. CASE Search(c)
  <2>1. s \in Service /\ t \in Service
    BY <1>7, GroupNames DEF Search, TypeOK, Busy, Creating
  <2>2. PICK found \in Listed(t) :
           call' = [call EXCEPT ![c] = [call[c] EXCEPT !.at = "discard", !.found = found]]
    BY <1>7 DEF Search
  <2> DEFINE new == [call[c] EXCEPT !.at = "discard", !.found = found]
  <2>3. new \in CallState /\ new.svc = s /\ new.target = t
    BY <1>1, <1>2, <2>1, PointNames DEF CallState
  <2>4. row' \in [Service -> Row] /\ DockerTypeOK'
    BY <1>7 DEF Search, TypeOK, DockerTypeOK, dockerVars
  <2>5. call' = [call EXCEPT ![c] = new]
    BY <2>2
  <2> HIDE DEF new
  <2> QED BY <2>1, <2>3, <2>4, <2>5, MoveType
<1>8. CASE Discard(c)
  <2> DEFINE at == IF ~(t # s) /\ call[c].again THEN "done" ELSE "error"
             new == [call[c] EXCEPT !.at = at, !.target = s, !.again = ~(t # s)]
  <2>1. s \in Service /\ t \in Service
    BY <1>8, GroupNames DEF Discard, TypeOK, Busy, Creating
  <2>2. row' \in [Service -> Row] /\ DockerTypeOK'
    BY <1>8, <2>1, DockerType DEF Discard, TypeOK
  <2>3. call' = [call EXCEPT ![c] = new]
    BY <1>8 DEF Discard
  <2>4. at \in Points
    BY PointNames
  <2> HIDE DEF at
  <2>5. new \in CallState /\ new.svc = s /\ new.target = s
    BY <1>1, <2>1, <2>4 DEF CallState
  <2> HIDE DEF new
  <2> QED BY <2>1, <2>2, <2>3, <2>5, MoveType
<1> QED BY <1>3, <1>4, <1>5, <1>6, <1>7, <1>8 DEF Removal, Cleanup

\* So do the steps of an update.
LEMMA ReplacementType == ASSUME TypeOK, NEW c \in Call, Replacement(c) PROVE TypeOK'
<1> DEFINE s == call[c].svc
<1>1. call[c] \in CallState
  BY DEF TypeOK
<1>2. s \in Service
  BY GroupNames
     DEF Replacement, FindOld, StopOld, Park, Replace, Launch, CheckHealth, DropOld, UndoNew,
         RestoreOld, RelaunchOld, GoTo, TypeOK, Busy
<1>3. row' = row /\ row' \in [Service -> Row]
  BY DEF Replacement, FindOld, StopOld, Park, Replace, Launch, CheckHealth, DropOld, UndoNew,
         RestoreOld, RelaunchOld, TypeOK
<1>4. CASE FindOld(c)
  <2>1. DockerTypeOK'
    BY <1>4 DEF FindOld, TypeOK, DockerTypeOK, dockerVars
  <2>2. CASE GoTo(c, "pull", "done")
    BY <1>3, <2>1, <2>2, GoToType, PointNames, GroupNames
  <2>3. CASE /\ main[s] # None
             /\ call' = [call EXCEPT ![c].at = IF <<s, main[s]>> \in up THEN "stop" ELSE "park",
                                     ![c].found = main[s]]
    <3> DEFINE at == IF <<s, main[s]>> \in up THEN "stop" ELSE "park"
               new == [call[c] EXCEPT !.at = at, !.found = main[s]]
    <3>1. at \in Points /\ at \notin Creating
      BY PointNames, GroupNames
    <3>2. main[s] \in Container
      BY <1>2, <2>3 DEF TypeOK
    <3>3. call' = [call EXCEPT ![c] = new]
      BY <2>3
    <3> HIDE DEF at
    <3>4. new \in CallState /\ new.svc = s /\ new.at = at
      BY <1>1, <3>1, <3>2 DEF CallState
    <3> HIDE DEF new
    <3> QED BY <1>2, <1>3, <2>1, <3>1, <3>3, <3>4, MoveType
  <2> QED BY <1>4, <2>2, <2>3 DEF FindOld
<1>5. CASE StopOld(c)
  <2>1. DockerTypeOK'
    BY <1>5 DEF StopOld, TypeOK, DockerTypeOK
  <2> QED BY <1>3, <1>5, <2>1, GoToType, PointNames, GroupNames DEF StopOld
<1>6. CASE Park(c)
  <2>1. call[c].found \in Container \cup {None}
    BY <1>1 DEF CallState
  <2>2. DockerTypeOK'
    BY <1>2, <1>6, <2>1 DEF Park, TypeOK, DockerTypeOK
  <2> QED BY <1>3, <1>6, <2>2, GoToType, PointNames, GroupNames DEF Park
<1>7. CASE Replace(c)
  <2>1. DockerTypeOK'
    BY <1>2, <1>7 DEF Replace, TypeOK, DockerTypeOK, Container
  <2> QED BY <1>3, <1>7, <2>1, GoToType, PointNames, GroupNames DEF Replace
<1>8. CASE Launch(c)
  <2>1. DockerTypeOK'
    BY <1>2, <1>8, DockerType DEF Launch, Container
  <2> QED BY <1>3, <1>8, <2>1, GoToType, PointNames, GroupNames DEF Launch
<1>9. CASE CheckHealth(c)
  <2>1. DockerTypeOK'
    BY <1>9 DEF CheckHealth, TypeOK, DockerTypeOK
  <2> QED BY <1>3, <1>9, <2>1, GoToType, PointNames, GroupNames DEF CheckHealth
<1>10. CASE DropOld(c)
  <2>1. DockerTypeOK'
    BY <1>2, <1>10, DockerType DEF DropOld
  <2> QED BY <1>3, <1>10, <2>1, GoToType, PointNames, GroupNames DEF DropOld
<1>11. CASE UndoNew(c)
  <2>1. DockerTypeOK'
    BY <1>2, <1>11, DockerType DEF UndoNew
  <2> QED BY <1>3, <1>11, <2>1, GoToType, PointNames, GroupNames DEF UndoNew
<1>12. CASE RestoreOld(c)
  <2>1. DockerTypeOK'
    BY <1>2, <1>12 DEF RestoreOld, TypeOK, DockerTypeOK
  <2>2. CASE GoTo(c, "restore", "done")
    BY <1>3, <2>1, <2>2, GoToType, PointNames, GroupNames
  <2>3. CASE /\ parked[s] # None
             /\ call' = [call EXCEPT ![c].at = "relaunch", ![c].found = parked[s]]
    <3> DEFINE new == [call[c] EXCEPT !.at = "relaunch", !.found = parked[s]]
    <3>1. parked[s] \in Container
      BY <1>2, <2>3 DEF TypeOK
    <3>2. new \in CallState /\ new.svc = s /\ new.at = "relaunch"
      BY <1>1, <3>1, PointNames DEF CallState
    <3>3. call' = [call EXCEPT ![c] = new]
      BY <2>3
    <3> HIDE DEF new
    <3> QED BY <1>2, <1>3, <2>1, <3>2, <3>3, MoveType, GroupNames
  <2> QED BY <1>12, <2>2, <2>3 DEF RestoreOld
<1>13. CASE RelaunchOld(c)
  <2>1. call[c].found \in Container \cup {None}
    BY <1>1 DEF CallState
  <2>2. DockerTypeOK'
    BY <1>2, <1>13, <2>1, DockerType DEF RelaunchOld, CanRun, Exists
  <2> QED BY <1>3, <1>13, <2>2, GoToType, PointNames, GroupNames DEF RelaunchOld
<1> QED BY <1>4, <1>5, <1>6, <1>7, <1>8, <1>9, <1>10, <1>11, <1>12, <1>13 DEF Replacement

\* So do the steps of a sync.
LEMMA SyncType ==
    ASSUME TypeOK, NEW c \in Call,
           Sync(c) \/ Compare(c) \/ \E s \in Service : SyncRow(c, s)
    PROVE  TypeOK'
<1>1. call[c] \in CallState /\ DockerTypeOK'
  BY DEF Sync, Compare, SyncRow, TypeOK, DockerTypeOK, dockerVars
<1>2. CASE Sync(c)
  <2> DEFINE new == [call[c] EXCEPT !.at = "compare", !.saw = row, !.todo = Service]
  <2>1. new \in CallState /\ new.at = "compare"
    BY <1>1, PointNames DEF CallState, TypeOK
  <2>2. call' = [call EXCEPT ![c] = new] /\ row' \in [Service -> Row]
    BY <1>2 DEF Sync, TypeOK
  <2> HIDE DEF new
  <2> QED BY <1>1, <2>1, <2>2, MoveType, GroupNames
<1>3. CASE Compare(c)
  <2>1. PICK listed \in SUBSET Service :
           call' = [call EXCEPT ![c] = [call[c] EXCEPT !.at = "sync", !.listed = listed]]
    BY <1>3, ZenonT(40) DEF Compare
  <2> DEFINE new == [call[c] EXCEPT !.at = "sync", !.listed = listed]
  <2>2. new \in CallState /\ new.at = "sync"
    BY <1>1, PointNames DEF CallState
  <2>3. call' = [call EXCEPT ![c] = new] /\ row' \in [Service -> Row]
    BY <1>3, <2>1 DEF Compare, TypeOK
  <2> HIDE DEF new
  <2> QED BY <1>1, <2>2, <2>3, MoveType, GroupNames
<1>4. ASSUME NEW s \in Service, SyncRow(c, s) PROVE TypeOK'
  <2> DEFINE at == IF call[c].todo = {s} THEN "done" ELSE "sync"
             new == [call[c] EXCEPT !.at = at, !.todo = @ \ {s}]
             found == [installed |-> s \in call[c].listed, status |-> "idle"]
  <2>1. found \in Row
    BY DEF Row
  <2>2. row' \in [Service -> Row]
    BY <1>4, <2>1, SaveType DEF SyncRow, TypeOK
  <2>3. call' = [call EXCEPT ![c] = new]
    BY <1>4 DEF SyncRow
  <2>4. at \in Points /\ at \notin Busy \cup Creating
    BY PointNames, GroupNames
  <2> HIDE DEF at
  <2>5. new \in CallState /\ new.at = at
    BY <1>1, <2>4 DEF CallState
  <2> HIDE DEF new
  <2> QED BY <1>1, <2>2, <2>3, <2>4, <2>5, MoveType
<1> QED BY <1>2, <1>3, <1>4

\* And so does every step.
LEMMA StepType == TypeOK /\ [Next]_vars => TypeOK'
<1> SUFFICES ASSUME TypeOK, [Next]_vars PROVE TypeOK'
  OBVIOUS
<1>1. ASSUME NEW s \in Service, Affect(s) PROVE TypeOK'
  <2>1. main[s] \in Container
    BY <1>1 DEF Affect, TypeOK
  <2> QED BY <1>1, <2>1 DEF Affect, TypeOK
<1>2. CASE UNCHANGED vars
  BY <1>2 DEF vars, dockerVars, TypeOK
<1> QED BY <1>1, <1>2, BeginType, CreationType, ClearingType, ReplacementType, SyncType
        DEF Next

\* The types hold at the start.
LEMMA InitType == Init => TypeOK
<1> SUFFICES ASSUME Init PROVE TypeOK
  OBVIOUS
<1>1. row \in [Service -> Row]
  BY ServiceAssumption DEF Init, Row
<1>2. \A c \in Call : call[c] \in CallState /\ call[c].at = "ready"
  BY <1>1, PointNames DEF Init, CallState
<1>3. call \in [Call -> CallState]
  BY <1>2 DEF Init
<1>4. up \subseteq Service \X Container
  BY ServiceAssumption DEF Init, Container
<1> QED BY <1>1, <1>2, <1>3, <1>4, GroupNames DEF Init, TypeOK, Busy, Creating, Container

\* Rows, calls and containers keep to their types, whatever the calls do to each other:
\* a call that creates or removes a container always knows of which service.
THEOREM TypeCorrect == Spec => []TypeOK
BY InitType, StepType, PTL DEF Spec

-----------------------------------------------------------------------------
(* A service shown as installing is being installed *)

\* After its first save a call has the service as "installing", so that its last save
\* writes the status whatever the row says by then.
Noted == {"depend", "list", "remove", "clear", "create", "start", "record"}
SawInstalling ==
    \A c \in Call : call[c].at \in Noted => call[c].saw[call[c].svc].status = "installing"

DutyInv == TypeOK /\ SawInstalling /\ InstallingHasCall

\* The groups of points again, as the duties use them.
LEMMA DutyNames ==
    /\ InstallPoints = {"save", "mark"} \cup Noted
    /\ CleanupPoints = {"error", "search", "discard"}
BY DEF InstallPoints, ReinstallPoints, CreatePoints, CleanupPoints, Noted

\* It is enough to look at the one call that moves.
LEMMA DutyStep ==
    ASSUME DutyInv, NEW c \in Call, TypeOK',
           \A d \in Call \ {c} : call'[d] = call[d],
           call'[c].at \in Noted => call'[c].saw[call'[c].svc].status = "installing",
           \A s \in Service : row'[s].status = "installing"
                                 => row[s].status = "installing" \/ Owes(c, s)',
           \A s \in Service : Owes(c, s) => Owes(c, s)' \/ row'[s].status # "installing"
    PROVE  SawInstalling' /\ InstallingHasCall'
<1>1. SawInstalling'
  BY DEF DutyInv, SawInstalling
<1>2. ASSUME NEW s \in Service, row'[s].status = "installing"
      PROVE  \E d \in Call : Owes(d, s)'
  <2>1. CASE Owes(c, s)'
    BY <2>1
  <2>2. CASE ~Owes(c, s)'
    <3>1. PICK d \in Call : Owes(d, s)
      BY <1>2, <2>2 DEF DutyInv, InstallingHasCall
    <3>2. d # c
      BY <1>2, <2>2, <3>1
    <3> QED BY <3>1, <3>2 DEF Owes
  <2> QED BY <2>1, <2>2
<1> QED BY <1>1, <1>2 DEF InstallingHasCall

\* A save writes "installing" only if told to.
LEMMA SaveStatus ==
    ASSUME DutyInv, NEW c \in Call, NEW s \in Service, NEW new \in Row, Save(c, s, new)
    PROVE  /\ \A t \in Service \ {s} : row'[t] = row[t]
           /\ new.status # "installing" =>
                /\ row'[s].status = "installing" => row[s].status = "installing"
                /\ call[c].saw[s].status = "installing" => row'[s].status # "installing"
BY DEF Save, DutyInv, TypeOK, Row, CallState

\* A step that leaves the rows alone and the call as much at work as it was.
LEMMA QuietDuty ==
    ASSUME DutyInv, NEW c \in Call, TypeOK', UNCHANGED row,
           \A d \in Call \ {c} : call'[d] = call[d],
           call'[c].at \in Noted => call'[c].saw[call'[c].svc].status = "installing",
           \A s \in Service : Owes(c, s) => Owes(c, s)'
    PROVE  SawInstalling' /\ InstallingHasCall'
BY DutyStep

\* A call that creates a service, or clears its way, stays at work until the row is saved
\* as "idle".
LEMMA CreationDuty ==
    ASSUME DutyInv, NEW c \in Call, Creation(c) \/ Removal(c)
    PROVE  SawInstalling' /\ InstallingHasCall'
<1> DEFINE s == call[c].svc
           t == call[c].target
<1>1. TypeOK'
  BY CreationType, ClearingType DEF DutyInv
<1>2. call[c] \in CallState /\ s \in Service
  BY GroupNames
     DEF DutyInv, TypeOK, Creation, Removal, SaveInstalling, Depend, Create, Start, Record,
         ListContainer, RemoveContainer, ClearInstalled, GoTo, Busy
<1>3. \A d \in Call \ {c} : call'[d] = call[d]
  BY DEF DutyInv, TypeOK, Creation, Removal, SaveInstalling, Depend, Create, Start, Record,
         ListContainer, RemoveContainer, ClearInstalled, GoTo
<1>4. CASE SaveInstalling(c)
  <2> DEFINE saving == [call[c].saw[s] EXCEPT !.status = "installing"]
  <2>1. saving \in Row /\ saving.status = "installing"
    BY <1>2 DEF CallState, Row
  <2>2. \A r \in Service \ {s} : row'[r] = row[r]
    BY <1>2, <1>4, <2>1, SaveStatus DEF SaveInstalling
  <2>3. call'[c].svc = s /\ call'[c].at \in {"depend", "list"}
        /\ call'[c].saw = Seen(c, s, saving)
    BY <1>2, <1>4 DEF SaveInstalling, DutyInv, TypeOK, CallState
  <2>4. Seen(c, s, saving)[s] = saving
    BY <1>2 DEF Seen, CallState
  <2>5. Owes(c, s)' /\ \A r \in Service \ {s} : ~Owes(c, r)
    BY <1>2, <2>3, DutyNames DEF Owes, Noted
  <2> HIDE DEF saving
  <2> QED BY <1>1, <1>3, <2>1, <2>2, <2>3, <2>4, <2>5, DutyStep
<1>5. CASE ClearInstalled(c)
  <2> DEFINE clearing == [installed |-> FALSE, status |-> "installing"]
  <2>1. clearing \in Row /\ clearing.status = "installing"
    BY DEF Row
  <2>2. \A r \in Service \ {s} : row'[r] = row[r]
    BY <1>2, <1>5, <2>1, SaveStatus DEF ClearInstalled
  <2>3. call'[c].svc = s /\ call'[c].at = "depend" /\ call'[c].saw = Seen(c, s, clearing)
    BY <1>2, <1>5 DEF ClearInstalled, DutyInv, TypeOK, CallState
  <2>4. Seen(c, s, clearing)[s] = clearing
    BY <1>2 DEF Seen, CallState
  <2>5. Owes(c, s)' /\ \A r \in Service \ {s} : ~Owes(c, r)
    BY <1>2, <2>3, DutyNames DEF Owes, Noted
  <2> HIDE DEF clearing
  <2> QED BY <1>1, <1>3, <2>1, <2>2, <2>3, <2>4, <2>5, DutyStep
<1>6. CASE Depend(c)
  <2>1. call'[c].svc = s /\ call'[c].at = "create" /\ row' = row
    BY <1>2, <1>6 DEF Depend, DutyInv, TypeOK, CallState
  <2>2. DependsOn[s] # s
    BY <1>2, ServiceAssumption
  <2>3. call'[c].saw[s] = call[c].saw[s]
    BY <1>2, <1>6, <2>2 DEF Depend, Seen, DutyInv, TypeOK, CallState
  <2>4. call[c].saw[s].status = "installing"
    BY <1>6 DEF Depend, DutyInv, SawInstalling, Noted
  <2> QED BY <1>1, <1>3, <2>1, <2>3, <2>4, QuietDuty, DutyNames DEF Owes, Noted
<1>7. CASE Create(c) \/ Start(c) \/ ListContainer(c) \/ RemoveContainer(c)
  <2>1. /\ call'[c].svc = s /\ call'[c].saw = call[c].saw /\ row' = row
        /\ call[c].at \in Noted /\ call'[c].at \in Noted \cup {"error"}
    BY <1>2, <1>7
       DEF Create, Start, ListContainer, RemoveContainer, GoTo, DutyInv, TypeOK, CallState, Noted
  <2>2. call[c].saw[s].status = "installing"
    BY <2>1 DEF DutyInv, SawInstalling
  <2> QED BY <1>1, <1>3, <2>1, <2>2, QuietDuty, DutyNames DEF Owes
<1>8. CASE Record(c)
  <2> DEFINE done == [installed |-> TRUE, status |-> "idle"]
  <2>1. done \in Row /\ done.status # "installing"
    BY DEF Row
  <2>2. t \in Service
    BY <1>8, GroupNames DEF Record, DutyInv, TypeOK, Creating
  <2>3. /\ \A r \in Service \ {t} : row'[r] = row[r]
        /\ row'[t].status = "installing" => row[t].status = "installing"
        /\ call[c].saw[t].status = "installing" => row'[t].status # "installing"
    BY <1>8, <2>1, <2>2, SaveStatus DEF Record
  <2>4. call[c].saw[s].status = "installing"
    BY <1>8 DEF Record, DutyInv, SawInstalling, Noted
  <2>5. /\ call'[c].svc = s /\ call'[c].saw = call[c].saw
        /\ t # s => call'[c].at = "create"
        /\ t = s => call'[c].at = "done"
    BY <1>2, <1>8 DEF Record, DutyInv, TypeOK, CallState
  <2>6. \A r \in Service : Owes(c, r) => Owes(c, r)' \/ row'[r].status # "installing"
    BY <1>2, <2>3, <2>4, <2>5, DutyNames DEF Owes, Noted
  <2>7. call'[c].at \in Noted => call'[c].saw[call'[c].svc].status = "installing"
    BY <2>4, <2>5
  <2> HIDE DEF done
  <2> QED BY <1>1, <1>3, <2>3, <2>6, <2>7, DutyStep
<1> QED BY <1>4, <1>5, <1>6, <1>7, <1>8 DEF Creation, Removal

\* A cleanup is at work until it has written its last error.
LEMMA CleanupDuty ==
    ASSUME DutyInv, NEW c \in Call, Cleanup(c)
    PROVE  SawInstalling' /\ InstallingHasCall'
<1> DEFINE s == call[c].svc
           t == call[c].target
<1>1. TypeOK'
  BY ClearingType DEF DutyInv
<1>2. call[c] \in CallState /\ s \in Service /\ t \in Service
  BY GroupNames DEF DutyInv, TypeOK, Cleanup, MarkError, Search, Discard, GoTo, Busy, Creating
<1>3. \A d \in Call \ {c} : call'[d] = call[d]
  BY DEF DutyInv, TypeOK, Cleanup, MarkError, Search, Discard, GoTo
<1>4. call'[c].at \notin Noted /\ call'[c].svc = s
  BY <1>2 DEF DutyInv, TypeOK, CallState, Cleanup, MarkError, Search, Discard, GoTo, Noted
<1>5. CASE MarkError(c)
  <2>1. row'[t].status = "error" /\ \A r \in Service \ {t} : row'[r] = row[r]
    BY <1>2, <1>5 DEF MarkError, DutyInv, TypeOK, Row
  <2>2. call'[c].at = "search" /\ call'[c].target = t /\ call'[c].again = call[c].again
    BY <1>2, <1>5 DEF MarkError, GoTo, DutyInv, TypeOK, CallState
  <2>3. \A r \in Service : Owes(c, r) => Owes(c, r)' \/ row'[r].status # "installing"
    BY <1>4, <2>1, <2>2, DutyNames DEF Owes
  <2> QED BY <1>1, <1>3, <1>4, <2>1, <2>3, DutyStep
<1>6. CASE Search(c)
  <2>1. /\ call[c].at = "search" /\ call'[c].at = "discard" /\ call'[c].target = t
        /\ call'[c].again = call[c].again /\ row' = row
    BY <1>2, <1>6 DEF Search, DutyInv, TypeOK, CallState
  <2> QED BY <1>1, <1>3, <1>4, <2>1, QuietDuty, DutyNames DEF Owes, Noted
<1>7. CASE Discard(c)
  <2>1. /\ call[c].at = "discard" /\ row' = row
        /\ call'[c].at = IF t = s /\ call[c].again THEN "done" ELSE "error"
    BY <1>2, <1>7 DEF Discard, DutyInv, TypeOK, CallState
  <2> QED BY <1>1, <1>3, <1>4, <2>1, QuietDuty, DutyNames DEF Owes, Noted
<1> QED BY <1>5, <1>6, <1>7 DEF Cleanup

\* The other operations begin nothing of the kind, and a sync can only end it.
LEMMA OtherDuty ==
    ASSUME DutyInv, NEW c \in Call,
           \/ \E s \in Service : Install(c, s) \/ Reinstall(c, s) \/ Update(c, s) \/ SyncRow(c, s)
           \/ Replacement(c) \/ Sync(c) \/ Compare(c)
    PROVE  SawInstalling' /\ InstallingHasCall'
<1>1. TypeOK'
  BY BeginType, ReplacementType, SyncType DEF DutyInv
<1>2. \A d \in Call \ {c} : call'[d] = call[d]
  BY DEF DutyInv, TypeOK, Install, Reinstall, Update, SyncRow, Replacement, Sync, Compare,
         FindOld, StopOld, Park, Replace, Launch, CheckHealth, DropOld, UndoNew, RestoreOld,
         RelaunchOld, GoTo
<1>3. call[c] \in CallState
  BY DEF DutyInv, TypeOK
<1>4. call[c].at \notin InstallPoints \cup CleanupPoints /\ call'[c].at \notin Noted
  <2>1. /\ call[c].at \in {"ready", "compare", "sync"} \cup UpdatePoints
        /\ call'[c].at \in {"save", "mark", "compare", "sync", "done"} \cup UpdatePoints
    <3>1. ASSUME NEW s \in Service, Install(c, s) \/ Reinstall(c, s) \/ Update(c, s)
          PROVE  call[c].at = "ready" /\ call'[c].at \in {"save", "mark", "pull"}
      <4>1. CASE Install(c, s)    BY <1>3, <4>1 DEF Install, DutyInv, TypeOK, CallState
      <4>2. CASE Reinstall(c, s)  BY <1>3, <4>2 DEF Reinstall, DutyInv, TypeOK, CallState
      <4>3. CASE Update(c, s)     BY <1>3, <4>3 DEF Update, DutyInv, TypeOK, CallState
      <4> QED BY <3>1, <4>1, <4>2, <4>3
    <3>2. CASE Sync(c) \/ Compare(c)
      BY <1>3, <3>2 DEF Sync, Compare, DutyInv, TypeOK, CallState
    <3>3. ASSUME NEW s \in Service, SyncRow(c, s)
          PROVE  call[c].at = "sync" /\ call'[c].at \in {"sync", "done"}
      BY <1>3, <3>3 DEF SyncRow, DutyInv, TypeOK, CallState
    <3>4. CASE Replacement(c)
      <4>1. CASE FindOld(c)   BY <1>3, <4>1 DEF FindOld, GoTo, DutyInv, TypeOK, CallState, UpdatePoints
      <4>2. CASE StopOld(c)   BY <1>3, <4>2 DEF StopOld, GoTo, DutyInv, TypeOK, CallState, UpdatePoints
      <4>3. CASE Park(c)      BY <1>3, <4>3 DEF Park, GoTo, DutyInv, TypeOK, CallState, UpdatePoints
      <4>4. CASE Replace(c)   BY <1>3, <4>4 DEF Replace, GoTo, DutyInv, TypeOK, CallState, UpdatePoints
      <4>5. CASE Launch(c)    BY <1>3, <4>5 DEF Launch, GoTo, DutyInv, TypeOK, CallState, UpdatePoints
      <4>6. CASE CheckHealth(c)BY <1>3, <4>6 DEF CheckHealth, GoTo, DutyInv, TypeOK, CallState, UpdatePoints
      <4>7. CASE DropOld(c)   BY <1>3, <4>7 DEF DropOld, GoTo, DutyInv, TypeOK, CallState, UpdatePoints
      <4>8. CASE UndoNew(c)   BY <1>3, <4>8 DEF UndoNew, GoTo, DutyInv, TypeOK, CallState, UpdatePoints
      <4>9. CASE RestoreOld(c)BY <1>3, <4>9 DEF RestoreOld, GoTo, DutyInv, TypeOK, CallState, UpdatePoints
      <4>10. CASE RelaunchOld(c)BY <1>3, <4>10 DEF RelaunchOld, GoTo, DutyInv, TypeOK, CallState, UpdatePoints
      <4> QED BY <3>4, <4>1, <4>2, <4>3, <4>4, <4>5, <4>6, <4>7, <4>8, <4>9, <4>10 DEF Replacement
    <3> QED BY <3>1, <3>2, <3>3, <3>4 DEF UpdatePoints
  <2> QED BY <2>1, DutyNames DEF UpdatePoints, Noted
<1>5. \A s \in Service : ~Owes(c, s)
  BY <1>4, DutyNames DEF Owes
<1>6. CASE UNCHANGED row
  BY <1>1, <1>2, <1>4, <1>5, <1>6, QuietDuty
<1>7. ASSUME NEW s \in Service, SyncRow(c, s) PROVE SawInstalling' /\ InstallingHasCall'
  <2>1. \A r \in Service : row'[r].status = "installing" => row[r].status = "installing"
    <3> DEFINE found == [installed |-> s \in call[c].listed, status |-> "idle"]
    <3>1. found \in Row /\ found.status # "installing"
      BY DEF Row
    <3>2. CASE UNCHANGED row
      BY <3>2
    <3>3. CASE Save(c, s, found)
      <4> HIDE DEF found
      <4> QED BY <3>1, <3>3, SaveStatus
    <3> QED BY <1>7, <3>2, <3>3 DEF SyncRow
  <2> QED BY <1>1, <1>2, <1>4, <1>5, <2>1, DutyStep
<1>8. (~\E s \in Service : SyncRow(c, s)) => UNCHANGED row
  BY DEF Install, Reinstall, Update, Replacement, Sync, Compare, FindOld, StopOld, Park,
         Replace, Launch, CheckHealth, DropOld, UndoNew, RestoreOld, RelaunchOld
<1> QED BY <1>6, <1>7, <1>8

\* Whatever installs, reinstalls, cleanups, updates and syncs do to each other, a row says
\* "installing" only while a call is there that will write its status again.
THEOREM InstallingEnds == Spec => []InstallingHasCall
<1>1. Init => DutyInv
  <2> SUFFICES ASSUME Init PROVE DutyInv
    OBVIOUS
  <2>1. \A c \in Call : call[c].at = "ready"
    BY DEF Init
  <2>2. \A s \in Service : row[s].status = "idle"
    BY DEF Init
  <2> QED BY <2>1, <2>2, InitType DEF DutyInv, SawInstalling, InstallingHasCall, Noted
<1>2. DutyInv /\ [Next]_vars => DutyInv'
  <2> SUFFICES ASSUME DutyInv, [Next]_vars PROVE DutyInv'
    OBVIOUS
  <2>1. TypeOK'
    BY StepType DEF DutyInv
  <2>2. SawInstalling' /\ InstallingHasCall'
    <3>1. CASE UNCHANGED vars \/ \E s \in Service : Affect(s)
      <4>1. UNCHANGED <<row, call>>
        BY <3>1 DEF vars, Affect
      <4> QED BY <4>1 DEF DutyInv, SawInstalling, InstallingHasCall, Owes
    <3> QED BY <3>1, CreationDuty, CleanupDuty, OtherDuty DEF Next
  <2> QED BY <2>1, <2>2 DEF DutyInv
<1>3. DutyInv => InstallingHasCall
  BY DEF DutyInv
<1> QED BY <1>1, <1>2, <1>3, PTL DEF Spec

-----------------------------------------------------------------------------
(* An update never loses the service *)

\* From the moment an update has parked the old container until it is done with it.
Holding == {"replace", "launch", "check", "drop", "undo", "restore"}
Before == {"ready", "pull", "stop", "park", "replace"}
Holds(c, s) == call[c].svc = s /\ call[c].at \in Holding

\* What an update of s relies on: <s>_old is its own, since no other could have parked one
\* meanwhile, its new container has the name, and nobody else touches either.
UpdateInv(s) ==
    /\ parked[s] = None => main[s] # None
    /\ \A c \in Call :
         /\ call[c].at \in InstallPoints \cup CleanupPoints => call[c].svc # s
         /\ call[c].at \in Creating => call[c].target # s
         /\ Holds(c, s) => parked[s] \notin {None, c}
         /\ Holds(c, s) /\ call[c].at \in {"launch", "check", "drop"} => main[s] = c
         /\ call[c].at \in Before => c \notin {main[s], parked[s]}
    /\ \A c, d \in Call : Holds(c, s) /\ Holds(d, s) => c = d

\* A step that leaves the containers of s where they are, of a call that parks nothing.
LEMMA KeepsUpdate ==
    ASSUME TypeOK, NEW s \in Service, UpdateInv(s), NEW c \in Call,
           main'[s] = main[s], parked'[s] = parked[s],
           \A d \in Call \ {c} : call'[d] = call[d],
           call'[c].at \in InstallPoints \cup CleanupPoints => call'[c].svc # s,
           call'[c].at \in Creating => call'[c].target # s,
           Holds(c, s)' => Holds(c, s),
           Holds(c, s)' /\ call'[c].at \in {"launch", "check", "drop"} => main[s] = c,
           call'[c].at \in Before => call[c].at \in Before
    PROVE  UpdateInv(s)'
BY DEF UpdateInv, Holds

\* Removing a container of another service is such a step for the containers.
LEMMA RemovesElsewhere ==
    ASSUME TypeOK, NEW s \in Service, NEW t \in Service \ {s}, NEW id, TryRemove(t, id)
    PROVE  main'[s] = main[s] /\ parked'[s] = parked[s]
BY DEF TypeOK, TryRemove, Remove, dockerVars

\* Beginning an operation is one: only an update is begun on s.
LEMMA BeginUpdate ==
    ASSUME TypeOK, NEW s \in Service, OnlyUpdated(s), UpdateInv(s), NEW c \in Call,
           NEW t \in Service, Install(c, t) \/ Reinstall(c, t) \/ Update(c, t)
    PROVE  UpdateInv(s)'
<1>1. main' = main /\ parked' = parked /\ \A d \in Call \ {c} : call'[d] = call[d]
  BY DEF Install, Reinstall, Update, dockerVars, TypeOK
<1>2. call[c] \in CallState /\ call[c].at \in Before
  BY DEF Install, Reinstall, Update, TypeOK, Before
<1>3. \/ call'[c].at \in {"save", "mark"} /\ call'[c].svc = t /\ t # s
      \/ call'[c].at = "pull"
  <2>0. Install(c, t) \/ Reinstall(c, t) => t # s
    BY DEF Install, Reinstall, OnlyUpdated
  <2>1. CASE Install(c, t)
    BY <1>2, <2>0, <2>1 DEF Install, TypeOK, CallState
  <2>2. CASE Reinstall(c, t)
    BY <1>2, <2>0, <2>2 DEF Reinstall, TypeOK, CallState
  <2>3. CASE Update(c, t)
    BY <1>2, <2>3 DEF Update, TypeOK, CallState
  <2> QED BY <2>1, <2>2, <2>3
<1> QED BY <1>1, <1>2, <1>3, KeepsUpdate, GroupNames, DutyNames DEF Holds, Holding, Before, Noted

\* Creating and clearing away are such steps too, for they are about other services.
LEMMA CreationUpdate ==
    ASSUME TypeOK, NEW s \in Service, OnlyUpdated(s), UpdateInv(s), NEW c \in Call,
           Creation(c) \/ Removal(c) \/ Cleanup(c)
    PROVE  UpdateInv(s)'
<1> DEFINE r == call[c].svc
           t == call[c].target
<1>1. /\ call[c] \in CallState
      /\ call[c].at \in InstallPoints \cup CleanupPoints
      /\ call[c].at \in Busy
      /\ \A d \in Call \ {c} : call'[d] = call[d]
  BY DutyNames, GroupNames
     DEF TypeOK, Creation, Removal, Cleanup, SaveInstalling, Depend, Create, Start, Record,
         ListContainer, RemoveContainer, ClearInstalled, MarkError, Search, Discard, GoTo, Noted
<1>2. r \in Service \ {s}
  BY <1>1 DEF UpdateInv, TypeOK, Busy
<1>3. call[c].at \in Creating => t \in Service \ {s}
  BY DEF UpdateInv, TypeOK, Creating
<1>4. main'[s] = main[s] /\ parked'[s] = parked[s]
  <2>1. CASE RemoveContainer(c)
    BY <1>2, <2>1, RemovesElsewhere DEF RemoveContainer
  <2>2. CASE Discard(c)
    BY <1>3, <2>2, RemovesElsewhere, GroupNames DEF Discard
  <2>3. CASE Create(c)
    BY <1>3, <2>3, GroupNames DEF Create, GoTo, TypeOK
  <2>4. CASE ~(RemoveContainer(c) \/ Discard(c) \/ Create(c))
    BY <2>4 DEF Creation, Removal, Cleanup, SaveInstalling, Depend, Start, Run, Record,
                ListContainer, ClearInstalled, MarkError, Search, dockerVars
  <2> QED BY <2>1, <2>2, <2>3, <2>4
<1>5. call'[c].svc = r /\ call'[c].at \notin Holding \cup Before
  <2>1. CASE Creation(c)
    <3>1. CASE SaveInstalling(c)BY <1>1, <3>1 DEF TypeOK, CallState, SaveInstalling, GoTo, Holding, Before
    <3>2. CASE Depend(c)        BY <1>1, <3>2 DEF TypeOK, CallState, Depend, GoTo, Holding, Before
    <3>3. CASE Create(c)        BY <1>1, <3>3 DEF TypeOK, CallState, Create, GoTo, Holding, Before
    <3>4. CASE Start(c)         BY <1>1, <3>4 DEF TypeOK, CallState, Start, GoTo, Holding, Before
    <3>5. CASE Record(c)        BY <1>1, <3>5 DEF TypeOK, CallState, Record, GoTo, Holding, Before
    <3> QED BY <2>1, <3>1, <3>2, <3>3, <3>4, <3>5 DEF Creation
  <2>2. CASE Removal(c)
    BY <1>1, <2>2 DEF TypeOK, CallState, Removal, ListContainer, RemoveContainer,
                      ClearInstalled, GoTo, Holding, Before
  <2>3. CASE Cleanup(c)
    BY <1>1, <2>3 DEF TypeOK, CallState, Cleanup, MarkError, Search, Discard, GoTo, Holding,
                      Before
  <2> QED BY <2>1, <2>2, <2>3
<1>6. call'[c].at \in Creating => call'[c].target # s
  <2>1. CASE Depend(c)
    BY <1>1, <1>2, <2>1 DEF Depend, TypeOK, CallState, OnlyUpdated
  <2>2. CASE Record(c) \/ Discard(c)
    BY <1>1, <1>2, <2>2 DEF Record, Discard, TypeOK, CallState
  <2>3. CASE Removal(c) \/ SaveInstalling(c)
    BY <1>1, <2>3, GroupNames
       DEF Removal, SaveInstalling, ListContainer, RemoveContainer, ClearInstalled, GoTo,
           TypeOK, CallState
  <2>4. CASE Create(c) \/ Start(c) \/ MarkError(c) \/ Search(c)
    <3>1. call'[c].target = t /\ call[c].at \in Creating
      BY <1>1, <2>4, GroupNames
         DEF Create, Start, MarkError, Search, GoTo, TypeOK, CallState
    <3> QED BY <1>3, <3>1
  <2> QED BY <2>1, <2>2, <2>3, <2>4 DEF Creation, Removal, Cleanup
<1> QED BY <1>1, <1>2, <1>4, <1>5, <1>6, KeepsUpdate DEF Holds

\* The steps of an update: those of s move one container at a time, and only into a name
\* that is free.
LEMMA ReplacementUpdate ==
    ASSUME TypeOK, NEW s \in Service, OnlyUpdated(s), UpdateInv(s), NEW c \in Call,
           Replacement(c)
    PROVE  UpdateInv(s)'
<1> DEFINE r == call[c].svc
<1> USE DutyNames, GroupNames
<1>1. /\ call[c] \in CallState
      /\ r \in Service
      /\ \A d \in Call \ {c} : call'[d] = call[d]
  BY DEF TypeOK, Replacement, FindOld, StopOld, Park, Replace, Launch, CheckHealth, DropOld,
         UndoNew, RestoreOld, RelaunchOld, GoTo, Busy
<1>2. call'[c].svc = r /\ call'[c].at \notin InstallPoints \cup CleanupPoints \cup Creating
  BY <1>1
     DEF TypeOK, CallState, Replacement, FindOld, StopOld, Park, Replace, Launch, CheckHealth,
         DropOld, UndoNew, RestoreOld, RelaunchOld, GoTo, Noted
<1>3. \A d \in Call \ {c} :
        /\ Holds(d, s)' <=> Holds(d, s)
        /\ Holds(c, s) => ~Holds(d, s)
  BY <1>1 DEF Holds, UpdateInv
<1>4. CASE r # s
  <2>1. main'[s] = main[s] /\ parked'[s] = parked[s]
    <3>1. CASE DropOld(c) \/ UndoNew(c)
      BY <1>1, <1>4, <3>1, RemovesElsewhere DEF DropOld, UndoNew
    <3>2. CASE ~(DropOld(c) \/ UndoNew(c))
      BY <1>1, <1>4, <3>2
         DEF Replacement, FindOld, StopOld, Park, Replace, Launch, CheckHealth, RestoreOld,
             RelaunchOld, Run, dockerVars, TypeOK
    <3> QED BY <3>1, <3>2
  <2>2. call'[c].at \in Before => call[c].at \in Before
    BY <1>1 DEF TypeOK, CallState, Replacement, FindOld, StopOld, Park, Replace, Launch,
                CheckHealth, DropOld, UndoNew, RestoreOld, RelaunchOld, GoTo, Before
  <2> QED BY <1>1, <1>2, <1>4, <2>1, <2>2, KeepsUpdate DEF Holds
<1>5. CASE r = s
  <2>1. CASE FindOld(c) \/ StopOld(c) \/ Launch(c) \/ CheckHealth(c) \/ RelaunchOld(c)
    <3>1. main' = main /\ parked' = parked
      BY <2>1 DEF FindOld, StopOld, Launch, CheckHealth, RelaunchOld, Run, dockerVars
    <3>2. \/ call[c].at \in Before /\ call'[c].at \in {"stop", "park", "done"}
          \/ call[c].at \in {"launch", "check"}
               /\ call'[c].at \in {"check", "drop", "undo", "done"}
          \/ call'[c].at = "done"
      BY <1>1, <2>1 DEF FindOld, StopOld, Launch, CheckHealth, RelaunchOld, GoTo, TypeOK,
                        CallState, Before
    <3> QED BY <1>1, <1>2, <1>5, <3>1, <3>2, KeepsUpdate DEF Holds, Holding, Before, UpdateInv
  <2>2. CASE Park(c)
    <3>1. CASE GoTo(c, "park", "done") /\ UNCHANGED <<main, parked>>
      <4>1. call'[c].at = "done"
        BY <1>1, <3>1 DEF GoTo, TypeOK, CallState
      <4> QED BY <1>1, <1>2, <3>1, <4>1, KeepsUpdate DEF Holds, Holding, Before
    <3>2. CASE /\ GoTo(c, "park", "replace")
               /\ main[s] = call[c].found
               /\ parked[s] = None
               /\ parked' = [parked EXCEPT ![s] = call[c].found]
               /\ main' = [main EXCEPT ![s] = None]
      <4>1. main'[s] = None /\ parked'[s] = main[s]
        BY <3>2 DEF TypeOK
      <4>2. main[s] # None /\ main[s] # c
        BY <3>2 DEF UpdateInv, GoTo, Before
      <4>3. \A d \in Call : ~Holds(d, s)
        BY <3>2 DEF UpdateInv
      <4>4. call'[c].at = "replace"
        BY <1>1, <3>2 DEF GoTo, TypeOK, CallState
      <4>5. None \notin Call
        BY ServiceAssumption
      <4> QED BY <1>1, <1>2, <1>3, <4>1, <4>2, <4>3, <4>4, <4>5, <3>2
              DEF UpdateInv, Holds, Holding, Before
    <3> QED BY <1>5, <2>2, <3>1, <3>2 DEF Park
  <2>3. CASE Replace(c)
    <3>1. Holds(c, s) /\ c \notin {main[s], parked[s]}
      BY <1>5, <2>3 DEF Replace, GoTo, Holds, Holding, Before, UpdateInv
    <3>2. CASE GoTo(c, "replace", "restore") /\ UNCHANGED <<main, parked>>
      <4>1. call'[c].at = "restore"
        BY <1>1, <3>2 DEF GoTo, TypeOK, CallState
      <4> QED BY <1>1, <1>2, <3>1, <3>2, <4>1, KeepsUpdate DEF Before
    <3>3. CASE GoTo(c, "replace", "launch") /\ main' = [main EXCEPT ![s] = c]
               /\ UNCHANGED parked
      <4>1. main'[s] = c /\ parked'[s] = parked[s]
        BY <3>3 DEF TypeOK
      <4>2. call'[c].at = "launch"
        BY <1>1, <3>3 DEF GoTo, TypeOK, CallState
      <4>3. \A d \in Call \ {c} : ~Holds(d, s)
        BY <1>3, <3>1
      <4> QED BY <1>1, <1>2, <1>3, <3>1, <4>1, <4>2, <4>3
              DEF UpdateInv, Holds, Holding, Before
    <3> QED BY <1>5, <2>3, <3>2, <3>3 DEF Replace
  <2>4. CASE DropOld(c)
    <3>1. Holds(c, s) /\ main[s] = c /\ parked[s] # c
      BY <1>5, <2>4 DEF DropOld, GoTo, Holds, Holding, UpdateInv
    <3>2. main'[s] = c /\ parked'[s] \in {parked[s], None}
      BY <1>5, <2>4, <3>1 DEF DropOld, TryRemove, Remove, dockerVars, TypeOK
    <3>3. call'[c].at = "done"
      BY <1>1, <2>4 DEF DropOld, GoTo, TypeOK, CallState
    <3>4. \A d \in Call \ {c} : ~Holds(d, s)
      BY <1>3, <3>1
    <3>5. None \notin Call
      BY ServiceAssumption
    <3> QED BY <1>1, <1>2, <1>3, <3>1, <3>2, <3>3, <3>4, <3>5
            DEF UpdateInv, Holds, Holding, Before
  <2>5. CASE UndoNew(c)
    <3>1. Holds(c, s) /\ parked[s] \notin {None, c}
      BY <1>5, <2>5 DEF UndoNew, GoTo, Holds, Holding, UpdateInv
    <3>2. main'[s] \in {main[s], None} /\ parked'[s] = parked[s]
      BY <1>5, <2>5, <3>1 DEF UndoNew, TryRemove, Remove, dockerVars, TypeOK
    <3>3. call'[c].at = "restore"
      BY <1>1, <2>5 DEF UndoNew, GoTo, TypeOK, CallState
    <3>4. \A d \in Call \ {c} : ~Holds(d, s)
      BY <1>3, <3>1
    <3>5. None \notin Call
      BY ServiceAssumption
    <3> QED BY <1>1, <1>2, <1>3, <3>1, <3>2, <3>3, <3>4, <3>5
            DEF UpdateInv, Holds, Holding, Before
  <2>6. CASE RestoreOld(c)
    <3>1. Holds(c, s) /\ parked[s] \notin {None, c}
      BY <1>5, <2>6 DEF RestoreOld, GoTo, Holds, Holding, UpdateInv
    <3>2. CASE GoTo(c, "restore", "done") /\ UNCHANGED <<main, parked>>
      <4>1. call'[c].at = "done"
        BY <1>1, <3>2 DEF GoTo, TypeOK, CallState
      <4> QED BY <1>1, <1>2, <3>2, <4>1, KeepsUpdate DEF Holds, Holding, Before
    <3>3. CASE /\ main' = [main EXCEPT ![s] = parked[s]]
               /\ parked' = [parked EXCEPT ![s] = None]
               /\ call' = [call EXCEPT ![c].at = "relaunch", ![c].found = parked[s]]
      <4>1. main'[s] = parked[s] /\ parked'[s] = None
        BY <3>3 DEF TypeOK
      <4>2. call'[c].at = "relaunch"
        BY <1>1, <3>3 DEF TypeOK, CallState
      <4>3. \A d \in Call \ {c} : ~Holds(d, s)
        BY <1>3, <3>1
      <4>4. None \notin Call
        BY ServiceAssumption
      <4> QED BY <1>1, <1>2, <1>3, <3>1, <4>1, <4>2, <4>3, <4>4
              DEF UpdateInv, Holds, Holding, Before
    <3> QED BY <1>5, <2>6, <3>2, <3>3 DEF RestoreOld
  <2> QED BY <2>1, <2>2, <2>3, <2>4, <2>5, <2>6 DEF Replacement
<1> QED BY <1>4, <1>5

\* A sync, and a start or stop by hand, moves no container.
LEMMA SyncUpdate ==
    ASSUME TypeOK, NEW s \in Service, UpdateInv(s), NEW c \in Call,
           Sync(c) \/ Compare(c) \/ \E t \in Service : SyncRow(c, t)
    PROVE  UpdateInv(s)'
<1>1. /\ main' = main /\ parked' = parked
      /\ call[c] \in CallState
      /\ \A d \in Call \ {c} : call'[d] = call[d]
  BY DEF Sync, Compare, SyncRow, dockerVars, TypeOK
<1>2. call'[c].at \in {"compare", "sync", "done"}
  <2>1. CASE Sync(c) \/ Compare(c)
    BY <1>1, <2>1 DEF Sync, Compare, TypeOK, CallState
  <2>2. ASSUME NEW t \in Service, SyncRow(c, t) PROVE call'[c].at \in {"sync", "done"}
    BY <1>1, <2>2 DEF SyncRow, TypeOK, CallState
  <2> QED BY <2>1, <2>2
<1> QED BY <1>1, <1>2, KeepsUpdate, DutyNames, GroupNames DEF Holds, Holding, Before, Noted

\* Updates of one service, as many as there are and wherever they fail, leave it the
\* container it had or the replacement.
THEOREM UpdatesKeepTheService == Spec => []NeverLost
<1> DEFINE Inv == TypeOK /\ \A s \in Preinstalled : OnlyUpdated(s) => UpdateInv(s)
<1>1. Init => Inv
  <2> SUFFICES ASSUME Init, NEW s \in Preinstalled PROVE UpdateInv(s)
    BY InitType
  <2>1. \A c \in Call : call[c].at = "ready"
    BY DEF Init
  <2>2. main[s] = Seed /\ parked[s] = None
    BY ServiceAssumption DEF Init
  <2>3. "ready" \notin InstallPoints \cup CleanupPoints \cup Creating \cup Holding
    BY DutyNames, GroupNames DEF Noted, Holding
  <2>4. Seed # None /\ \A c \in Call : c # Seed /\ c # None
    BY ServiceAssumption
  <2> QED BY <2>1, <2>2, <2>3, <2>4 DEF UpdateInv, Holds
<1>2. Inv /\ [Next]_vars => Inv'
  <2> SUFFICES ASSUME Inv, [Next]_vars PROVE Inv'
    OBVIOUS
  <2>1. TypeOK'
    BY StepType
  <2>2. ASSUME NEW s \in Preinstalled, OnlyUpdated(s) PROVE UpdateInv(s)'
    <3>1. s \in Service /\ UpdateInv(s)
      BY <2>2, ServiceAssumption
    <3>2. CASE UNCHANGED vars \/ \E t \in Service : Affect(t)
      <4>1. UNCHANGED <<call, main, parked>>
        BY <3>2 DEF vars, dockerVars, Affect
      <4> QED BY <3>1, <4>1 DEF UpdateInv, Holds
    <3> QED BY <2>2, <3>1, <3>2, BeginUpdate, CreationUpdate, ReplacementUpdate, SyncUpdate
            DEF Next
  <2> QED BY <2>1, <2>2 DEF OnlyUpdated
<1>3. Inv => NeverLost
  BY DEF UpdateInv, NeverLost
<1> QED BY <1>1, <1>2, <1>3, PTL DEF Spec
=============================================================================
