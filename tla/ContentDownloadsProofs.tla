----------------------- MODULE ContentDownloadsProofs -----------------------
(***************************************************************************)
(* What holds of ContentDownloads for every set of files, every number of  *)
(* worker slots and every number of crashes and failures the bounds allow. *)
(***************************************************************************)
EXTENDS ContentDownloads, TLAPS

\* The part of TypeOK that is about jobs.
JobTypeOK ==
    /\ state \in [Url -> JobStates]
    /\ phase \in [Url -> Phases]
    /\ attempts \in [Url -> 0 .. MaxAttempts]
    /\ stalls \in [Url -> Nat]
    /\ full \in [Url -> BOOLEAN]
    /\ meta \in [Url -> BOOLEAN]
    /\ old \in [Url -> Url \cup {None}]
    /\ \A u \in Url : state[u] = "active" <=> phase[u] # "idle"
    /\ \A u \in Url : state[u] # "failed" => attempts[u] < MaxAttempts

\* The names of the phases and of the job states, one by one.
LEMMA Names ==
    /\ {"idle", "requesting", "writing", "orphaned", "finished", "looked up", "recorded",
        "replaced", "marking", "marked", "swept", "announced"} \subseteq Phases
    /\ {"none", "waiting", "active", "delayed", "failed"} \subseteq JobStates
BY DEF Phases, CallbackPhases, JobStates

\* A job may move to any state and phase that agree on whether the worker has it.
LEMMA MoveType ==
    ASSUME TypeOK, NEW u \in Url,
           NEW s \in JobStates, NEW p \in Phases, NEW a \in 0 .. MaxAttempts,
           s = "active" <=> p # "idle", s # "failed" => a < MaxAttempts,
           state' = [state EXCEPT ![u] = s],
           phase' = [phase EXCEPT ![u] = p],
           attempts' = [attempts EXCEPT ![u] = a]
    PROVE  /\ state' \in [Url -> JobStates]
           /\ phase' \in [Url -> Phases]
           /\ attempts' \in [Url -> 0 .. MaxAttempts]
           /\ \A v \in Url : state'[v] = "active" <=> phase'[v] # "idle"
           /\ \A v \in Url : state'[v] # "failed" => attempts'[v] < MaxAttempts
BY DEF TypeOK

\* The same for a step between two phases of the worker.
LEMMA PhaseType ==
    ASSUME TypeOK, NEW u \in Url, NEW p \in Phases, p # "idle", phase[u] # "idle",
           phase' = [phase EXCEPT ![u] = p],
           UNCHANGED <<state, attempts>>
    PROVE  /\ phase' \in [Url -> Phases]
           /\ \A v \in Url : state'[v] = "active" <=> phase'[v] # "idle"
           /\ \A v \in Url : state'[v] # "failed" => attempts'[v] < MaxAttempts
BY DEF TypeOK

\* Forgetting a job keeps the types of all that is kept for jobs.
LEMMA ForgetType == ASSUME TypeOK, NEW u \in Url, Forget(u) PROVE JobTypeOK'
<1>1. "none" \in JobStates /\ "idle" \in Phases
  BY Names
<1>2. 0 \in 0 .. MaxAttempts /\ 0 < MaxAttempts
  BY NumbersAssumption
<1>3. stalls' \in [Url -> Nat] /\ full' \in [Url -> BOOLEAN] /\ meta' \in [Url -> BOOLEAN]
      /\ old' \in [Url -> Url \cup {None}]
  BY DEF TypeOK, Forget
<1> QED BY <1>1, <1>2, <1>3, MoveType DEF JobTypeOK, Forget

\* The same of adding jobs to the queue.
LEMMA EnqueueType == ASSUME TypeOK, NEW S, NEW b \in BOOLEAN, Enqueue(S, b) PROVE JobTypeOK'
BY Names DEF TypeOK, JobTypeOK, Enqueue

\* Types of files and rows survive an unlink.
LEMMA UnlinkType ==
    ASSUME TypeOK, NEW S, Unlink(S)
    PROVE  disk' \in [Url -> FileStates] /\ row' \in [Resource -> Url \cup {None}]
BY DEF TypeOK, Unlink, FileStates

\* Handlers of the HTTP process keep the types.
LEMMA RequestType == TypeOK /\ Request => TypeOK'
<1> SUFFICES ASSUME TypeOK, Request PROVE TypeOK'
  OBVIOUS
<1> USE SetsAssumption
<1>1. ASSUME NEW u \in Url, DownloadRemote(u) PROVE TypeOK'
  <2>1. JobTypeOK'
    <3>1. (u \in Named) \in BOOLEAN  OBVIOUS
    <3>2. PICK b \in BOOLEAN : Enqueue({u}, b)  BY <1>1, <3>1, Zenon DEF DownloadRemote
    <3> QED BY <3>2, EnqueueType
  <2> QED BY <1>1, <2>1 DEF DownloadRemote, JobTypeOK, TypeOK, libVars, selVars, recVars
<1>2. ASSUME NEW u \in Url, ApplyUpdate(u) PROVE TypeOK'
  <2>1. JobTypeOK'
    <3>1. Enqueue({u}, TRUE)  BY <1>2 DEF ApplyUpdate
    <3> QED BY <3>1, EnqueueType
  <2> QED BY <1>2, <2>1 DEF ApplyUpdate, JobTypeOK, TypeOK, libVars, selVars, recVars
<1>3. ASSUME NEW t \in Tiers, DownloadCategoryTier(t) PROVE TypeOK'
  <2>1. JobTypeOK'
    <3>1. Enqueue({u \in t : row[ResourceOf[u]] = None}, TRUE)
      BY <1>3 DEF DownloadCategoryTier
    <3> QED BY <3>1, EnqueueType
  <2> QED BY <1>3, <2>1
          DEF DownloadCategoryTier, JobTypeOK, TypeOK, libVars, selVars, recVars
<1>4. ASSUME SelectNone PROVE TypeOK'
  <2>1. disk' \in [Url -> FileStates] /\ row' \in [Resource -> Url \cup {None}]
    BY <1>4, UnlinkType DEF SelectNone
  <2> QED BY <1>4, <2>1, ZenonT(40) DEF SelectNone, Restart, TypeOK, jobVars, recVars
<1>5. ASSUME NEW u \in Url, DeleteZim(u) PROVE TypeOK'
  <2>1. disk' \in [Url -> FileStates] /\ row' \in [Resource -> Url \cup {None}]
    BY <1>5, UnlinkType DEF DeleteZim
  <2> QED BY <1>5, <2>1 DEF DeleteZim, TypeOK, jobVars, selVars, recVars
<1>6. ASSUME NEW u \in Url, RemoveFailedJob(u) PROVE TypeOK'
  <2>1. JobTypeOK'
    <3>1. Forget(u)  BY <1>6 DEF RemoveFailedJob
    <3> QED BY <3>1, ForgetType
  <2> QED BY <1>6, <2>1 DEF RemoveFailedJob, JobTypeOK, TypeOK, libVars, selVars, recVars
<1> QED BY <1>1, <1>2, <1>3, <1>4, <1>5, <1>6 DEF Request

\* CutOff only ever says yes or no.
LEMMA CutOffType == ASSUME TypeOK, NEW S, CutOff(S) PROVE cutOff' \in BOOLEAN
BY DEF TypeOK, CutOff

\* Another value at one argument.
LEMMA ExceptType ==
    ASSUME NEW D, NEW T, NEW f \in [D -> T], NEW d \in D, NEW t \in T
    PROVE  [f EXCEPT ![d] = t] \in [D -> T]
OBVIOUS

\* A listener that is called is at a point it can be at.
LEMMA OnFailedType ==
    ASSUME TypeOK, NEW u \in Url, OnFailed(u)
    PROVE  listening' \in [WikiUrl -> SUBSET {"called", "read"}]
<1>1. CASE u \in WikiUrl
  <2>1. listening[u] \cup {"called"} \in SUBSET {"called", "read"}
    BY <1>1 DEF TypeOK
  <2>2. listening' = [listening EXCEPT ![u] = listening[u] \cup {"called"}]
    BY <1>1 DEF OnFailed
  <2> QED BY <2>1, <2>2 DEF TypeOK
<1> QED BY <1>1 DEF OnFailed, TypeOK

\* So do the steps of a choice of an edition ...
LEMMA ChoiceType == ASSUME TypeOK, NEW u \in WikiUrl, Choice(u) PROVE TypeOK'
<1> USE SetsAssumption
<1>1. CASE SelectWikipedia(u)
  <2>1. [url |-> selUrl, status |-> selStatus] \in Selections
    BY DEF TypeOK, Selections
  <2>2. saw' \in [WikiUrl -> Selections]
    BY <1>1, <2>1, Zenon DEF SelectWikipedia, TypeOK
  <2>3. pick' \in [WikiUrl -> {"none", "read", "checked", "saved"}]
    BY <1>1 DEF SelectWikipedia, TypeOK
  <2> QED BY <1>1, <2>2, <2>3 DEF SelectWikipedia, TypeOK, jobVars, libVars, recVars
<1>2. Unseen \in Selections
  BY DEF Unseen, Selections
<1>3. CASE CheckExisting(u)
  <2>1. saw' \in [WikiUrl -> Selections]
    BY <1>2, <1>3 DEF CheckExisting, TypeOK
  <2>2. pick' \in [WikiUrl -> {"none", "read", "checked", "saved"}]
    BY <1>3 DEF CheckExisting, TypeOK
  <2> QED BY <1>3, <2>1, <2>2 DEF CheckExisting, TypeOK, jobVars, libVars, recVars
<1>4. CASE SaveSelection(u)
  <2>1. saw' \in [WikiUrl -> Selections]
    BY <1>2, <1>4 DEF SaveSelection, TypeOK
  <2>2. pick' \in [WikiUrl -> {"none", "read", "checked", "saved"}]
    BY <1>4 DEF SaveSelection, TypeOK
  <2>3. selUrl' \in WikiUrl \cup {None}
        /\ selStatus' \in {"none", "downloading", "installed", "failed"}
    BY <1>4 DEF SaveSelection, TypeOK
  <2> QED BY <1>4, <2>1, <2>2, <2>3 DEF SaveSelection, TypeOK, jobVars, libVars, recVars
<1>5. CASE DispatchSelection(u)
  <2>1. JobTypeOK'
    <3>1. Enqueue({u}, FALSE)  BY <1>5 DEF DispatchSelection
    <3> QED BY <3>1, EnqueueType
  <2>2. pick' \in [WikiUrl -> {"none", "read", "checked", "saved"}]
    BY <1>5 DEF DispatchSelection, TypeOK
  <2> QED BY <1>5, <2>1, <2>2 DEF DispatchSelection, JobTypeOK, TypeOK, libVars, recVars
<1>6. CASE DispatchFails(u)
  <2>1. cutOff' \in BOOLEAN  BY <1>6, CutOffType DEF DispatchFails
  <2>2. pick' \in [WikiUrl -> {"none", "read", "checked", "saved"}]
    BY <1>6 DEF DispatchFails, TypeOK
  <2> QED BY <1>6, <2>1, <2>2 DEF DispatchFails, TypeOK, jobVars, libVars, recVars
<1> QED BY <1>1, <1>3, <1>4, <1>5, <1>6 DEF Choice

\* ... of the listener of failed attempts ...
LEMMA ListenerType == ASSUME TypeOK, NEW u \in WikiUrl, Listener(u) PROVE TypeOK'
<1>1. CASE ListenerRead(u)
  <2>1. PICK points \in SUBSET {"called", "read"} :
            listening' = [listening EXCEPT ![u] = points]
    <3>1. listening[u] \in SUBSET {"called", "read"}  BY DEF TypeOK
    <3>2. /\ (listening[u] \ {"called"}) \cup {"read"} \in SUBSET {"called", "read"}
          /\ listening[u] \ {"called"} \in SUBSET {"called", "read"}
      BY <3>1
    <3> QED BY <1>1, <3>2, Zenon DEF ListenerRead
  <2>2. listening' \in [WikiUrl -> SUBSET {"called", "read"}]
    <3>1. listening \in [WikiUrl -> SUBSET {"called", "read"}]  BY DEF TypeOK
    <3> QED BY <2>1, <3>1, ExceptType, Zenon
  <2> QED BY <1>1, <2>2 DEF ListenerRead, TypeOK, jobVars, libVars, recVars
<1>2. CASE ListenerSave(u)
  <2>1. listening' \in [WikiUrl -> SUBSET {"called", "read"}]
    BY <1>2 DEF ListenerSave, TypeOK
  <2> QED BY <1>2, <2>1 DEF ListenerSave, TypeOK, jobVars, libVars, recVars
<1>3. CASE ListenerError(u)
  <2>1. listening' \in [WikiUrl -> SUBSET {"called", "read"}]
    <3>1. listening \in [WikiUrl -> SUBSET {"called", "read"}]
          /\ \A point \in listening[u] : listening[u] \ {point} \in SUBSET {"called", "read"}
      BY DEF TypeOK
    <3>2. PICK point \in listening[u] :
              listening' = [listening EXCEPT ![u] = listening[u] \ {point}]
      BY <1>3 DEF ListenerError
    <3> QED BY <3>1, <3>2, ExceptType, Zenon
  <2>2. cutOff' \in BOOLEAN  BY <1>3, CutOffType DEF ListenerError
  <2> QED BY <1>3, <2>1, <2>2 DEF ListenerError, TypeOK, jobVars, libVars, recVars
<1> QED BY <1>1, <1>2, <1>3 DEF Listener

\* ... and of a start of the server and its reconciliation.
LEMMA ReconcileType == TypeOK /\ Reconcile => TypeOK'
<1> SUFFICES ASSUME TypeOK, Reconcile PROVE TypeOK'
  OBVIOUS
<1> USE SetsAssumption
<1>1. CASE ServerStarts
  <2>1. cutOff' \in BOOLEAN  BY <1>1, CutOffType DEF ServerStarts
  <2>2. Unseen \in Selections  BY DEF Unseen, Selections
  <2> QED BY <1>1, <2>1, <2>2 DEF ServerStarts, TypeOK, jobVars, libVars
<1>2. CASE ListFiles
  BY <1>2 DEF ListFiles, TypeOK, jobVars, libVars, selVars
<1>3. ASSUME NEW u \in Url, RecordFound(u) PROVE TypeOK'
  <2>1. row' \in [Resource -> Url \cup {None}]
    BY <1>3 DEF RecordFound, TypeOK
  <2> QED BY <1>3, <2>1 DEF RecordFound, TypeOK, jobVars, selVars
<1>4. CASE QueryRows
  BY <1>4 DEF QueryRows, TypeOK, jobVars, libVars, selVars
<1>5. ASSUME NEW r \in Resource, RemoveEntry(r) PROVE TypeOK'
  <2>1. row' \in [Resource -> Url \cup {None}]
    BY <1>5 DEF RemoveEntry, TypeOK
  <2> QED BY <1>5, <2>1 DEF RemoveEntry, TypeOK, jobVars, selVars
<1> QED BY <1>1, <1>2, <1>3, <1>4, <1>5 DEF Reconcile

\* Steps of the worker keep the types.
LEMMA WorkType == ASSUME TypeOK, NEW u \in Url, Work(u) PROVE TypeOK'
<1> USE SetsAssumption, NumbersAssumption, Names
<1>1. CASE StartJob(u)
  <2>1. attempts[u] < MaxAttempts /\ attempts' = [attempts EXCEPT ![u] = attempts[u]]
    BY <1>1, ZenonT(40) DEF StartJob, TypeOK
  <2>2. state' = [state EXCEPT ![u] = "active"] /\ phase' = [phase EXCEPT ![u] = "requesting"]
    BY <1>1 DEF StartJob
  <2>3. attempts[u] \in 0 .. MaxAttempts /\ "active" \in JobStates /\ "requesting" \in Phases
    BY DEF TypeOK
  <2> HIDE Names
  <2> QED BY <1>1, <2>1, <2>2, <2>3, MoveType DEF StartJob, TypeOK, libVars, selVars, recVars
<1>2. CASE OpenFile(u)
  <2>1. "writing" \in Phases  OBVIOUS
  <2>2. "partial" \in FileStates  BY DEF FileStates
  <2> HIDE Names
  <2> QED BY <1>2, <2>1, <2>2, PhaseType DEF OpenFile, Step, TypeOK, libVars, selVars, recVars
<1>3. CASE FinishFile(u)
  <2>1. "finished" \in Phases  OBVIOUS
  <2>2. "complete" \in FileStates  BY DEF FileStates
  <2> HIDE Names
  <2>3. disk' \in [Url -> FileStates] /\ missed' \subseteq Url
    BY <1>3, <2>2 DEF FinishFile, Written, TypeOK
  <2> QED BY <1>3, <2>1, <2>3, PhaseType DEF FinishFile, Step, TypeOK, selVars, recVars
<1>4. CASE LookUpOld(u)
  <2>1. "looked up" \in Phases  OBVIOUS
  <2>2. row[ResourceOf[u]] \in Url \cup {None}  BY ZenonT(40) DEF TypeOK
  <2> HIDE Names
  <2> QED BY <1>4, <2>1, <2>2, PhaseType DEF LookUpOld, Step, TypeOK, libVars, selVars, recVars
<1>5. CASE RecordResource(u)
  <2>1. "recorded" \in Phases  OBVIOUS
  <2> HIDE Names
  <2> QED BY <1>5, <2>1, PhaseType DEF RecordResource, Step, TypeOK, libVars, selVars, recVars
<1>6. CASE RemoveOldFile(u)
  <2>1. "replaced" \in Phases  OBVIOUS
  <2>2. "absent" \in FileStates  BY DEF FileStates
  <2> HIDE Names
  <2> QED BY <1>6, <2>1, <2>2, PhaseType DEF RemoveOldFile, Step, TypeOK, libVars, selVars, recVars
<1>7. CASE MarkWikipedia(u)
  <2>1. PICK p \in {"marking", "marked", "swept"} : phase' = [phase EXCEPT ![u] = p]
    BY <1>7 DEF MarkWikipedia
  <2>2. p \in Phases /\ p # "idle"  OBVIOUS
  <2>3. phase[u] # "idle"  BY <1>7 DEF MarkWikipedia, Indexed
  <2> HIDE Names
  <2> QED BY <1>7, <2>1, <2>2, <2>3, PhaseType
          DEF MarkWikipedia, TypeOK, libVars, selVars, recVars
<1>13. CASE SaveInstalled(u)
  <2>1. "marked" \in Phases  OBVIOUS
  <2> HIDE Names
  <2> QED BY <1>13, <2>1, PhaseType DEF SaveInstalled, Step, TypeOK, libVars, recVars
<1>8. CASE SweepWikipedia(u)
  <2>1. disk' \in [Url -> FileStates] /\ row' \in [Resource -> Url \cup {None}]
    BY <1>8, UnlinkType DEF SweepWikipedia
  <2>2. "swept" \in Phases  OBVIOUS
  <2> HIDE Names
  <2> QED BY <1>8, <2>1, <2>2, PhaseType DEF SweepWikipedia, Step, TypeOK, libVars, selVars, recVars
<1>9. CASE AnnounceToKiwix(u)
  <2>1. "announced" \in Phases  OBVIOUS
  <2>2. served' \in [Url -> FileStates]  BY <1>9 DEF AnnounceToKiwix, Restart, TypeOK
  <2>3. phase[u] # "idle"  BY <1>9 DEF AnnounceToKiwix, Indexed
  <2> HIDE Names
  <2> QED BY <1>9, <2>1, <2>2, <2>3, PhaseType DEF AnnounceToKiwix, TypeOK, selVars, recVars
<1>10. CASE CompleteJob(u)
  <2>1. JobTypeOK'
    <3>1. Forget(u)  BY <1>10 DEF CompleteJob
    <3> QED BY <3>1, ForgetType
  <2> QED BY <1>10, <2>1 DEF CompleteJob, JobTypeOK, TypeOK, selVars, recVars
<1>11. CASE RetryDue(u)
  <2>1. /\ phase' = [phase EXCEPT ![u] = "idle"]
        /\ attempts' = [attempts EXCEPT ![u] = attempts[u]]
    BY <1>11, ZenonT(40) DEF RetryDue, TypeOK
  <2>2. attempts[u] \in 0 .. MaxAttempts /\ attempts[u] < MaxAttempts
    BY <1>11 DEF RetryDue, TypeOK
  <2>3. "waiting" \in JobStates /\ "idle" \in Phases  OBVIOUS
  <2> HIDE Names
  <2> QED BY <1>11, <2>1, <2>2, <2>3, MoveType DEF RetryDue, TypeOK, libVars, selVars, recVars
<1>12. CASE RecoverStalled(u)
  <2>1. PICK s \in {"waiting", "failed"} : state' = [state EXCEPT ![u] = s]
    BY <1>12 DEF RecoverStalled
  <2>2. attempts[u] \in 0 .. MaxAttempts /\ attempts[u] < MaxAttempts
    BY <1>12 DEF RecoverStalled, TypeOK
  <2>3. s \in JobStates /\ s # "active" /\ "idle" \in Phases  OBVIOUS
  <2>4. attempts' = [attempts EXCEPT ![u] = attempts[u]]
    BY <1>12 DEF RecoverStalled, TypeOK
  <2>5. listening' \in [WikiUrl -> SUBSET {"called", "read"}]
    BY <1>12, OnFailedType DEF RecoverStalled, TypeOK
  <2> HIDE Names
  <2> QED BY <1>12, <2>1, <2>2, <2>3, <2>4, <2>5, MoveType
          DEF RecoverStalled, TypeOK, libVars, recVars
<1> QED BY <1>1, <1>2, <1>3, <1>4, <1>5, <1>6, <1>7, <1>8, <1>9, <1>10, <1>11, <1>12, <1>13
        DEF Work

\* The rest of what happens to a job keeps the types.
LEMMA EventType ==
    ASSUME TypeOK, NEW u \in Url, Progress(u) \/ FailAttempt(u) \/ CallbackError(u)
    PROVE  TypeOK'
<1> USE SetsAssumption, NumbersAssumption
<1>1. CASE Progress(u)
  <2>1. full' \in [Url -> BOOLEAN]
    <3>1. (u \in NoLength) \in BOOLEAN  OBVIOUS
    <3>2. full \in [Url -> BOOLEAN]  BY DEF TypeOK
    <3> QED BY <1>1, <3>1, <3>2, Zenon DEF Progress
  <2> QED BY <1>1, <2>1 DEF Progress, TypeOK, libVars, selVars, recVars
<1>2. CASE FailAttempt(u)
  <2>1. PICK s \in {"delayed", "failed"} :
            state' = [state EXCEPT ![u] = s] /\ (s # "failed" => attempts[u] + 1 < MaxAttempts)
    BY <1>2 DEF FailAttempt
  <2>2. attempts[u] + 1 \in 0 .. MaxAttempts
    <3>1. phase[u] # "idle"  BY <1>2 DEF FailAttempt
    <3> QED BY <3>1 DEF TypeOK
  <2>3. s \in JobStates /\ s # "active" /\ "idle" \in Phases  BY Names
  <2>4. attempts' = [attempts EXCEPT ![u] = attempts[u] + 1]
    BY <1>2 DEF FailAttempt
  <2>5. listening' \in [WikiUrl -> SUBSET {"called", "read"}]
    BY <1>2, OnFailedType DEF FailAttempt
  <2> QED BY <1>2, <2>1, <2>2, <2>3, <2>4, <2>5, MoveType
          DEF FailAttempt, TypeOK, libVars, recVars
<1>3. CASE CallbackError(u)
  <2>1. JobTypeOK'
    <3>1. Forget(u)  BY <1>3 DEF CallbackError
    <3> QED BY <3>1, ForgetType
  <2>2. cutOff' \in BOOLEAN  BY <1>3, CutOffType DEF CallbackError
  <2> QED BY <1>3, <2>1, <2>2 DEF CallbackError, JobTypeOK, TypeOK, libVars, recVars
<1> QED BY <1>1, <1>2, <1>3

\* The types hold at the start.
LEMMA InitType == Init => TypeOK
<1> SUFFICES ASSUME Init PROVE TypeOK
  OBVIOUS
<1>1. "none" \in JobStates /\ "idle" \in Phases
  BY Names
<1>2. 0 \in 0 .. MaxAttempts /\ 0 < MaxAttempts
  BY NumbersAssumption
<1>3. disk \in [Url -> FileStates]
  BY DEF Init, FileStates
<1>4. Unseen \in Selections
  BY DEF Unseen, Selections
<1> QED BY <1>1, <1>2, <1>3, <1>4, SetsAssumption DEF Init, TypeOK

\* Every step keeps them.
LEMMA StepType == TypeOK /\ [Next]_vars => TypeOK'
<1> SUFFICES ASSUME TypeOK, [Next]_vars PROVE TypeOK'
  OBVIOUS
<1>1. CASE UNCHANGED vars
  BY <1>1 DEF vars, jobVars, libVars, selVars, recVars, TypeOK
<1>2. CASE Crash
  <2>1. cutOff' \in BOOLEAN  BY <1>2, CutOffType DEF Crash
  <2> QED BY <1>2, <2>1, Names DEF Crash, Running, TypeOK, libVars, recVars
<1> QED BY <1>1, <1>2, RequestType, ChoiceType, ListenerType, ReconcileType, WorkType, EventType
        DEF Next

\* The pipeline keeps its types: a job is in the worker's hands exactly while BullMQ
\* calls it active, and a job that has not failed has an attempt left.
THEOREM TypeCorrect == Spec => []TypeOK
BY InitType, StepType, PTL DEF Spec

-----------------------------------------------------------------------------
(* The duty to restart Kiwix *)

\* No download ever fails for good, nobody dismisses one, and neither the callback nor
\* Docker fails: the conditions under which the restart duty is never lost.
Calm ==
    /\ FailLimit < MaxAttempts
    /\ StallLimit <= MaxStalled
    /\ Happens \cap {"dismiss", "callback error", "docker error"} = {}

NoJobFailed == \A u \in Url : state[u] # "failed"
OrphansRecover == \A u \in Url : phase[u] = "orphaned" => stalls[u] < StallLimit
DutyInv == TypeOK /\ RestartDuty /\ NoJobFailed /\ OrphansRecover

Unserved(u) == disk[u] = "complete" /\ served[u] # "complete"

\* It is enough that one job carries the duty after the step.
LEMMA SomeCarrier ==
    ASSUME NEW v \in Url, Carrier(v)', FinishedIsFull' PROVE RestartDuty'
BY DEF RestartDuty, Carrier

\* Or that the step makes no file unserved and ends no carrier.
LEMMA KeepsCarriers ==
    ASSUME RestartDuty, FinishedIsFull',
           \A v \in Url : Unserved(v)' => Unserved(v),
           \A v \in Url : Carrier(v) => Carrier(v)'
    PROVE  RestartDuty'
BY DEF RestartDuty, Unserved

\* Adding jobs takes the duty from nobody.
LEMMA EnqueueDuty ==
    ASSUME DutyInv, NEW S, NEW b, Enqueue(S, b), UNCHANGED <<disk, served>>
    PROVE  RestartDuty' /\ NoJobFailed' /\ OrphansRecover'
<1>1. FinishedIsFull'
  BY DEF DutyInv, RestartDuty, FinishedIsFull, Enqueue
<1>2. \A v \in Url : state'[v] \in {state[v], "waiting"} /\ phase'[v] = phase[v]
  BY DEF DutyInv, TypeOK, Enqueue
<1>3. \A v \in Url : Carrier(v) => Carrier(v)'
  BY <1>2 DEF Carrier, Pending
<1>4. RestartDuty'
  BY <1>1, <1>3, KeepsCarriers DEF DutyInv, Unserved
<1>5. NoJobFailed' /\ OrphansRecover'
  BY <1>2 DEF DutyInv, NoJobFailed, OrphansRecover, Enqueue
<1> QED BY <1>4, <1>5

\* No handler of the HTTP process takes the duty from a job without doing it.
LEMMA RequestDuty ==
    ASSUME Calm, DutyInv, Request
    PROVE  RestartDuty' /\ NoJobFailed' /\ OrphansRecover'
<1>1. ASSUME NEW S, NEW b, Enqueue(S, b), UNCHANGED <<disk, served>>
      PROVE  RestartDuty' /\ NoJobFailed' /\ OrphansRecover'
  BY <1>1, EnqueueDuty
<1>2. CASE \E u \in Url : DownloadRemote(u) \/ ApplyUpdate(u)
  BY <1>1, <1>2 DEF DownloadRemote, ApplyUpdate, libVars
<1>3. CASE \E t \in Tiers : DownloadCategoryTier(t)
  BY <1>1, <1>3 DEF DownloadCategoryTier, libVars
<1>5. ASSUME UNCHANGED jobVars PROVE NoJobFailed' /\ OrphansRecover' /\ FinishedIsFull'
  BY <1>5 DEF jobVars, DutyInv, NoJobFailed, OrphansRecover, RestartDuty, FinishedIsFull
<1>6. CASE SelectNone
  <2>1. served' = disk'  BY <1>6 DEF SelectNone, Restart, Calm
  <2> QED BY <1>5, <1>6, <2>1 DEF SelectNone, RestartDuty
<1>7. CASE \E u \in Url : DeleteZim(u)
  <2>1. \A v \in Url : disk'[v] = "complete" => disk[v] = "complete"
    BY <1>7 DEF DeleteZim, Unlink
  <2>2. \A v \in Url : Carrier(v) => Carrier(v)'
    BY <1>7 DEF DeleteZim, jobVars, Carrier, Pending
  <2>3. \A v \in Url : Unserved(v)' => Unserved(v)
    BY <1>7, <2>1 DEF DeleteZim, Unserved
  <2> QED BY <1>5, <1>7, <2>2, <2>3, KeepsCarriers DEF DeleteZim, DutyInv
<1>8. CASE \E u \in Url : RemoveFailedJob(u)
  BY <1>8 DEF RemoveFailedJob, Calm
<1> QED BY <1>2, <1>3, <1>6, <1>7, <1>8 DEF Request

\* What leaves the jobs and the files alone leaves the duty where it was.
LEMMA ElsewhereDuty ==
    ASSUME DutyInv, UNCHANGED <<jobVars, disk, served>>
    PROVE  RestartDuty' /\ NoJobFailed' /\ OrphansRecover'
BY DEF jobVars, DutyInv, RestartDuty, FinishedIsFull, Carrier, Pending, NoJobFailed,
       OrphansRecover

\* So do the choices of an edition, the listener and the reconciliation.
LEMMA BesideDuty ==
    ASSUME DutyInv,
           Reconcile \/ \E u \in WikiUrl : Choice(u) \/ Listener(u)
    PROVE  RestartDuty' /\ NoJobFailed' /\ OrphansRecover'
<1>1. CASE Reconcile
  BY <1>1, ElsewhereDuty
     DEF Reconcile, ServerStarts, ListFiles, QueryRows, RecordFound, RemoveEntry, libVars
<1>2. CASE \E u \in WikiUrl : Listener(u)
  BY <1>2, ElsewhereDuty DEF Listener, ListenerRead, ListenerSave, ListenerError, libVars
<1>3. ASSUME NEW u \in WikiUrl, Choice(u)
      PROVE  RestartDuty' /\ NoJobFailed' /\ OrphansRecover'
  <2>1. CASE DispatchSelection(u)
    BY <2>1, EnqueueDuty DEF DispatchSelection, libVars
  <2>2. CASE ~DispatchSelection(u)
    BY <1>3, <2>2, ElsewhereDuty
       DEF Choice, SelectWikipedia, CheckExisting, SaveSelection, DispatchFails, libVars
  <2> QED BY <2>1, <2>2
<1> QED BY <1>1, <1>2, <1>3

\* A job that moves to a phase before "announced" carries the duty itself.
LEMMA StepDuty ==
    ASSUME DutyInv, NEW u \in Url, phase[u] # "idle",
           NEW p \in Phases, p \notin {"idle", "orphaned", "announced"},
           p \in CallbackPhases => full'[u],
           phase' = [phase EXCEPT ![u] = p],
           \A v \in Url \ {u} : full'[v] = full[v],
           UNCHANGED <<state, stalls>>
    PROVE  RestartDuty' /\ NoJobFailed' /\ OrphansRecover'
<1>1. phase'[u] = p /\ \A v \in Url \ {u} : phase'[v] = phase[v]
  BY DEF DutyInv, TypeOK
<1>2. FinishedIsFull'
  BY <1>1 DEF DutyInv, RestartDuty, FinishedIsFull
<1>3. Carrier(u)'
  <2>1. state[u] = "active"  BY DEF DutyInv, TypeOK
  <2> QED BY <1>1, <2>1 DEF Carrier, Pending
<1>4. RestartDuty'
  BY <1>2, <1>3, SomeCarrier
<1>5. NoJobFailed' /\ OrphansRecover'
  BY <1>1 DEF DutyInv, NoJobFailed, OrphansRecover
<1> QED BY <1>4, <1>5

\* A job that is given to the queue or to the worker carries the duty.
LEMMA TurnDuty ==
    ASSUME DutyInv, NEW u \in Url,
           NEW s \in {"waiting", "active", "delayed"}, NEW p \in {"idle", "requesting"},
           state' = [state EXCEPT ![u] = s],
           phase' = [phase EXCEPT ![u] = p],
           \A v \in Url \ {u} : stalls'[v] = stalls[v],
           UNCHANGED full
    PROVE  RestartDuty' /\ NoJobFailed' /\ OrphansRecover'
<1>1. /\ phase'[u] = p /\ \A v \in Url \ {u} : phase'[v] = phase[v]
      /\ state'[u] = s /\ \A v \in Url \ {u} : state'[v] = state[v]
  BY DEF DutyInv, TypeOK
<1>2. FinishedIsFull'
  BY <1>1 DEF DutyInv, RestartDuty, FinishedIsFull, CallbackPhases
<1>3. Carrier(u)'
  BY <1>1 DEF Carrier, Pending
<1>4. RestartDuty'
  BY <1>2, <1>3, SomeCarrier
<1>5. NoJobFailed' /\ OrphansRecover'
  BY <1>1 DEF DutyInv, NoJobFailed, OrphansRecover
<1> QED BY <1>4, <1>5

\* The decision itself: a job that leaves Kiwix alone leaves the duty with another one.
LEMMA AnnounceDuty ==
    ASSUME Calm, DutyInv, NEW u \in Url, AnnounceToKiwix(u)
    PROVE  RestartDuty' /\ NoJobFailed' /\ OrphansRecover'
<1>1. phase[u] \in CallbackPhases
  BY DEF AnnounceToKiwix, Indexed, CallbackPhases
<1>2. full[u] /\ state[u] = "active"
  BY <1>1 DEF DutyInv, RestartDuty, FinishedIsFull, TypeOK, CallbackPhases
<1>3. phase'[u] = "announced" /\ \A v \in Url \ {u} : phase'[v] = phase[v]
  BY DEF AnnounceToKiwix, DutyInv, TypeOK
<1>4. FinishedIsFull'
  BY <1>2, <1>3 DEF AnnounceToKiwix, DutyInv, RestartDuty, FinishedIsFull
<1>5. CASE Remaining = {}
  <2>1. served' = disk  BY <1>5 DEF AnnounceToKiwix, Restart, Calm
  <2>2. disk' = disk    BY DEF AnnounceToKiwix
  <2>3. RestartDuty'    BY <1>4, <2>1, <2>2 DEF RestartDuty
  <2> QED BY <1>3, <2>3 DEF AnnounceToKiwix, DutyInv, NoJobFailed, OrphansRecover
<1>6. CASE Remaining # {}
  <2>1. PICK v \in Url : state[v] = "waiting" \/ (state[v] = "active" /\ ~full[v])
    BY <1>6 DEF Remaining
  <2>2. v # u  BY <1>2, <2>1
  <2>3. phase[v] # "announced"
    BY <2>1 DEF DutyInv, RestartDuty, FinishedIsFull, TypeOK, CallbackPhases
  <2>4. Carrier(v)'
    BY <1>3, <2>1, <2>2, <2>3 DEF AnnounceToKiwix, Carrier, Pending
  <2>5. RestartDuty'  BY <1>4, <2>4, SomeCarrier
  <2> QED BY <1>3, <2>5 DEF AnnounceToKiwix, DutyInv, NoJobFailed, OrphansRecover
<1> QED BY <1>5, <1>6

\* A job that completes had no duty left, and takes it from no other job.
LEMMA CompleteDuty ==
    ASSUME DutyInv, NEW u \in Url, CompleteJob(u)
    PROVE  RestartDuty' /\ NoJobFailed' /\ OrphansRecover'
<1>1. /\ state'[u] = "none" /\ phase'[u] = "idle"
      /\ \A v \in Url \ {u} : /\ state'[v] = state[v] /\ phase'[v] = phase[v]
                              /\ stalls'[v] = stalls[v] /\ full'[v] = full[v]
  BY DEF CompleteJob, Forget, DutyInv, TypeOK
<1>2. FinishedIsFull'
  BY <1>1 DEF DutyInv, RestartDuty, FinishedIsFull, CallbackPhases
<1>3. \A v \in Url : Carrier(v) => Carrier(v)'
  BY <1>1 DEF CompleteJob, Carrier, Pending
<1>4. \A v \in Url : Unserved(v)' => Unserved(v)
  BY DEF CompleteJob, Unserved
<1>5. RestartDuty'
  BY <1>2, <1>3, <1>4, KeepsCarriers DEF DutyInv
<1> QED BY <1>1, <1>5 DEF DutyInv, NoJobFailed, OrphansRecover

\* Every step of the worker keeps the duty with somebody.
LEMMA WorkDuty ==
    ASSUME Calm, DutyInv, NEW u \in Url, Work(u)
    PROVE  RestartDuty' /\ NoJobFailed' /\ OrphansRecover'
<1> DEFINE Kept == RestartDuty' /\ NoJobFailed' /\ OrphansRecover'
<1>1. ASSUME NEW f \in {"requesting", "writing"}, NEW p \in {"writing", "finished"},
             Step(u, f, p), p = "finished" => full'[u],
             \A v \in Url \ {u} : full'[v] = full[v]
      PROVE  Kept
  BY <1>1, Names, StepDuty DEF Step, CallbackPhases
<1>2. ASSUME phase[u] \in CallbackPhases,
             NEW p \in {"looked up", "recorded", "replaced", "marking", "marked", "swept"},
             phase' = [phase EXCEPT ![u] = p], UNCHANGED <<state, stalls, full>>
      PROVE  Kept
  <2>1. full[u]  BY <1>2 DEF DutyInv, RestartDuty, FinishedIsFull
  <2>2. phase[u] # "idle"  BY <1>2 DEF CallbackPhases
  <2> QED BY <1>2, <2>1, <2>2, Names, StepDuty
<1>3. CASE StartJob(u)        BY <1>3, TurnDuty DEF StartJob
<1>4. CASE OpenFile(u)        BY <1>1, <1>4 DEF OpenFile, Step
<1>5. CASE FinishFile(u)
  <2>1. full'[u] /\ \A v \in Url \ {u} : full'[v] = full[v]
    BY <1>5 DEF FinishFile, DutyInv, TypeOK
  <2> QED BY <1>1, <1>5, <2>1 DEF FinishFile
<1>6. CASE LookUpOld(u)       BY <1>2, <1>6 DEF LookUpOld, Step, CallbackPhases
<1>7. CASE RecordResource(u)  BY <1>2, <1>7 DEF RecordResource, Step, CallbackPhases
<1>8. CASE RemoveOldFile(u)   BY <1>2, <1>8 DEF RemoveOldFile, Step, CallbackPhases
<1>9. CASE MarkWikipedia(u)
  <2>1. phase[u] \in CallbackPhases  BY <1>9 DEF MarkWikipedia, Indexed, CallbackPhases
  <2> QED BY <1>2, <1>9, <2>1 DEF MarkWikipedia
<1>10. CASE SweepWikipedia(u) BY <1>2, <1>10 DEF SweepWikipedia, Step, CallbackPhases
<1>15. CASE SaveInstalled(u)  BY <1>2, <1>15 DEF SaveInstalled, Step, CallbackPhases
<1>11. CASE AnnounceToKiwix(u) BY <1>11, AnnounceDuty
<1>12. CASE CompleteJob(u)    BY <1>12, CompleteDuty
<1>13. CASE RetryDue(u)
  <2>1. phase' = [phase EXCEPT ![u] = "idle"]
    BY <1>13 DEF RetryDue, DutyInv, TypeOK
  <2> QED BY <1>13, <2>1, TurnDuty DEF RetryDue
<1>14. CASE RecoverStalled(u)
  <2>1. stalls[u] < MaxStalled
    <3>1. stalls[u] < StallLimit  BY <1>14 DEF RecoverStalled, DutyInv, OrphansRecover
    <3>2. stalls[u] \in Nat  BY DEF DutyInv, TypeOK
    <3>3. StallLimit <= MaxStalled  BY DEF Calm
    <3>4. StallLimit \in Nat /\ MaxStalled \in Nat  BY NumbersAssumption
    <3> QED BY <3>1, <3>2, <3>3, <3>4
  <2>2. \A v \in Url \ {u} : stalls'[v] = stalls[v]
    BY <1>14 DEF RecoverStalled, DutyInv, TypeOK
  <2> QED BY <1>14, <2>1, <2>2, TurnDuty DEF RecoverStalled
<1> QED BY <1>3, <1>4, <1>5, <1>6, <1>7, <1>8, <1>9, <1>10, <1>11, <1>12, <1>13, <1>14,
          <1>15 DEF Work

\* And so does everything that happens to the worker.
LEMMA EventDuty ==
    ASSUME Calm, DutyInv, NEW u \in Url,
           Progress(u) \/ FailAttempt(u) \/ CallbackError(u) \/ Crash
    PROVE  RestartDuty' /\ NoJobFailed' /\ OrphansRecover'
<1>1. CASE Progress(u)
  <2>1. FinishedIsFull'
    BY <1>1 DEF Progress, DutyInv, RestartDuty, FinishedIsFull, CallbackPhases, TypeOK
  <2>2. \A v \in Url : Carrier(v) <=> Carrier(v)'
    BY <1>1 DEF Progress, Carrier, Pending
  <2>3. RestartDuty'
    BY <1>1, <2>1, <2>2, KeepsCarriers DEF Progress, DutyInv, Unserved, libVars
  <2> QED BY <1>1, <2>3 DEF Progress, DutyInv, NoJobFailed, OrphansRecover
<1>2. CASE FailAttempt(u)
  <2>1. attempts[u] + 1 < MaxAttempts
    <3>1. attempts[u] < FailLimit  BY <1>2 DEF FailAttempt
    <3>2. attempts[u] \in 0 .. MaxAttempts  BY DEF DutyInv, TypeOK
    <3>3. FailLimit < MaxAttempts  BY DEF Calm
    <3>4. FailLimit \in Nat /\ MaxAttempts \in Nat  BY NumbersAssumption
    <3> QED BY <3>1, <3>2, <3>3, <3>4
  <2> QED BY <1>2, <2>1, TurnDuty DEF FailAttempt
<1>3. CASE CallbackError(u)   BY <1>3 DEF CallbackError, Calm
<1>4. CASE Crash
  <2>1. \A v \in Url : phase'[v] = "orphaned" \/ phase'[v] = phase[v]
    BY <1>4 DEF Crash
  <2>2. FinishedIsFull'
    BY <1>4, <2>1 DEF Crash, DutyInv, RestartDuty, FinishedIsFull, CallbackPhases
  <2>3. \A v \in Url : Carrier(v) => Carrier(v)'
    BY <1>4, <2>1 DEF Crash, Carrier, Pending
  <2>4. RestartDuty'
    BY <1>4, <2>2, <2>3, KeepsCarriers DEF Crash, DutyInv, Unserved, libVars
  <2>5. OrphansRecover'
    BY <1>4 DEF Crash, DutyInv, OrphansRecover, TypeOK
  <2> QED BY <1>4, <2>4, <2>5 DEF Crash, DutyInv, NoJobFailed
<1> QED BY <1>1, <1>2, <1>3, <1>4

\* In calm conditions, whatever the interleaving of completions, crashes of the worker
\* and requests, some job still has to decide about Kiwix while a finished ZIM is unserved.
THEOREM DutyInvariant == ASSUME Calm PROVE Spec => []DutyInv
<1>1. Init => DutyInv
  <2> SUFFICES ASSUME Init PROVE DutyInv
    OBVIOUS
  <2>1. TypeOK  BY InitType
  <2>2. RestartDuty
    BY DEF Init, RestartDuty, FinishedIsFull, CallbackPhases
  <2> QED BY <2>1, <2>2 DEF Init, DutyInv, NoJobFailed, OrphansRecover
<1>2. DutyInv /\ [Next]_vars => DutyInv'
  <2> SUFFICES ASSUME DutyInv, [Next]_vars PROVE DutyInv'
    OBVIOUS
  <2>1. TypeOK'  BY StepType DEF DutyInv
  <2>2. RestartDuty' /\ NoJobFailed' /\ OrphansRecover'
    <3>1. CASE UNCHANGED vars
      BY <3>1, ElsewhereDuty DEF vars, libVars
    <3>2. CASE Crash
      <4>1. PICK u \in Url : TRUE
        BY <3>2, SetsAssumption DEF Crash, Running, Listeners
      <4> QED BY <3>2, EventDuty
    <3> QED BY <3>1, <3>2, RequestDuty, BesideDuty, WorkDuty, EventDuty DEF Next
  <2> QED BY <2>1, <2>2 DEF DutyInv
<1> QED BY <1>1, <1>2, PTL DEF Spec

\* The invariant the runs check under its own name.
THEOREM RestartDutyHolds == ASSUME Calm PROVE Spec => []RestartDuty
BY DutyInvariant, PTL DEF DutyInv

\* Its consequence: when no download is pending, Kiwix serves every finished ZIM.
THEOREM Served == ASSUME Calm PROVE Spec => []ServedWhenDrained
<1>1. DutyInv => ServedWhenDrained
  BY DEF DutyInv, RestartDuty, ServedWhenDrained, Carrier, Pending
<1> QED BY <1>1, DutyInvariant, PTL

-----------------------------------------------------------------------------
(* The Wikipedia selection *)

Early(u) == Pending(u) /\ attempts[u] = 0 /\ phase[u] \notin {"marked", "swept", "announced"}

\* Who settles a selection of u that is shown as downloading: a job that has not failed yet,
\* which is why the dismiss button does not reach it, and that has its mark ahead; the
\* request that is about to add that job; or a listener -- unless somebody was cut off.
Settler(u) ==
    \/ Early(u)
    \/ pick[u] = "saved" /\ state[u] = "none"
    \/ listening[u] # {}
    \/ cutOff

Deciding(u) == pick[u] \in {"read", "checked"}

SelectionInv ==
    /\ \A u \in Url : state[u] = "none" => attempts[u] = 0
    /\ \A u \in WikiUrl : pick[u] = "checked" => state[u] = "none"
    /\ \A u, w \in WikiUrl : Deciding(u) /\ Deciding(w) => u = w
    /\ \A u \in WikiUrl : Deciding(u) /\ saw[u].url = u => selUrl = u
    /\ selStatus = "downloading" => selUrl \in WikiUrl /\ Settler(selUrl)

\* A step of one job keeps it, if the selected job stays early or leaves it to another settler.
LEMMA OneJobSelection ==
    ASSUME TypeOK, SelectionInv, NEW u \in Url, state[u] # "none",
           UNCHANGED <<selUrl, pick, saw>>,
           \A v \in Url \ {u} : /\ state'[v] = state[v] /\ phase'[v] = phase[v]
                                /\ attempts'[v] = attempts[v],
           \A v \in WikiUrl : listening[v] # {} => listening'[v] # {},
           state'[u] = "none" => attempts'[u] = 0,
           selStatus' = "downloading" => selStatus = "downloading" /\ (cutOff => cutOff'),
           selStatus' = "downloading" /\ u = selUrl /\ Early(u) => Settler(u)'
    PROVE  SelectionInv'
<1>1. \A v \in WikiUrl : pick'[v] = "checked" => state'[v] = "none"
  BY SetsAssumption DEF SelectionInv
<1>2. \A v, w \in WikiUrl : Deciding(v)' /\ Deciding(w)' => v = w
  BY DEF SelectionInv, Deciding
<1>3. \A v \in WikiUrl : Deciding(v)' /\ saw'[v].url = v => selUrl' = v
  BY DEF SelectionInv, Deciding
<1>4. selStatus' = "downloading" => selUrl' \in WikiUrl /\ Settler(selUrl)'
  BY SetsAssumption DEF SelectionInv, Settler, Early, Pending
<1> QED BY <1>1, <1>2, <1>3, <1>4 DEF SelectionInv

\* A step that leaves the jobs and selects nothing keeps it, if it silences no listener
\* of the selected edition.
LEMMA NoJobSelection ==
    ASSUME SelectionInv, UNCHANGED <<state, phase, attempts, selUrl, pick, saw>>,
           selStatus' = "downloading" =>
              /\ selStatus = "downloading" /\ (cutOff => cutOff')
              /\ (listening[selUrl] # {} => listening'[selUrl] # {} \/ cutOff')
    PROVE  SelectionInv'
<1>1. selStatus' = "downloading" => selUrl' \in WikiUrl /\ Settler(selUrl)'
  BY DEF SelectionInv, Settler, Early, Pending
<1> QED BY <1>1 DEF SelectionInv, Deciding

\* Jobs that are added settle the selection, and no choice has just found them missing.
LEMMA EnqueueSelection ==
    ASSUME TypeOK, SelectionInv, NEW S, NEW b, Enqueue(S, b), UNCHANGED <<selUrl, selStatus>>,
           UNCHANGED <<saw, listening, cutOff>>,
           \A v \in WikiUrl : pick'[v] = pick[v] \/ (pick'[v] = "none" /\ v \in S),
           \A v \in WikiUrl : pick[v] = "checked" => v \notin S
    PROVE  SelectionInv'
<1>1. \A v \in Url : /\ state'[v] = IF state[v] = "none" /\ v \in S THEN "waiting" ELSE state[v]
                     /\ phase'[v] = phase[v] /\ attempts'[v] = attempts[v]
  BY DEF Enqueue
<1>2. \A v \in Url : state[v] = "none" => phase[v] = "idle" /\ attempts[v] = 0
  BY DEF TypeOK, SelectionInv
<1>3. \A v \in Url : state'[v] = "none" => attempts'[v] = 0
  BY <1>1, <1>2
<1>4. \A v \in WikiUrl : pick'[v] = "checked" => state'[v] = "none"
  BY <1>1, SetsAssumption DEF SelectionInv
<1>5. /\ \A v, w \in WikiUrl : Deciding(v)' /\ Deciding(w)' => v = w
      /\ \A v \in WikiUrl : Deciding(v)' /\ saw'[v].url = v => selUrl' = v
  BY DEF SelectionInv, Deciding
<1>6. \A v \in WikiUrl : Settler(v) => Settler(v)'
  BY <1>1, <1>2, SetsAssumption DEF Settler, Early, Pending
<1> QED BY <1>3, <1>4, <1>5, <1>6 DEF SelectionInv

\* Handlers of the HTTP process never take the job of a selection away.
LEMMA RequestSelection ==
    ASSUME "overlap" \notin Happens, TypeOK, SelectionInv, Request PROVE SelectionInv'
<1>1. ASSUME NEW u \in Url, DownloadRemote(u) PROVE SelectionInv'
  <2>1. Enqueue({u}, u \in Named)  BY <1>1 DEF DownloadRemote
  <2>2. \A v \in WikiUrl : pick[v] = "checked" => v # u
    BY <1>1 DEF DownloadRemote, Unchecked
  <2> QED BY <1>1, <2>1, <2>2, EnqueueSelection DEF DownloadRemote, selVars
<1>2. ASSUME NEW u \in Url, ApplyUpdate(u) PROVE SelectionInv'
  <2>1. Enqueue({u}, TRUE)  BY <1>2 DEF ApplyUpdate
  <2>2. \A v \in WikiUrl : pick[v] = "checked" => v \notin {u}
    BY <1>2 DEF ApplyUpdate, Unchecked
  <2>3. UNCHANGED <<selUrl, selStatus, pick, saw, listening, cutOff>>
    BY <1>2 DEF ApplyUpdate, selVars
  <2> QED BY <2>1, <2>2, <2>3, EnqueueSelection
<1>3. ASSUME NEW t \in Tiers, DownloadCategoryTier(t) PROVE SelectionInv'
  <2>1. Enqueue({u \in t : row[ResourceOf[u]] = None}, TRUE)
    BY <1>3 DEF DownloadCategoryTier
  <2>2. \A v \in WikiUrl : v \notin t
    BY SetsAssumption
  <2> QED BY <1>3, <2>1, <2>2, EnqueueSelection DEF DownloadCategoryTier, selVars
<1>4. CASE SelectNone
  <2>1. \A v \in WikiUrl : ~Deciding(v)
    BY <1>4 DEF SelectNone, Unread, Deciding
  <2>2. UNCHANGED <<state, phase, attempts, pick, saw>> /\ selStatus' = "none"
    BY <1>4 DEF SelectNone, jobVars
  <2> QED BY <2>1, <2>2 DEF SelectionInv, Deciding
<1>5. CASE \E u \in Url : DeleteZim(u)
  BY <1>5, NoJobSelection DEF DeleteZim, jobVars, selVars
<1>6. ASSUME NEW u \in Url, RemoveFailedJob(u) PROVE SelectionInv'
  <2>1. /\ \A v \in Url \ {u} : /\ state'[v] = state[v] /\ phase'[v] = phase[v]
                                /\ attempts'[v] = attempts[v]
        /\ attempts'[u] = 0 /\ state[u] # "none"
    BY <1>6 DEF RemoveFailedJob, Forget, TypeOK
  <2>2. UNCHANGED <<selUrl, selStatus, pick, saw, listening, cutOff>>
    BY <1>6 DEF RemoveFailedJob, selVars
  <2>3. ~Early(u)
    BY <1>6 DEF RemoveFailedJob, Early, Pending, TypeOK
  <2> QED BY <2>1, <2>2, <2>3, OneJobSelection
<1> QED BY <1>1, <1>2, <1>3, <1>4, <1>5, <1>6 DEF Request

\* A choice that saves the selection has seen that there is no job, and adds one.
LEMMA ChoiceSelection ==
    ASSUME "overlap" \notin Happens, TypeOK, SelectionInv, NEW u \in WikiUrl, Choice(u)
    PROVE  SelectionInv'
<1>1. CASE SelectWikipedia(u)
  <2>1. /\ pick' = [pick EXCEPT ![u] = "read"] /\ pick[u] = "none"
        /\ saw' = [saw EXCEPT ![u] = [url |-> selUrl, status |-> selStatus]]
        /\ UNCHANGED <<state, phase, attempts, selUrl, selStatus, listening, cutOff>>
    BY <1>1 DEF SelectWikipedia, jobVars
  <2>2. \A v \in WikiUrl : ~Deciding(v)
    BY <1>1 DEF SelectWikipedia, Unread, Deciding
  <2>3. pick'[u] = "read" /\ saw'[u].url = selUrl
        /\ \A v \in WikiUrl \ {u} : pick'[v] = pick[v] /\ saw'[v] = saw[v]
    BY <2>1 DEF TypeOK
  <2>4. selStatus' = "downloading" => selUrl' \in WikiUrl /\ Settler(selUrl)'
    BY <2>1, <2>3 DEF SelectionInv, Settler, Early, Pending
  <2> QED BY <2>1, <2>2, <2>3, <2>4 DEF SelectionInv, Deciding
<1>2. CASE CheckExisting(u)
  <2>1. pick[u] = "read" /\ UNCHANGED <<state, phase, attempts, selUrl, selStatus, listening, cutOff>>
        /\ \A v \in WikiUrl \ {u} : pick'[v] = pick[v] /\ saw'[v] = saw[v]
    BY <1>2 DEF CheckExisting, jobVars, TypeOK
  <2>2. \/ pick'[u] = "none"
        \/ pick'[u] = "checked" /\ saw'[u] = saw[u] /\ state[u] = "none"
    BY <1>2 DEF CheckExisting, TypeOK
  <2>3. \A v \in WikiUrl : pick'[v] = "checked" => state'[v] = "none"
    BY <2>1, <2>2 DEF SelectionInv
  <2>4. \A v \in WikiUrl : Deciding(v)' => Deciding(v) /\ saw'[v] = saw[v]
    BY <2>1, <2>2 DEF Deciding
  <2>5. selStatus' = "downloading" => selUrl' \in WikiUrl /\ Settler(selUrl)'
    BY <2>1, <2>2 DEF SelectionInv, Settler, Early, Pending
  <2>6. \A v \in WikiUrl : Deciding(v)' /\ saw'[v].url = v => selUrl' = v
    BY <2>1, <2>4 DEF SelectionInv
  <2>7. \A v, w \in WikiUrl : Deciding(v)' /\ Deciding(w)' => v = w
    BY <2>4 DEF SelectionInv
  <2>8. \A v \in Url : state'[v] = "none" => attempts'[v] = 0
    BY <2>1 DEF SelectionInv
  <2> QED BY <2>3, <2>5, <2>6, <2>7, <2>8 DEF SelectionInv
<1>3. CASE SaveSelection(u)
  <2>1. pick[u] = "checked" /\ state[u] = "none" /\ Deciding(u)
    BY <1>3 DEF SaveSelection, SelectionInv, Deciding
  <2>2. selUrl' = u
    BY <1>3, <2>1 DEF SaveSelection, SelectionInv
  <2>3. pick'[u] = "saved" /\ \A v \in WikiUrl \ {u} : pick'[v] = pick[v]
    BY <1>3 DEF SaveSelection, TypeOK
  <2>4. UNCHANGED <<state, phase, attempts>>
    BY <1>3 DEF SaveSelection, jobVars
  <2>5. \A v \in WikiUrl : ~Deciding(v)'
    BY <2>1, <2>3 DEF SelectionInv, Deciding
  <2>6. Settler(u)'
    BY <2>1, <2>3, <2>4 DEF Settler
  <2>7. \A v \in WikiUrl : pick'[v] # "checked"
    BY <2>5 DEF Deciding
  <2> QED BY <2>2, <2>4, <2>5, <2>6, <2>7 DEF SelectionInv
<1>4. CASE DispatchSelection(u)
  <2>1. Enqueue({u}, FALSE)  BY <1>4 DEF DispatchSelection
  <2>2. pick[u] = "saved"
        /\ \A v \in WikiUrl : pick'[v] = IF v = u THEN "none" ELSE pick[v]
    BY <1>4 DEF DispatchSelection, TypeOK
  <2>3. UNCHANGED <<selUrl, selStatus, saw, listening, cutOff>>
    BY <1>4 DEF DispatchSelection
  <2>4. \A v \in WikiUrl : pick'[v] = pick[v] \/ (pick'[v] = "none" /\ v \in {u})
    BY <2>2
  <2>5. \A v \in WikiUrl : pick[v] = "checked" => v \notin {u}
    BY <2>2
  <2> QED BY <2>1, <2>3, <2>4, <2>5, EnqueueSelection, Zenon
<1>5. CASE DispatchFails(u)
  <2>1. pick[u] = "saved" /\ UNCHANGED <<state, phase, attempts, selUrl, selStatus, saw, listening>>
        /\ \A v \in WikiUrl : pick'[v] = IF v = u THEN "none" ELSE pick[v]
    BY <1>5 DEF DispatchFails, jobVars, TypeOK
  <2>2. (cutOff => cutOff') /\ (selStatus = "downloading" /\ selUrl = u => cutOff')
    BY <1>5 DEF DispatchFails, CutOff
  <2>3. selStatus' = "downloading" => selUrl' \in WikiUrl /\ Settler(selUrl)'
    BY <2>1, <2>2 DEF SelectionInv, Settler, Early, Pending
  <2>4. \A v \in WikiUrl : Deciding(v)' => Deciding(v)
    BY <2>1 DEF Deciding
  <2>5. \A v \in WikiUrl : pick'[v] = "checked" => pick[v] = "checked"
    BY <2>1
  <2> QED BY <2>1, <2>3, <2>4, <2>5 DEF SelectionInv
<1> QED BY <1>1, <1>2, <1>3, <1>4, <1>5 DEF Choice

\* A listener that finds the selection at its edition marks it, or its error is a cut.
LEMMA ListenerSelection ==
    ASSUME TypeOK, SelectionInv, NEW u \in WikiUrl, Listener(u) PROVE SelectionInv'
<1>1. CASE ListenerRead(u)
  <2>1. \A v \in WikiUrl \ {u} : listening'[v] = listening[v]
    BY <1>1 DEF ListenerRead, TypeOK
  <2>2. selStatus = "downloading" /\ selUrl = u => "read" \in listening'[u]
    BY <1>1 DEF ListenerRead, TypeOK
  <2>3. selStatus = "downloading" => selUrl \in WikiUrl
    BY DEF SelectionInv
  <2> QED BY <1>1, <2>1, <2>2, <2>3, NoJobSelection DEF ListenerRead, jobVars
<1>2. CASE ListenerSave(u)
  BY <1>2, NoJobSelection DEF ListenerSave, jobVars
<1>3. CASE ListenerError(u)
  <2>1. \A v \in WikiUrl \ {u} : listening'[v] = listening[v]
    BY <1>3 DEF ListenerError, TypeOK
  <2>2. (cutOff => cutOff') /\ (selStatus = "downloading" /\ selUrl = u => cutOff')
    BY <1>3 DEF ListenerError, CutOff
  <2>3. selStatus = "downloading" => selUrl \in WikiUrl
    BY DEF SelectionInv
  <2> QED BY <1>3, <2>1, <2>2, <2>3, NoJobSelection DEF ListenerError, jobVars
<1> QED BY <1>1, <1>2, <1>3 DEF Listener

\* A start of the server cuts off the choices under way, and the reconciliation none.
LEMMA ReconcileSelection ==
    ASSUME TypeOK, SelectionInv, Reconcile PROVE SelectionInv'
<1>1. CASE ServerStarts
  <2>1. UNCHANGED <<state, phase, attempts, selUrl, selStatus, listening>>
        /\ \A v \in WikiUrl : pick'[v] = "none"
    BY <1>1 DEF ServerStarts, jobVars
  <2>2. /\ cutOff => cutOff'
        /\ selStatus = "downloading" /\ selUrl \in WikiUrl /\ pick[selUrl] = "saved" => cutOff'
    BY <1>1 DEF ServerStarts, CutOff
  <2>3. selStatus' = "downloading" => selUrl' \in WikiUrl /\ Settler(selUrl)'
    BY <2>1, <2>2 DEF SelectionInv, Settler, Early, Pending
  <2> QED BY <2>1, <2>3 DEF SelectionInv, Deciding
<1>2. CASE ListFiles \/ QueryRows
  BY <1>2, NoJobSelection DEF ListFiles, QueryRows, jobVars, selVars
<1>3. CASE \E u \in Url : RecordFound(u)
  BY <1>3, NoJobSelection DEF RecordFound, jobVars, selVars
<1>4. CASE \E r \in Resource : RemoveEntry(r)
  BY <1>4, NoJobSelection DEF RemoveEntry, jobVars, selVars
<1> QED BY <1>1, <1>2, <1>3, <1>4 DEF Reconcile

\* A step of the worker between two phases, none of which is past the mark.
LEMMA StepSelection ==
    ASSUME TypeOK, SelectionInv, NEW u \in Url, phase[u] # "idle",
           NEW p, p \notin {"marked", "swept", "announced"},
           phase' = [phase EXCEPT ![u] = p], UNCHANGED <<state, attempts, selVars>>
    PROVE  SelectionInv'
<1>1. /\ phase'[u] = p /\ \A v \in Url \ {u} : phase'[v] = phase[v]
      /\ UNCHANGED <<selUrl, selStatus, pick, saw, listening, cutOff>>
  BY DEF TypeOK, selVars
<1>2. Early(u) => Settler(u)'
  BY <1>1 DEF Settler, Early, Pending
<1>3. state[u] = "active" /\ (state'[u] = "none" => attempts'[u] = 0)
  BY DEF SelectionInv, TypeOK
<1> QED BY <1>1, <1>2, <1>3, OneJobSelection

\* A step of a job that a selection shown as downloading does not wait for.
LEMMA LateSelection ==
    ASSUME TypeOK, SelectionInv, NEW u \in Url, state[u] # "none",
           ~(selStatus' = "downloading" /\ u = selUrl /\ Early(u)),
           UNCHANGED <<selUrl, pick, saw, listening>>,
           selStatus' = "downloading" => selStatus = "downloading" /\ (cutOff => cutOff'),
           \A v \in Url \ {u} : /\ state'[v] = state[v] /\ phase'[v] = phase[v]
                                /\ attempts'[v] = attempts[v],
           state'[u] = "none" => attempts'[u] = 0
    PROVE  SelectionInv'
BY OneJobSelection

\* The worker settles the selection before its job is gone.
LEMMA WorkSelection ==
    ASSUME TypeOK, SelectionInv, NEW u \in Url, Work(u) PROVE SelectionInv'
<1> DEFINE Late == phase[u] \in {"marked", "swept", "announced"}
<1>1. Late => ~Early(u) /\ state[u] # "none"
  BY DEF Early, TypeOK
<1>2. state[u] = "none" => attempts[u] = 0
  BY DEF SelectionInv
<1>3. CASE StartJob(u)
  <2>1. /\ state'[u] = "active" /\ phase'[u] = "requesting" /\ attempts'[u] = attempts[u]
        /\ \A v \in Url \ {u} : /\ state'[v] = state[v] /\ phase'[v] = phase[v]
                                /\ attempts'[v] = attempts[v]
        /\ state[u] # "none"
        /\ UNCHANGED <<selUrl, selStatus, pick, saw, listening, cutOff>>
    BY <1>3 DEF StartJob, TypeOK, selVars
  <2>2. Early(u) => Settler(u)'
    BY <2>1 DEF Settler, Early, Pending
  <2> QED BY <2>1, <2>2, OneJobSelection
<1>4. CASE OpenFile(u)        BY <1>4, StepSelection DEF OpenFile, Step
<1>5. CASE FinishFile(u)      BY <1>5, StepSelection DEF FinishFile, Step
<1>6. CASE LookUpOld(u)       BY <1>6, StepSelection DEF LookUpOld, Step
<1>7. CASE RecordResource(u)  BY <1>7, StepSelection DEF RecordResource, Step
<1>8. CASE RemoveOldFile(u)   BY <1>8, StepSelection DEF RemoveOldFile, Step
<1>9. CASE MarkWikipedia(u)
  <2>1. phase[u] # "idle" /\ state[u] # "none"
        /\ UNCHANGED <<state, attempts, selUrl, selStatus, pick, saw, listening, cutOff>>
    BY <1>9 DEF MarkWikipedia, Indexed, TypeOK, selVars
  <2>2. CASE selUrl = u /\ selStatus # "installed"
    <3>1. phase' = [phase EXCEPT ![u] = "marking"]
      BY <1>9, <2>2 DEF MarkWikipedia
    <3> QED BY <2>1, <3>1, StepSelection DEF selVars
  <2>3. CASE ~(selUrl = u /\ selStatus # "installed")
    <3>1. \A v \in Url \ {u} : phase'[v] = phase[v]
      BY <1>9 DEF MarkWikipedia, TypeOK
    <3> QED BY <1>2, <2>1, <2>3, <3>1, LateSelection
  <2> QED BY <2>2, <2>3
<1>15. CASE SaveInstalled(u)
  <2>1. \A v \in Url \ {u} : phase'[v] = phase[v]
    BY <1>15 DEF SaveInstalled, Step, TypeOK
  <2>2. state[u] # "none"
    BY <1>15 DEF SaveInstalled, Step, TypeOK
  <2> QED BY <1>2, <1>15, <2>1, <2>2, LateSelection DEF SaveInstalled, Step
<1>10. CASE SweepWikipedia(u)
  <2>1. \A v \in Url \ {u} : phase'[v] = phase[v]
    BY <1>10 DEF SweepWikipedia, Step, TypeOK
  <2> QED BY <1>1, <1>2, <1>10, <2>1, LateSelection DEF SweepWikipedia, Step, selVars
<1>11. CASE AnnounceToKiwix(u)
  <2>1. (\A v \in Url \ {u} : phase'[v] = phase[v]) /\ phase[u] # "idle"
    BY <1>11 DEF AnnounceToKiwix, Indexed, TypeOK
  <2>2. ~(selStatus = "downloading" /\ u = selUrl /\ Early(u))
    BY <1>1, <1>11 DEF AnnounceToKiwix, SelectionInv
  <2>3. state[u] # "none"
    BY <2>1 DEF TypeOK
  <2> QED BY <1>2, <1>11, <2>1, <2>2, <2>3, LateSelection DEF AnnounceToKiwix, selVars
<1>12. CASE CompleteJob(u)
  <2>1. /\ \A v \in Url \ {u} : /\ state'[v] = state[v] /\ phase'[v] = phase[v]
                                /\ attempts'[v] = attempts[v]
        /\ attempts'[u] = 0
    BY <1>12 DEF CompleteJob, Forget, TypeOK
  <2> QED BY <1>1, <1>12, <2>1, LateSelection DEF CompleteJob, selVars
<1>13. CASE RetryDue(u)
  <2>1. /\ state'[u] = "waiting" /\ UNCHANGED <<phase, attempts>> /\ state[u] # "none"
        /\ \A v \in Url \ {u} : state'[v] = state[v]
        /\ UNCHANGED <<selUrl, selStatus, pick, saw, listening, cutOff>>
    BY <1>13 DEF RetryDue, TypeOK, selVars
  <2>2. Early(u) => Settler(u)'
    BY <2>1 DEF Settler, Early, Pending
  <2> QED BY <2>1, <2>2, OneJobSelection
<1>14. CASE RecoverStalled(u)
  <2>1. /\ \A v \in Url \ {u} : state'[v] = state[v] /\ phase'[v] = phase[v]
        /\ phase'[u] = "idle" /\ state[u] # "none" /\ state'[u] \in {"waiting", "failed"}
        /\ UNCHANGED <<attempts, selUrl, selStatus, pick, saw, cutOff>>
    BY <1>14 DEF RecoverStalled, TypeOK
  <2>2. \A v \in WikiUrl : listening[v] # {} => listening'[v] # {}
    BY <1>14 DEF RecoverStalled, OnFailed, TypeOK
  <2>3. u \in WikiUrl /\ state'[u] = "failed" => listening'[u] # {}
    <3>1. stalls[u] < MaxStalled => state'[u] = "waiting"
      BY <1>14 DEF RecoverStalled, TypeOK
    <3>2. ~(stalls[u] < MaxStalled) => OnFailed(u)
      BY <1>14 DEF RecoverStalled
    <3>3. u \in WikiUrl /\ OnFailed(u) => "called" \in listening'[u]
      BY DEF OnFailed, TypeOK
    <3> QED BY <3>1, <3>2, <3>3
  <2>4. selStatus' = "downloading" /\ u = selUrl /\ Early(u) => Settler(u)'
    BY <2>1, <2>3 DEF SelectionInv, Settler, Early, Pending
  <2> QED BY <2>1, <2>2, <2>4, OneJobSelection
<1> QED BY <1>3, <1>4, <1>5, <1>6, <1>7, <1>8, <1>9, <1>10, <1>11, <1>12, <1>13, <1>14,
          <1>15 DEF Work

\* If one choice of an edition ends before the next request about that edition is taken, a
\* selection shown as downloading has somebody who will settle it, unless an error or a
\* death cut that one off: for any number of editions, failures, retries and crashes.
THEOREM SelectionHasJob ==
    ASSUME "overlap" \notin Happens PROVE Spec => []DownloadingHasJob
<1> DEFINE Inv == TypeOK /\ SelectionInv
<1>1. Init => Inv
  <2> SUFFICES ASSUME Init PROVE Inv
    OBVIOUS
  <2> QED BY InitType DEF Init, SelectionInv, Deciding
<1>2. Inv /\ [Next]_vars => Inv'
  <2> SUFFICES ASSUME TypeOK, SelectionInv, [Next]_vars PROVE Inv'
    OBVIOUS
  <2>1. TypeOK'  BY StepType
  <2>2. SelectionInv'
    <3>1. CASE UNCHANGED vars
      BY <3>1, NoJobSelection DEF vars, jobVars, selVars
    <3>2. CASE Crash
      <4>1. /\ UNCHANGED <<state, attempts, selUrl, selStatus, pick, saw>>
            /\ \A v \in Url : phase'[v] \in {phase[v], "orphaned"}
        BY <3>2 DEF Crash
      <4>2. /\ cutOff => cutOff'
            /\ selStatus = "downloading" /\ selUrl \in WikiUrl /\ listening[selUrl] # {} => cutOff'
        BY <3>2 DEF Crash, CutOff, Listeners
      <4>3. selStatus' = "downloading" => selUrl' \in WikiUrl /\ Settler(selUrl)'
        BY <4>1, <4>2, SetsAssumption DEF SelectionInv, Settler, Early, Pending
      <4> QED BY <4>1, <4>3 DEF SelectionInv, Deciding
    <3>3. ASSUME NEW u \in Url, Progress(u) PROVE SelectionInv'
      BY <3>3, NoJobSelection DEF Progress, selVars
    <3>4. ASSUME NEW u \in Url, FailAttempt(u) PROVE SelectionInv'
      <4>1. /\ \A v \in Url \ {u} : /\ state'[v] = state[v] /\ phase'[v] = phase[v]
                                    /\ attempts'[v] = attempts[v]
            /\ state'[u] \in {"delayed", "failed"} /\ state[u] # "none"
        BY <3>4 DEF FailAttempt, TypeOK
      <4>2. UNCHANGED <<selUrl, selStatus, pick, saw, cutOff>>
        BY <3>4 DEF FailAttempt
      <4>3. /\ \A v \in WikiUrl : listening[v] # {} => listening'[v] # {}
            /\ u \in WikiUrl => listening'[u] # {}
        BY <3>4 DEF FailAttempt, OnFailed, TypeOK
      <4>4. selStatus' = "downloading" /\ u = selUrl => Settler(u)'
        BY <4>2, <4>3 DEF SelectionInv, Settler
      <4> QED BY <4>1, <4>2, <4>3, <4>4, OneJobSelection
    <3>5. ASSUME NEW u \in Url, CallbackError(u) PROVE SelectionInv'
      <4>1. /\ \A v \in Url \ {u} : /\ state'[v] = state[v] /\ phase'[v] = phase[v]
                                    /\ attempts'[v] = attempts[v]
            /\ attempts'[u] = 0 /\ state[u] # "none"
        BY <3>5 DEF CallbackError, CallbackPhases, Forget, TypeOK
      <4>2. UNCHANGED <<selUrl, selStatus, pick, saw, listening>>
        BY <3>5 DEF CallbackError
      <4>3. /\ cutOff => cutOff'
            /\ selStatus = "downloading" /\ u = selUrl /\ Early(u) => cutOff'
        BY <3>5 DEF CallbackError, CutOff, Early
      <4> QED BY <4>1, <4>2, <4>3, OneJobSelection DEF Settler
    <3> QED BY <3>1, <3>2, <3>3, <3>4, <3>5, RequestSelection, ChoiceSelection,
               ListenerSelection, ReconcileSelection, WorkSelection DEF Next
  <2> QED BY <2>1, <2>2
<1>3. Inv => DownloadingHasJob
  BY DEF SelectionInv, DownloadingHasJob, Settler, Early
<1> QED BY <1>1, <1>2, <1>3, PTL DEF Spec

-----------------------------------------------------------------------------
(* The catalogue *)

\* Nobody deletes or dismisses anything but through the Wikipedia selection, whose files
\* are of resources of their own, and the callback does not fail.
Untouched ==
    /\ Happens \cap {"delete", "dismiss", "callback error"} = {}
    /\ \A w \in WikiUrl, u \in Url \ WikiUrl : ResourceOf[w] # ResourceOf[u]

Content == Named \ WikiUrl

\* A finished file that no reconciliation has endangered.
Safe(u) == disk[u] = "complete" /\ u \notin missed

\* The reconciliation under way knows of every safe file, and is about to delete the rows
\* of no other: what it has listed decides what it deletes.
CatalogueInv ==
    /\ FinishedIsRecorded
    /\ recon # "idle" => doomed = {}
    /\ todo # {} => recon = "recording"
    /\ \A u \in Content : Safe(u) =>
          /\ ResourceOf[u] \notin doomed
          /\ recon = "recording" => Found(ResourceOf[u])

\* It is enough that a step outside the reconciliation makes no file safe without its job,
\* ends no job and empties no row of a safe file.
LEMMA KeepsRecorded ==
    ASSUME CatalogueInv, UNCHANGED <<recVars, missed>>,
           \A u \in Content : disk'[u] = "complete" => disk[u] = "complete",
           \A u \in Content : state[u] # "none" =>
              state'[u] # "none" \/ row'[ResourceOf[u]] # None,
           \A u \in Content : row[ResourceOf[u]] # None => row'[ResourceOf[u]] # None
    PROVE  CatalogueInv'
<1>1. FinishedIsRecorded'
  BY DEF CatalogueInv, FinishedIsRecorded, Content
<1>2. \A u \in Content : Safe(u)' => Safe(u)
  BY DEF Safe
<1>3. \A u \in Content : Found(ResourceOf[u])' <=> Found(ResourceOf[u])
  BY DEF Found, recVars
<1> QED BY <1>1, <1>2, <1>3 DEF CatalogueInv, recVars

\* Unlinking Wikipedia files leaves the rows of all others.
LEMMA UnlinkRecorded ==
    ASSUME Untouched, TypeOK, CatalogueInv, NEW S \in SUBSET WikiUrl, Unlink(S),
           UNCHANGED <<state, recVars, missed>>
    PROVE  CatalogueInv'
<1>1. \A u \in Content : disk'[u] = disk[u]
  BY SetsAssumption DEF Unlink, Content
<1>2. \A u \in Content : row'[ResourceOf[u]] = row[ResourceOf[u]]
  BY SetsAssumption DEF Unlink, Untouched, Content
<1> QED BY <1>1, <1>2, KeepsRecorded

\* Jobs that are added, and steps of jobs that stay, change nothing of it.
LEMMA JobsRecorded ==
    ASSUME CatalogueInv, UNCHANGED <<disk, row, missed, recVars>>,
           \A u \in Url : state[u] # "none" => state'[u] # "none"
    PROVE  CatalogueInv'
BY KeepsRecorded, SetsAssumption DEF Content

\* Added jobs are such jobs.
LEMMA EnqueueRecorded ==
    ASSUME CatalogueInv, NEW S, NEW b, Enqueue(S, b), UNCHANGED <<disk, row, missed, recVars>>
    PROVE  CatalogueInv'
<1>1. \A u \in Url : state[u] # "none" => state'[u] # "none"
  BY DEF Enqueue
<1> QED BY <1>1, JobsRecorded

LEMMA RequestRecorded ==
    ASSUME Untouched, TypeOK, CatalogueInv, Request PROVE CatalogueInv'
<1>1. CASE \E u \in Url : DownloadRemote(u) \/ ApplyUpdate(u)
  BY <1>1, EnqueueRecorded DEF DownloadRemote, ApplyUpdate, libVars
<1>2. CASE \E t \in Tiers : DownloadCategoryTier(t)
  BY <1>2, EnqueueRecorded DEF DownloadCategoryTier, libVars
<1>3. CASE SelectNone
  <2>1. {u \in Url : u = selUrl} \in SUBSET WikiUrl
    BY SetsAssumption DEF TypeOK
  <2> QED BY <1>3, <2>1, UnlinkRecorded DEF SelectNone, jobVars
<1>4. CASE \E u \in Url : DeleteZim(u) \/ RemoveFailedJob(u)
  BY <1>4 DEF DeleteZim, RemoveFailedJob, Untouched
<1> QED BY <1>1, <1>2, <1>3, <1>4 DEF Request

LEMMA BesideRecorded ==
    ASSUME TypeOK, CatalogueInv, NEW u \in WikiUrl, Choice(u) \/ Listener(u)
    PROVE  CatalogueInv'
<1>1. CASE DispatchSelection(u)
  BY <1>1, EnqueueRecorded DEF DispatchSelection, libVars
<1>2. CASE ~DispatchSelection(u)
  BY <1>2, JobsRecorded
     DEF Choice, SelectWikipedia, CheckExisting, SaveSelection, DispatchFails, Listener,
         ListenerRead, ListenerSave, ListenerError, jobVars, libVars
<1> QED BY <1>1, <1>2

\* A reconciliation deletes the rows of what it did not list, and the safe files are listed.
LEMMA ReconcileRecorded ==
    ASSUME TypeOK, CatalogueInv, Reconcile PROVE CatalogueInv'
<1>1. CASE ServerStarts
  BY <1>1 DEF ServerStarts, CatalogueInv, FinishedIsRecorded, Safe, jobVars, libVars
<1>2. CASE ListFiles
  <2>1. \A u \in Content : Safe(u) => \E v \in listed' : ResourceOf[v] = ResourceOf[u]
    BY <1>2, SetsAssumption DEF ListFiles, Safe, Content
  <2>2. \A u \in Content : Safe(u) => Found(ResourceOf[u])'
    BY <2>1 DEF Found
  <2>3. FinishedIsRecorded'
    BY <1>2 DEF ListFiles, CatalogueInv, FinishedIsRecorded, jobVars, libVars
  <2>4. recon = "starting" /\ recon' = "recording"
    BY <1>2 DEF ListFiles
  <2> QED BY <1>2, <2>2, <2>3, <2>4 DEF ListFiles, CatalogueInv, Safe, libVars
<1>3. ASSUME NEW u \in Url, RecordFound(u) PROVE CatalogueInv'
  <2>1. u \in listed /\ recon = "recording" /\ doomed = {}
    BY <1>3 DEF RecordFound, CatalogueInv, TypeOK
  <2>2. \A r \in Resource : row[r] # None => row'[r] # None
    BY <1>3, SetsAssumption DEF RecordFound, TypeOK
  <2>3. row'[ResourceOf[u]] # None
    BY <1>3, SetsAssumption DEF RecordFound, TypeOK
  <2>4. FinishedIsRecorded'
    BY <1>3, <2>2, <2>3, SetsAssumption
       DEF RecordFound, CatalogueInv, FinishedIsRecorded, jobVars
  <2>5. Found(ResourceOf[u])
    BY <2>1 DEF Found
  <2>6. \A v \in Content : Safe(v)' => Safe(v) \/ v = u
    BY <1>3 DEF RecordFound, Safe
  <2>7. \A v \in Content : Found(ResourceOf[v])' <=> Found(ResourceOf[v])
    BY <1>3 DEF RecordFound, Found
  <2>8. \A v \in Content : Safe(v)' => ResourceOf[v] \notin doomed' /\ Found(ResourceOf[v])'
    BY <1>3, <2>1, <2>5, <2>6, <2>7 DEF RecordFound, CatalogueInv
  <2>9. recon' = "recording" /\ doomed' = {}
    BY <1>3, <2>1 DEF RecordFound
  <2> QED BY <2>4, <2>8, <2>9 DEF CatalogueInv
<1>4. CASE QueryRows
  <2>1. \A u \in Content : Safe(u) => ResourceOf[u] \notin doomed'
    BY <1>4 DEF QueryRows, CatalogueInv
  <2>2. recon' = "idle" /\ todo' = {} /\ UNCHANGED <<disk, missed>>
    BY <1>4 DEF QueryRows, libVars
  <2>3. FinishedIsRecorded'
    BY <1>4 DEF QueryRows, CatalogueInv, FinishedIsRecorded, jobVars, libVars
  <2> QED BY <2>1, <2>2, <2>3 DEF CatalogueInv, Safe
<1>5. ASSUME NEW r \in Resource, RemoveEntry(r) PROVE CatalogueInv'
  <2>1. \A u \in Content : Safe(u) => row'[ResourceOf[u]] = row[ResourceOf[u]]
    BY <1>5, SetsAssumption DEF RemoveEntry, CatalogueInv, TypeOK, Content
  <2>2. FinishedIsRecorded'
    BY <1>5, <2>1 DEF RemoveEntry, CatalogueInv, FinishedIsRecorded, Safe, Content, jobVars
  <2>3. \A u \in Content : Found(ResourceOf[u])' <=> Found(ResourceOf[u])
    BY <1>5 DEF RemoveEntry, Found
  <2> QED BY <1>5, <2>2, <2>3 DEF RemoveEntry, CatalogueInv, Safe
<1> QED BY <1>1, <1>2, <1>3, <1>4, <1>5 DEF Reconcile

\* A file that is finished is safe only if the reconciliation under way knows its resource.
LEMMA FinishRecorded ==
    ASSUME TypeOK, CatalogueInv, NEW u \in Url, FinishFile(u) PROVE CatalogueInv'
<1>1. state[u] # "none" /\ UNCHANGED <<state, row, recVars>>
  BY DEF FinishFile, Step, TypeOK
<1>2. \A v \in Url \ {u} : disk'[v] = disk[v]
  BY DEF FinishFile, Written, TypeOK
<1>3. missed' = missed \cup {v \in {u} \ WikiUrl : Endangered(ResourceOf[v])}
  BY DEF FinishFile, Written
<1>4. \A v \in Content : Safe(v)' =>
         ResourceOf[v] \notin doomed /\ (recon = "recording" => Found(ResourceOf[v]))
  <2> SUFFICES ASSUME NEW v \in Content, Safe(v)'
               PROVE  ResourceOf[v] \notin doomed /\ (recon = "recording" => Found(ResourceOf[v]))
    OBVIOUS
  <2>1. CASE v = u
    BY <1>3, <2>1 DEF Safe, Content, Endangered
  <2>2. CASE v # u
    <3>1. Safe(v)  BY <1>2, <1>3, <2>2, SetsAssumption DEF Safe, Content
    <3> QED BY <3>1 DEF CatalogueInv
  <2> QED BY <2>1, <2>2
<1>5. \A v \in Content : Found(ResourceOf[v])' <=> Found(ResourceOf[v])
  BY <1>1 DEF Found, recVars
<1>6. FinishedIsRecorded'
  BY <1>1, <1>2, <1>3, SetsAssumption DEF CatalogueInv, FinishedIsRecorded
<1> QED BY <1>1, <1>4, <1>5, <1>6 DEF CatalogueInv, recVars

\* Writing a row empties none.
LEMMA RowsKept ==
    ASSUME TypeOK, NEW u \in Url, row' = row \/ row' = [row EXCEPT ![ResourceOf[u]] = u]
    PROVE  \A r \in Resource : row[r] # None => row'[r] # None
<1>1. \A r \in Resource : row'[r] = row[r] \/ row'[r] = u
  BY DEF TypeOK
<1>2. u # None  BY SetsAssumption
<1> QED BY <1>1, <1>2, Zenon

LEMMA WorkRecorded ==
    ASSUME Untouched, TypeOK, CatalogueInv, NEW u \in Url, Work(u)
    PROVE  CatalogueInv'
<1>1. CASE StartJob(u)        BY <1>1, JobsRecorded DEF StartJob, TypeOK, libVars
<1>2. CASE OpenFile(u)
  <2>1. \A v \in Url : disk'[v] = "complete" => disk[v] = "complete"
    BY <1>2 DEF OpenFile, TypeOK
  <2> QED BY <1>2, <2>1, SetsAssumption, KeepsRecorded DEF OpenFile, Step, Content
<1>3. CASE FinishFile(u)      BY <1>3, FinishRecorded
<1>4. CASE LookUpOld(u)       BY <1>4, JobsRecorded DEF LookUpOld, Step, libVars
<1>5. CASE RecordResource(u)
  <2>1. \A r \in Resource : row[r] # None => row'[r] # None
    BY <1>5, RowsKept DEF RecordResource
  <2> QED BY <1>5, <2>1, SetsAssumption, KeepsRecorded DEF RecordResource, Step, Content
<1>6. CASE RemoveOldFile(u)
  <2>1. \A v \in Url : disk'[v] = "complete" => disk[v] = "complete"
    BY <1>6 DEF RemoveOldFile
  <2> QED BY <1>6, <2>1, SetsAssumption, KeepsRecorded DEF RemoveOldFile, Step, Content
<1>7. CASE MarkWikipedia(u)   BY <1>7, JobsRecorded DEF MarkWikipedia, libVars
<1>13. CASE SaveInstalled(u)  BY <1>13, JobsRecorded DEF SaveInstalled, Step, libVars
<1>8. CASE SweepWikipedia(u)
  BY <1>8, UnlinkRecorded DEF SweepWikipedia, Step
<1>9. CASE AnnounceToKiwix(u) BY <1>9, JobsRecorded DEF AnnounceToKiwix
<1>10. CASE CompleteJob(u)
  <2>1. \A v \in Url \ {u} : state'[v] = state[v]
    BY <1>10 DEF CompleteJob, Forget, TypeOK
  <2>2. \A r \in Resource : row[r] # None => row'[r] # None
    BY <1>10, RowsKept DEF CompleteJob
  <2>3. u \in Content => row'[ResourceOf[u]] # None
    BY <1>10, SetsAssumption DEF CompleteJob, TypeOK, Content
  <2> QED BY <1>10, <2>1, <2>2, <2>3, SetsAssumption, KeepsRecorded DEF CompleteJob, Content
<1>11. CASE RetryDue(u)       BY <1>11, JobsRecorded DEF RetryDue, TypeOK, libVars
<1>12. CASE RecoverStalled(u)
  <2>1. \A v \in Url : state[v] # "none" => state'[v] # "none"
    BY <1>12 DEF RecoverStalled, TypeOK
  <2> QED BY <1>12, <2>1, JobsRecorded DEF RecoverStalled, libVars
<1> QED BY <1>1, <1>2, <1>3, <1>4, <1>5, <1>6, <1>7, <1>8, <1>9, <1>10, <1>11, <1>12, <1>13
        DEF Work

\* Whatever crashes of the worker and starts of the server cut off, and however jobs and a
\* reconciliation interleave, a finished ZIM with a name that parses has a row once its job
\* is gone, unless it came behind the listing of a reconciliation that no later one mended.
THEOREM FinishedHasRow == ASSUME Untouched PROVE Spec => []FinishedIsRecorded
<1> DEFINE Inv == TypeOK /\ CatalogueInv
<1>1. Init => Inv
  <2> SUFFICES ASSUME Init PROVE Inv
    OBVIOUS
  <2>1. TypeOK  BY InitType
  <2>2. \A u \in Content : disk[u] = "complete" => u \in missed
    BY SetsAssumption DEF Init, Content
  <2>3. FinishedIsRecorded  BY <2>2 DEF FinishedIsRecorded, Content
  <2>4. recon = "idle" /\ doomed = {} /\ todo = {}  BY DEF Init
  <2> QED BY <2>1, <2>2, <2>3, <2>4 DEF CatalogueInv, Safe
<1>2. Inv /\ [Next]_vars => Inv'
  <2> SUFFICES ASSUME TypeOK, CatalogueInv, [Next]_vars PROVE Inv'
    OBVIOUS
  <2>1. TypeOK'  BY StepType
  <2>2. CatalogueInv'
    <3>1. CASE UNCHANGED vars
      BY <3>1, JobsRecorded DEF vars, jobVars, libVars
    <3>2. CASE Crash
      BY <3>2, JobsRecorded DEF Crash, libVars
    <3>3. ASSUME NEW u \in Url, Progress(u) PROVE CatalogueInv'
      BY <3>3, JobsRecorded DEF Progress, libVars
    <3>4. ASSUME NEW u \in Url, FailAttempt(u) PROVE CatalogueInv'
      <4>1. \A v \in Url : state[v] # "none" => state'[v] # "none"
        BY <3>4 DEF FailAttempt, TypeOK
      <4> QED BY <3>4, <4>1, JobsRecorded DEF FailAttempt, libVars
    <3>5. ASSUME NEW u \in Url, CallbackError(u) PROVE CatalogueInv'
      BY <3>5 DEF CallbackError, Untouched
    <3> QED BY <3>1, <3>2, <3>3, <3>4, <3>5, RequestRecorded, BesideRecorded,
               ReconcileRecorded, WorkRecorded DEF Next
  <2> QED BY <2>1, <2>2
<1>3. Inv => FinishedIsRecorded
  BY DEF CatalogueInv
<1> QED BY <1>1, <1>2, <1>3, PTL DEF Spec
=============================================================================
