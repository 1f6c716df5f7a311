-------------------------- MODULE ContentDownloads --------------------------
(***************************************************************************)
(* The ZIM download pipeline: the HTTP process enqueues downloads, one     *)
(* worker process runs them with BullMQ, and the completion callback       *)
(* records the file in the database, maintains the Wikipedia selection and *)
(* decides whether the Kiwix container is restarted.                       *)
(*                                                                         *)
(* A download is named by its URL: the job id is a hash of it and the file *)
(* it writes is its last path segment, so one value stands for the URL,    *)
(* its job and its file.  What decides on what it read before an await is  *)
(* cut there, with what it read as state: the completion callback, the     *)
(* listener of failed attempts, the choice of a Wikipedia edition and the  *)
(* reconciliation of a server start.  Other handlers are one action each.  *)
(***************************************************************************)
EXTENDS Naturals, FiniteSets

CONSTANTS
    Url,          \* the ZIM files that can be downloaded
    WikiUrl,      \* those whose URL contains wikipedia_en_
    NoLength,     \* those whose server sends no Content-Length
    Named,        \* those whose file names parse as <resource>_<version>
    Resource,     \* resource ids parsed from file names
    ResourceOf,   \* the resource a file is a version of
    Tiers,        \* the resolved tiers of the curated categories: sets of files
    Preinstalled, \* the files on disk, and served, when the model starts
    Concurrency,  \* downloads the worker runs at once
    MaxAttempts,  \* attempts given to each job
    MaxStalled,   \* BullMQ's maxStalledCount
    FailLimit,    \* bound: how often the network fails one job
    StallLimit,   \* bound: how often one job is caught in a worker crash
    Happens,      \* the events of this instance (EventKinds)
    None

\* "overlap": other requests read or add what a choice of an edition is deciding on.
EventKinds == {"delete", "dismiss", "reboot", "overlap", "callback error", "docker error",
               "dispatch error", "listener error"}

ASSUME SetsAssumption ==
    /\ WikiUrl \subseteq Url
    /\ NoLength \subseteq Url
    /\ Preinstalled \subseteq Url
    /\ Named \subseteq Url
    /\ Tiers \subseteq SUBSET (Named \ WikiUrl)
    /\ ResourceOf \in [Url -> Resource]
    /\ None \notin Url
    /\ Happens \subseteq EventKinds
ASSUME NumbersAssumption ==
    /\ Concurrency \in Nat \ {0} /\ MaxAttempts \in Nat \ {0}
    /\ MaxStalled \in Nat /\ FailLimit \in Nat /\ StallLimit \in Nat

VARIABLES
    state,      \* BullMQ's state of the job of each URL
    phase,      \* how far the worker is with it
    attempts,   \* failed attempts so far
    stalls,     \* times it was found stalled
    full,       \* its recorded progress is at least 100
    meta,       \* its data carries resourceMetadata
    old,        \* the row the callback read before it wrote its own
    disk,       \* the file in the ZIM directory
    served,     \* the directory as Kiwix saw it at its last (re)start
    row,        \* InstalledResource: the file a resource's row points to
    selUrl,     \* WikipediaSelection.url
    selStatus,  \* WikipediaSelection.status
    pick,       \* how far the request that selects an edition is
    saw,        \* the selection as it read it
    listening,  \* points reached by the listeners of the edition's failed attempts
    recon,      \* how far the reconciliation of the last server start is
    listed,     \* the files it found
    todo,       \* those it has not recorded yet
    doomed,     \* the resources whose rows it is about to delete
    missed,     \* history: files of which no reconciliation has made sure since one endangered their row
    cutOff      \* history: a request, listener or callback of the selection was cut off

jobVars == <<state, phase, attempts, stalls, full, meta, old>>
libVars == <<disk, served, row, missed>>
selVars == <<selUrl, selStatus, pick, saw, listening, cutOff>>
recVars == <<recon, listed, todo, doomed>>
vars == <<jobVars, libVars, selVars, recVars>>

FileStates == {"absent", "partial", "complete"}

\* The phases after the write stream's 'finish' event.
CallbackPhases ==
    {"finished", "looked up", "recorded", "replaced", "marking", "marked", "swept",
     "announced"}
Phases == {"idle", "requesting", "writing", "orphaned"} \cup CallbackPhases

JobStates == {"none", "waiting", "active", "delayed", "failed"}

Selections == [url : WikiUrl \cup {None},
               status : {"none", "downloading", "installed", "failed"}]
Unseen == [url |-> None, status |-> "none"]

TypeOK ==
    /\ state \in [Url -> JobStates]
    /\ phase \in [Url -> Phases]
    /\ attempts \in [Url -> 0 .. MaxAttempts]
    /\ stalls \in [Url -> Nat]
    /\ full \in [Url -> BOOLEAN]
    /\ meta \in [Url -> BOOLEAN]
    /\ old \in [Url -> Url \cup {None}]
    /\ disk \in [Url -> FileStates]
    /\ served \in [Url -> FileStates]
    /\ row \in [Resource -> Url \cup {None}]
    /\ selUrl \in WikiUrl \cup {None}
    /\ selStatus \in {"none", "downloading", "installed", "failed"}
    /\ pick \in [WikiUrl -> {"none", "read", "checked", "saved"}]
    /\ saw \in [WikiUrl -> Selections]
    /\ listening \in [WikiUrl -> SUBSET {"called", "read"}]
    /\ recon \in {"idle", "starting", "recording"}
    /\ todo \subseteq listed /\ listed \subseteq Named \ WikiUrl
    /\ doomed \subseteq Resource
    /\ missed \subseteq Url /\ cutOff \in BOOLEAN
    /\ \A u \in Url : state[u] = "active" <=> phase[u] # "idle"
    /\ \A u \in Url : state[u] # "failed" => attempts[u] < MaxAttempts

Init ==
    /\ state = [u \in Url |-> "none"]
    /\ phase = [u \in Url |-> "idle"]
    /\ attempts = [u \in Url |-> 0]
    /\ stalls = [u \in Url |-> 0]
    /\ full = [u \in Url |-> FALSE]
    /\ meta = [u \in Url |-> FALSE]
    /\ old = [u \in Url |-> None]
    /\ disk = [u \in Url |-> IF u \in Preinstalled THEN "complete" ELSE "absent"]
    /\ served = disk
    /\ row = [r \in Resource |-> None]
    /\ selUrl = None
    /\ selStatus = "none"
    /\ pick = [u \in WikiUrl |-> "none"]
    /\ saw = [u \in WikiUrl |-> Unseen]
    /\ listening = [u \in WikiUrl |-> {}]
    /\ recon = "idle"
    /\ listed = {} /\ todo = {} /\ doomed = {}
    /\ missed = Preinstalled
    /\ cutOff = FALSE

-----------------------------------------------------------------------------
(* The queue *)

\* queue.add of every job in S: a job whose id exists, in any state, is left alone.
Enqueue(S, withMetadata) ==
    LET new == {u \in S : state[u] = "none"}
    IN  /\ state' = [u \in Url |-> IF u \in new THEN "waiting" ELSE state[u]]
        /\ meta' = [u \in Url |-> IF u \in new THEN withMetadata ELSE meta[u]]
        /\ UNCHANGED <<phase, attempts, stalls, full, old>>

\* The job and all it recorded leave the queue.
Forget(u) ==
    /\ state' = [state EXCEPT ![u] = "none"]
    /\ phase' = [phase EXCEPT ![u] = "idle"]
    /\ attempts' = [attempts EXCEPT ![u] = 0]
    /\ stalls' = [stalls EXCEPT ![u] = 0]
    /\ full' = [full EXCEPT ![u] = FALSE]
    /\ meta' = [meta EXCEPT ![u] = FALSE]
    /\ old' = [old EXCEPT ![u] = None]

Step(u, from, to) ==
    /\ phase[u] = from
    /\ phase' = [phase EXCEPT ![u] = to]
    /\ UNCHANGED <<state, attempts, stalls, meta>>

Running == {u \in Url : state[u] = "active" /\ phase[u] # "orphaned"}

\* Unlinking the files in S drops the row of the resource each is named as a version of.
Unlink(S) ==
    /\ disk' = [u \in Url |-> IF u \in S THEN "absent" ELSE disk[u]]
    /\ row' = [r \in Resource |->
                 IF \E u \in S \cap Named : disk[u] # "absent" /\ ResourceOf[u] = r
                 THEN None ELSE row[r]]

\* What belonged to an edition in S is gone, with nobody to finish it.
CutOff(S) == cutOff' = (cutOff \/ (selStatus = "downloading" /\ selUrl \in S))

\* affectContainer reports a Docker error in its result, which nobody reads.
Restart(directory) ==
    \/ served' = directory
    \/ "docker error" \in Happens /\ UNCHANGED served

-----------------------------------------------------------------------------
(* Handlers of the HTTP process *)

\* Between the look for a job and the save of a choice of u, no other request adds u.
Unchecked(u) == "overlap" \in Happens \/ u \notin {w \in WikiUrl : pick[w] = "checked"}

DownloadRemote(u) ==
    /\ state[u] = "none"
    /\ Unchecked(u)
    /\ Enqueue({u}, u \in Named)
    /\ UNCHANGED <<libVars, selVars, recVars>>

DownloadCategoryTier(tier) ==
    /\ Enqueue({u \in tier : row[ResourceOf[u]] = None}, TRUE)
    /\ UNCHANGED <<libVars, selVars, recVars>>

\* An update is offered for a resource whose row points to another version.
\* A failed job passes the check; adding it again then does nothing.
ApplyUpdate(u) ==
    /\ u \in Named
    /\ row[ResourceOf[u]] \notin {u, None}
    /\ state[u] \in {"none", "failed"}
    /\ Unchecked(u)
    /\ Enqueue({u}, TRUE)
    /\ UNCHANGED <<libVars, selVars, recVars>>

DeleteZim(u) ==
    /\ "delete" \in Happens
    /\ disk[u] # "absent"
    /\ Unlink({u})
    /\ UNCHANGED <<jobVars, served, missed, selVars, recVars>>

\* The dismiss button of a job that has a failedReason: failed, or waiting for a retry.
\* Removing a job that a worker holds throws.
RemoveFailedJob(u) ==
    /\ "dismiss" \in Happens
    /\ state[u] \in {"waiting", "delayed", "failed"}
    /\ attempts[u] > 0 \/ state[u] = "failed"
    /\ Forget(u)
    /\ UNCHANGED <<libVars, selVars, recVars>>

-----------------------------------------------------------------------------
(* The choice of a Wikipedia edition *)

\* No other choice has read the selection and is still to save it.
Unread == "overlap" \in Happens \/ \A w \in WikiUrl : pick[w] \notin {"read", "checked"}

SelectWikipedia(u) ==
    /\ pick[u] = "none" /\ Unread
    /\ ~(selUrl = u /\ selStatus = "installed")
    /\ pick' = [pick EXCEPT ![u] = "read"]
    /\ saw' = [saw EXCEPT ![u] = [url |-> selUrl, status |-> selStatus]]
    /\ UNCHANGED <<jobVars, libVars, selUrl, selStatus, listening, cutOff, recVars>>

\* Mutation: a job that exists does not end the request.
CheckExistingIgnored(u) ==
    /\ pick[u] = "read"
    /\ pick' = [pick EXCEPT ![u] = "checked"]
    /\ UNCHANGED <<jobVars, libVars, selUrl, selStatus, saw, listening, cutOff, recVars>>

\* A job of this URL, in any state, ends the request.
CheckExisting(u) ==
    /\ pick[u] = "read"
    /\ \/ /\ state[u] = "none"
          /\ pick' = [pick EXCEPT ![u] = "checked"]
          /\ UNCHANGED saw
       \/ /\ state[u] # "none"
          /\ pick' = [pick EXCEPT ![u] = "none"]
          /\ saw' = [saw EXCEPT ![u] = Unseen]
    /\ UNCHANGED <<jobVars, libVars, selUrl, selStatus, listening, cutOff, recVars>>

\* save() writes the columns that differ from what was read.
SaveSelection(u) ==
    /\ pick[u] = "checked"
    /\ pick' = [pick EXCEPT ![u] = "saved"]
    /\ saw' = [saw EXCEPT ![u] = Unseen]
    /\ selUrl' = IF saw[u].url = u THEN selUrl ELSE u
    /\ selStatus' = IF saw[u].status = "downloading" THEN selStatus ELSE "downloading"
    /\ cutOff' = FALSE
    /\ UNCHANGED <<jobVars, libVars, listening, recVars>>

DispatchSelection(u) ==
    /\ pick[u] = "saved"
    /\ pick' = [pick EXCEPT ![u] = "none"]
    /\ Enqueue({u}, FALSE)
    /\ UNCHANGED <<libVars, selUrl, selStatus, saw, listening, cutOff, recVars>>

\* What dispatch throws leaves the handler; the revert is for a result without a job.
DispatchFails(u) ==
    /\ "dispatch error" \in Happens
    /\ pick[u] = "saved"
    /\ pick' = [pick EXCEPT ![u] = "none"]
    /\ CutOff({u})
    /\ UNCHANGED <<jobVars, libVars, selUrl, selStatus, saw, listening, recVars>>

SelectNone ==
    /\ Unread
    /\ Unlink({u \in Url : u = selUrl})
    /\ selUrl' = None
    /\ selStatus' = "none"
    /\ cutOff' = FALSE
    /\ Restart(disk')
    /\ UNCHANGED <<jobVars, missed, pick, saw, listening, recVars>>

-----------------------------------------------------------------------------
(* A start of the server, and the reconciliation it runs beside requests and jobs *)

\* The process before it took its requests and its reconciliation with it.
ServerStarts ==
    /\ "reboot" \in Happens
    /\ CutOff({u \in WikiUrl : pick[u] = "saved"})
    /\ pick' = [u \in WikiUrl |-> "none"]
    /\ saw' = [u \in WikiUrl |-> Unseen]
    /\ recon' = "starting"
    /\ listed' = {} /\ todo' = {} /\ doomed' = {}
    /\ UNCHANGED <<jobVars, libVars, selUrl, selStatus, listening>>

\* Every file found counts, finished or not.
ListFiles ==
    /\ recon = "starting"
    /\ recon' = "recording"
    /\ listed' = {u \in Named \ WikiUrl : disk[u] # "absent"}
    /\ todo' = listed'
    /\ UNCHANGED <<jobVars, libVars, selVars, doomed>>

RecordFound(u) ==
    /\ u \in todo
    /\ todo' = todo \ {u}
    /\ row' = [row EXCEPT ![ResourceOf[u]] = u]
    /\ missed' = missed \ {u}
    /\ UNCHANGED <<jobVars, disk, served, selVars, recon, listed, doomed>>

Found(r) == \E u \in listed : ResourceOf[u] = r

\* Mutation: the entries to delete are those whose file was seen.
QueryRowsInverted ==
    /\ recon = "recording" /\ todo = {}
    /\ recon' = "idle"
    /\ listed' = {}
    /\ doomed' = {r \in Resource : row[r] # None /\ Found(r)}
    /\ UNCHANGED <<jobVars, libVars, selVars, todo>>

\* The rows there are now, compared with the files there were at the listing.
QueryRows ==
    /\ recon = "recording" /\ todo = {}
    /\ recon' = "idle"
    /\ listed' = {}
    /\ doomed' = {r \in Resource : row[r] # None /\ ~Found(r)}
    /\ UNCHANGED <<jobVars, libVars, selVars, todo>>

RemoveEntry(r) ==
    /\ r \in doomed
    /\ doomed' = doomed \ {r}
    /\ row' = [row EXCEPT ![r] = None]
    /\ UNCHANGED <<jobVars, disk, served, missed, selVars, recon, listed, todo>>

\* A file of this resource that comes now is not known to the reconciliation under way.
Endangered(r) == r \in doomed \/ (recon = "recording" /\ ~Found(r))

-----------------------------------------------------------------------------
(* The worker: one attempt at a download *)

StartJob(u) ==
    /\ state[u] = "waiting"
    /\ Cardinality(Running) < Concurrency
    /\ state' = [state EXCEPT ![u] = "active"]
    /\ phase' = [phase EXCEPT ![u] = "requesting"]
    /\ UNCHANGED <<attempts, stalls, full, meta, old, libVars, selVars, recVars>>

\* HEAD and GET were answered; with forceNew the final path is truncated.
OpenFile(u) ==
    /\ Step(u, "requesting", "writing")
    /\ disk' = [disk EXCEPT ![u] = "partial"]
    /\ UNCHANGED <<full, old, served, row, missed, selVars, recVars>>

\* A progress report: without a Content-Length the percentage passes 100 at once.
Progress(u) ==
    /\ phase[u] = "writing"
    /\ full[u] # (u \in NoLength)
    /\ full' = [full EXCEPT ![u] = u \in NoLength]
    /\ UNCHANGED <<state, phase, attempts, stalls, meta, old, libVars, selVars, recVars>>

\* The 'failed' listener of the worker is called after every failed attempt.  Two that
\* are at one point of it for one edition count as one.
OnFailed(u) ==
    listening' = IF u \in WikiUrl THEN [listening EXCEPT ![u] = @ \cup {"called"}]
                                  ELSE listening

\* Mutation: the worker keeps the slot of a failed attempt.
FailAttemptKeepsSlot(u) ==
    /\ phase[u] \in {"requesting", "writing"}
    /\ attempts[u] < FailLimit
    /\ attempts' = [attempts EXCEPT ![u] = @ + 1]
    /\ state' = [state EXCEPT ![u] = IF attempts[u] + 1 < MaxAttempts
                                     THEN "delayed" ELSE "failed"]
    /\ OnFailed(u)
    /\ UNCHANGED <<phase, stalls, full, meta, old, libVars, selUrl, selStatus, pick, saw,
                   cutOff, recVars>>

FailAttempt(u) ==
    /\ phase[u] \in {"requesting", "writing"}
    /\ attempts[u] < FailLimit
    /\ attempts' = [attempts EXCEPT ![u] = @ + 1]
    /\ state' = [state EXCEPT ![u] = IF attempts[u] + 1 < MaxAttempts
                                     THEN "delayed" ELSE "failed"]
    /\ phase' = [phase EXCEPT ![u] = "idle"]
    /\ OnFailed(u)
    /\ UNCHANGED <<stalls, full, meta, old, libVars, selUrl, selStatus, pick, saw, cutOff,
                   recVars>>

\* The listener reads the selection; it has something to save only if it is of this URL.
ListenerRead(u) ==
    /\ "called" \in listening[u]
    /\ listening' = [listening EXCEPT ![u] =
                       IF selUrl = u /\ selStatus # "failed"
                       THEN (@ \ {"called"}) \cup {"read"} ELSE @ \ {"called"}]
    /\ UNCHANGED <<jobVars, libVars, selUrl, selStatus, pick, saw, cutOff, recVars>>

ListenerSave(u) ==
    /\ "read" \in listening[u]
    /\ listening' = [listening EXCEPT ![u] = @ \ {"read"}]
    /\ selStatus' = "failed"
    /\ cutOff' = FALSE
    /\ UNCHANGED <<jobVars, libVars, selUrl, pick, saw, recVars>>

\* It logs what it catches.
ListenerError(u) ==
    /\ "listener error" \in Happens
    /\ \E point \in listening[u] : listening' = [listening EXCEPT ![u] = @ \ {point}]
    /\ CutOff({u})
    /\ UNCHANGED <<jobVars, libVars, selUrl, selStatus, pick, saw, recVars>>

RetryDue(u) ==
    /\ state[u] = "delayed"
    /\ state' = [state EXCEPT ![u] = "waiting"]
    /\ UNCHANGED <<phase, attempts, stalls, full, meta, old, libVars, selVars, recVars>>

Listeners == {u \in WikiUrl : listening[u] # {}}

\* The worker process dies; its jobs stay active in Redis with nobody behind them.
Crash ==
    /\ Running # {} \/ Listeners # {}
    /\ \A u \in Running : stalls[u] < StallLimit
    /\ phase' = [u \in Url |-> IF u \in Running THEN "orphaned" ELSE phase[u]]
    /\ listening' = [u \in WikiUrl |-> {}]
    /\ CutOff(Listeners)
    /\ UNCHANGED <<state, attempts, stalls, full, meta, old, libVars, selUrl, selStatus, pick,
                   saw, recVars>>

\* The stalled check gives the job back to the queue, or fails it.
RecoverStalled(u) ==
    /\ phase[u] = "orphaned"
    /\ stalls' = [stalls EXCEPT ![u] = @ + 1]
    /\ phase' = [phase EXCEPT ![u] = "idle"]
    /\ old' = [old EXCEPT ![u] = None]
    /\ IF stalls[u] < MaxStalled
       THEN /\ state' = [state EXCEPT ![u] = "waiting"]
            /\ UNCHANGED listening
       ELSE /\ state' = [state EXCEPT ![u] = "failed"]
            /\ OnFailed(u)
    /\ UNCHANGED <<attempts, full, meta, libVars, selUrl, selStatus, pick, saw, cutOff,
                   recVars>>

-----------------------------------------------------------------------------
(* The worker: the completion callback *)

\* A file unlinked while it was written stays gone.
Written(u) ==
    /\ disk' = [disk EXCEPT ![u] = IF @ = "partial" THEN "complete" ELSE @]
    /\ missed' = missed \cup {v \in {u} \ WikiUrl : Endangered(ResourceOf[v])}

\* Mutation: the last progress report is not sent before the callback.
FinishFileUnreported(u) ==
    /\ Step(u, "writing", "finished")
    /\ Written(u)
    /\ UNCHANGED <<full, old, served, row, selVars, recVars>>

FinishFile(u) ==
    /\ Step(u, "writing", "finished")
    /\ full' = [full EXCEPT ![u] = TRUE]
    /\ Written(u)
    /\ UNCHANGED <<old, served, row, selVars, recVars>>

LookUpOld(u) ==
    /\ meta[u]
    /\ Step(u, "finished", "looked up")
    /\ old' = [old EXCEPT ![u] = row[ResourceOf[u]]]
    /\ UNCHANGED <<full, libVars, selVars, recVars>>

RecordResource(u) ==
    /\ Step(u, "looked up", "recorded")
    /\ row' = [row EXCEPT ![ResourceOf[u]] = u]
    /\ UNCHANGED <<full, old, disk, served, missed, selVars, recVars>>

RemoveOldFile(u) ==
    /\ Step(u, "recorded", "replaced")
    /\ disk' = [v \in Url |-> IF v = old[u] /\ v # u THEN "absent" ELSE disk[v]]
    /\ UNCHANGED <<full, old, served, row, missed, selVars, recVars>>

\* The resource part of the callback is over, or its data asked for none.
Indexed(u) == phase[u] = "replaced" \/ (phase[u] = "finished" /\ ~meta[u])

\* onWikipediaDownloadComplete(url, true): the read of the selection.  A selection of this
\* URL that reads "installed" leaves nothing to save.
MarkWikipedia(u) ==
    /\ u \in WikiUrl
    /\ Indexed(u)
    /\ phase' = [phase EXCEPT ![u] = IF selUrl # u THEN "swept"
                                     ELSE IF selStatus = "installed" THEN "marked"
                                     ELSE "marking"]
    /\ UNCHANGED <<state, attempts, stalls, full, meta, old, libVars, selVars, recVars>>

SaveInstalled(u) ==
    /\ Step(u, "marking", "marked")
    /\ selStatus' = "installed"
    /\ cutOff' = FALSE
    /\ UNCHANGED <<full, old, libVars, selUrl, pick, saw, listening, recVars>>

\* ... and its deletion of every other Wikipedia file.
SweepWikipedia(u) ==
    /\ Step(u, "marked", "swept")
    /\ Unlink(WikiUrl \ {u})
    /\ UNCHANGED <<full, old, served, missed, selVars, recVars>>

\* Mutation: the filter on progress, which keeps the job itself out, is dropped.
RemainingWithSelf == {v \in Url : state[v] \in {"waiting", "active"}}

\* Other downloads that still count as pending; delayed and failed jobs do not.
Remaining ==
    {v \in Url : state[v] = "waiting" \/ (state[v] = "active" /\ ~full[v])}

\* Mutation: the callback waits for the other downloads where it should skip the restart.
AnnounceWhenDrained(u) ==
    /\ IF u \in WikiUrl THEN phase[u] = "swept" ELSE Indexed(u)
    /\ Remaining = {}
    /\ phase' = [phase EXCEPT ![u] = "announced"]
    /\ Restart(disk)
    /\ UNCHANGED <<state, attempts, stalls, full, meta, old, disk, row, missed, selVars,
                   recVars>>

AnnounceToKiwix(u) ==
    /\ IF u \in WikiUrl THEN phase[u] = "swept" ELSE Indexed(u)
    /\ phase' = [phase EXCEPT ![u] = "announced"]
    /\ IF Remaining = {} THEN Restart(disk) ELSE UNCHANGED served
    /\ UNCHANGED <<state, attempts, stalls, full, meta, old, disk, row, missed, selVars,
                   recVars>>

\* The second write of the row, then the job is complete and removed.
CompleteJob(u) ==
    /\ phase[u] = "announced"
    /\ row' = IF u \in Named \ WikiUrl THEN [row EXCEPT ![ResourceOf[u]] = u] ELSE row
    /\ Forget(u)
    /\ UNCHANGED <<disk, served, missed, selVars, recVars>>

\* The callback swallows what it throws: the rest of it is skipped, the job completes.
CallbackError(u) ==
    /\ "callback error" \in Happens
    /\ phase[u] \in CallbackPhases \ {"recorded", "announced"}
    /\ Forget(u)
    /\ CutOff({u} \ {v \in Url : phase[v] \in {"marked", "swept"}})
    /\ UNCHANGED <<libVars, selUrl, selStatus, pick, saw, listening, recVars>>

-----------------------------------------------------------------------------

Request ==
    \/ \E u \in Url : DownloadRemote(u) \/ ApplyUpdate(u)
    \/ \E tier \in Tiers : DownloadCategoryTier(tier)
    \/ \E u \in Url : DeleteZim(u) \/ RemoveFailedJob(u)
    \/ SelectNone

Choice(u) ==
    \/ SelectWikipedia(u) \/ CheckExisting(u) \/ SaveSelection(u)
    \/ DispatchSelection(u) \/ DispatchFails(u)

Reconcile ==
    \/ ServerStarts \/ ListFiles \/ QueryRows
    \/ \E u \in Url : RecordFound(u)
    \/ \E r \in Resource : RemoveEntry(r)

\* What the worker does by itself once a job is there.
Work(u) ==
    \/ StartJob(u) \/ OpenFile(u) \/ FinishFile(u)
    \/ LookUpOld(u) \/ RecordResource(u) \/ RemoveOldFile(u)
    \/ MarkWikipedia(u) \/ SaveInstalled(u) \/ SweepWikipedia(u)
    \/ AnnounceToKiwix(u) \/ CompleteJob(u)
    \/ RetryDue(u) \/ RecoverStalled(u)

Listener(u) == ListenerRead(u) \/ ListenerSave(u) \/ ListenerError(u)

Next ==
    \/ Request
    \/ \E u \in WikiUrl : Choice(u) \/ Listener(u)
    \/ Reconcile
    \/ \E u \in Url : Work(u) \/ Progress(u) \/ FailAttempt(u) \/ CallbackError(u)
    \/ Crash

Spec == Init /\ [][Next]_vars

\* BullMQ keeps fetching jobs and the event loop keeps running callbacks.  A waiting job
\* may have to wait for a slot again and again, hence strong fairness of its start.
Fairness == \A u \in Url : WF_vars(Work(u)) /\ SF_vars(StartJob(u))
FairSpec == Spec /\ Fairness

-----------------------------------------------------------------------------
(* Properties *)

Pending(u) == state[u] \in {"waiting", "active", "delayed"}

\* When no download is pending, Kiwix serves every finished ZIM.  Whether a completion
\* restarts Kiwix depends on what it saw of the others (zim_service.ts:260-294), so this
\* needs every interleaving of completions to leave the duty with somebody.
ServedWhenDrained ==
    (\A v \in Url : ~Pending(v)) =>
        \A u \in Url : disk[u] = "complete" => served[u] = "complete"

\* Whoever is past 'finish' has its progress at 100 and is no reason for others to wait.
FinishedIsFull == \A u \in Url : phase[u] \in CallbackPhases => full[u]

\* A job that has its own restart decision ahead.
Carrier(v) == Pending(v) /\ phase[v] # "announced"

\* The duty made explicit: while a finished ZIM is not served, some job still has to
\* decide, and no two jobs wait for each other to do it.
RestartDuty ==
    /\ FinishedIsFull
    /\ (\E u \in Url : disk[u] = "complete" /\ served[u] # "complete") =>
          \E v \in Url : Carrier(v)

\* A finished ZIM whose job is gone has a row for its resource, whatever crashes of the
\* worker and starts of the server cut off, if its name says which resource it is of.  What
\* came while a reconciliation compared the rows with an older listing of the directory
\* (collection_manifest_service.ts:201-253) is sure of its row once the next one met it.
FinishedIsRecorded ==
    \A u \in Named \ WikiUrl :
        disk[u] = "complete" /\ state[u] = "none" /\ u \notin missed
            => row[ResourceOf[u]] # None

\* A Wikipedia selection shown as downloading has a job that will settle it, or a request
\* that has still to add it (zim_service.ts:481-493), or a listener that has still to mark
\* the failure (work.ts:68-85): else one of these was cut off by an error or a death.
DownloadingHasJob ==
    selStatus = "downloading" =>
        /\ selUrl \in WikiUrl
        /\ \/ Pending(selUrl)
           \/ pick[selUrl] = "saved"
           \/ listening[selUrl] # {}
           \/ cutOff

\* The same without what may be cut off; a throwing dispatch refutes it.
DownloadingIsPending ==
    selStatus = "downloading" =>
        selUrl \in WikiUrl /\ (Pending(selUrl) \/ pick[selUrl] = "saved" \/ listening[selUrl] # {})

\* "Remove entries for ZIM files no longer on disk" (collection_manifest_service.ts:249).
RemovesOnlyGone ==
    [][\A r \in Resource : RemoveEntry(r) =>
          \A u \in Named \ WikiUrl : ResourceOf[u] = r => disk[u] # "complete"]_vars

\* A row points to a file that is there, unless a download of that file is running.
RecordedFileExists ==
    \A r \in Resource :
        row[r] # None => disk[row[r]] # "absent" \/ Pending(row[r])

\* The selected Wikipedia, once installed, is on disk when all downloads are over.
InstalledWikipediaOnDisk ==
    selStatus = "installed" /\ (\A v \in Url : ~Pending(v)) => disk[selUrl] = "complete"

\* Every job that enters the queue leaves it or ends as failed.
JobsSettle == \A u \in Url : Pending(u) ~> ~Pending(u)

=============================================================================
