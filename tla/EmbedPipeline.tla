--------------------------- MODULE EmbedPipeline ---------------------------
(***************************************************************************)
(* The knowledge base: files on disk, the jobs that embed them and the     *)
(* points of the vector store.  Uploads, ZIM downloads, the discovery of   *)
(* the documentation and the storage sync add jobs under an id made from   *)
(* the path; a worker extracts a file, embeds it section by section and,   *)
(* for a ZIM, asks for its next batch of articles.                         *)
(*                                                                         *)
(* BullMQ ignores an add whose id it holds, and it holds completed and     *)
(* failed jobs too: the last 50 and 20, until the jobs of other files,     *)
(* which are not part of an instance, have pushed them out.                *)
(***************************************************************************)
EXTENDS Naturals, Sequences, FiniteSets

CONSTANTS
    Upload, Zim, Doc, \* the files: kb_uploads, the ZIM directory, the documentation
    Articles,       \* of each file: for each article the set of its non-empty sections;
                    \* a text is embedded by one call, as one section
    BatchSize,      \* ZIM_BATCH_SIZE
    Concurrency,    \* jobs the worker runs at once
    MaxAttempts,    \* attempts given to each job
    MaxStalled,     \* BullMQ's maxStalledCount
    AgainLimit,     \* bound: a file with again at it is not evicted and fails no more late,
                    \* and beyond it the worker does not die with its job
    TroubledLimit,  \* bound: the files that are evicted, fail late or are cut off by a crash
    Happens         \* what may happen in this instance (EventKinds)

EventKinds == {"missing", "not ready", "embed error", "redis error", "crash", "delete", "sync",
               "evict"}
File == Upload \cup Zim \cup Doc

\* The sections of the articles numbered first and later, at most n of them.
Batch(f, first, n) ==
    UNION {Articles[f][i] : i \in {j \in DOMAIN Articles[f] : first < j /\ j <= first + n}}
Sections == [f \in File |-> UNION {Articles[f][i] : i \in DOMAIN Articles[f]}]
Section(f) == Sections[f]

ASSUME FileAssumption ==
    /\ Upload \cap Zim = {} /\ Upload \cap Doc = {} /\ Zim \cap Doc = {}
    /\ \A f \in File : Articles[f] \in Seq(SUBSET Nat) /\ IsFiniteSet(Section(f))
    /\ \A f \in File : \A i, j \in DOMAIN Articles[f] :
         i # j => Articles[f][i] \cap Articles[f][j] = {}
    /\ \A f \in Upload \cup Doc : \A x, y \in Section(f) : x = y
ASSUME BoundAssumption ==
    /\ BatchSize \in Nat \ {0} /\ Concurrency \in Nat \ {0} /\ MaxAttempts \in Nat \ {0}
    /\ MaxStalled \in Nat /\ AgainLimit \in Nat /\ TroubledLimit \in Nat
    /\ Happens \subseteq EventKinds

VARIABLES
    disk,       \* each file: not there yet, there, or deleted
    job,        \* the job of each file in Redis, and how far the worker is with it
    points,     \* how many copies of each section the vector store holds
    sync,       \* the storage sync: where it is and the files it has found
    discovered, \* rag.docsEmbedded
    again       \* history: how often what is stored of a file may have been left to be
                \* stored once more, by a run that did not end or a job that was not kept

vars == <<disk, job, points, sync, discovered, again>>

Pending == {"waiting", "active", "delayed"}
Settled == {"completed", "failed"}
WorkerPoints == {"idle", "check", "extract", "embed", "next", "report", "fail", "give up",
                 "orphaned"}
Statuses == {"none", "processing", "batch_completed", "completed", "failed"}

Job(f) ==
    [state : {"none"} \cup Pending \cup Settled,
     at : WorkerPoints,
     offset : Nat,                \* batchOffset
     todo : SUBSET Section(f),    \* sections of this batch not yet dealt with
     more : BOOLEAN,              \* hasMoreBatches
     attempts : 0 .. MaxAttempts,
     stalls : Nat,
     status : Statuses]           \* data.status, what the API reports

TypeOK ==
    /\ disk \in [File -> {"absent", "there", "deleted"}]
    /\ DOMAIN job = File /\ DOMAIN points = File
    /\ \A f \in File : job[f] \in Job(f) /\ points[f] \in [Section(f) -> Nat]
    /\ \A f \in File : job[f].state = "active" <=> job[f].at # "idle"
    /\ \A f \in File : job[f].state # "failed" => job[f].attempts < MaxAttempts
    /\ sync \in [at : {"idle", "list", "compare", "queue"}, files : SUBSET File]
    /\ discovered \in BOOLEAN
    /\ again \in [File -> Nat]

NoJob == [state |-> "none", at |-> "idle", offset |-> 0, todo |-> {}, more |-> FALSE,
          attempts |-> 0, stalls |-> 0, status |-> "none"]

Init ==
    /\ disk = [f \in File |-> IF f \in Doc THEN "there" ELSE "absent"]
    /\ job = [f \in File |-> NoJob]
    /\ points = [f \in File |-> [x \in Section(f) |-> 0]]
    /\ sync = [at |-> "idle", files |-> {}]
    /\ discovered = FALSE
    /\ again = [f \in File |-> 0]

Sources == {f \in File : \E x \in Section(f) : points[f][x] > 0}

-----------------------------------------------------------------------------
(* The HTTP process, and the download worker *)

\* Mutation: settled jobs are not kept.
DispatchAgain(F, off) ==
    [f \in File |-> IF f \in F /\ job[f].state \notin Pending
                    THEN [NoJob EXCEPT !.state = "waiting", !.offset = off] ELSE job[f]]

\* The jobs once one has been added for each file in F.
Dispatch(F, off) ==
    [f \in File |-> IF f \in F /\ job[f].state = "none"
                    THEN [NoJob EXCEPT !.state = "waiting", !.offset = off] ELSE job[f]]

\* Each upload has a name of its own.
UploadFile(f) ==
    /\ f \in Upload /\ disk[f] = "absent"
    /\ disk' = [disk EXCEPT ![f] = "there"]
    /\ job' = Dispatch({f}, 0)
    /\ UNCHANGED <<points, sync, discovered, again>>

\* The end of a download's callback; it adds a job only if Ollama is installed.
Downloaded(f) ==
    /\ f \in Zim /\ disk[f] # "there"
    /\ disk' = [disk EXCEPT ![f] = "there"]
    /\ job' \in {Dispatch({f}, 0)} \cup (IF "missing" \in Happens THEN {job} ELSE {})
    /\ UNCHANGED <<points, sync, discovered, again>>

\* Ollama was installed.
DiscoverDocs ==
    /\ ~discovered
    /\ discovered' = TRUE
    /\ job' = Dispatch(Doc, 0)
    /\ UNCHANGED <<disk, points, sync, again>>

\* The knowledge base page offers what the store has points of.
DeleteSource(f) ==
    /\ "delete" \in Happens /\ f \in Sources
    /\ points' = [points EXCEPT ![f] = [x \in Section(f) |-> 0]]
    /\ disk' = IF f \in Upload THEN [disk EXCEPT ![f] = "deleted"] ELSE disk
    /\ UNCHANGED <<job, sync, discovered, again>>

\* The ZIM library knows nothing of the vector store.
DeleteZim(f) ==
    /\ "delete" \in Happens /\ f \in Zim /\ disk[f] = "there"
    /\ disk' = [disk EXCEPT ![f] = "deleted"]
    /\ UNCHANGED <<job, points, sync, discovered, again>>

\* The sync starts with the documentation, discovered or not.
SyncDocs ==
    /\ "sync" \in Happens /\ sync.at = "idle"
    /\ sync' = [sync EXCEPT !.at = "list"]
    /\ job' = Dispatch(Doc, 0)
    /\ discovered' = TRUE
    /\ UNCHANGED <<disk, points, again>>

SyncList ==
    /\ sync.at = "list"
    /\ sync' = [at |-> "compare", files |-> {f \in Upload \cup Zim : disk[f] = "there"}]
    /\ UNCHANGED <<disk, job, points, discovered, again>>

SyncCompare ==
    /\ sync.at = "compare"
    /\ sync' = LET missing == sync.files \ Sources
               IN [at |-> IF missing = {} THEN "idle" ELSE "queue", files |-> missing]
    /\ UNCHANGED <<disk, job, points, discovered, again>>

SyncQueue(f) ==
    /\ sync.at = "queue" /\ f \in sync.files
    /\ job' = Dispatch({f}, 0)
    /\ sync' = LET rest == sync.files \ {f}
               IN [at |-> IF rest = {} THEN "idle" ELSE "queue", files |-> rest]
    /\ UNCHANGED <<disk, points, discovered, again>>

-----------------------------------------------------------------------------
(* The embedding worker *)

Running == {f \in File : job[f].state = "active" /\ job[f].at # "orphaned"}

\* The bound on what makes the files in F be stored again.
Bounded(F) ==
    Cardinality({f \in File : again[f] > 0 \/ job[f].at = "orphaned"} \cup F) <= TroubledLimit

StartJob(f) ==
    /\ job[f].state = "waiting" /\ Cardinality(Running) < Concurrency
    /\ job' = [job EXCEPT ![f].state = "active", ![f].at = "check"]
    /\ UNCHANGED <<disk, points, sync, discovered, again>>

\* A service that is not installed ends the job, one that does not answer the attempt.
CheckServices(f) ==
    /\ job[f].at = "check"
    /\ \/ job' = [job EXCEPT ![f].at = "extract", ![f].status = "processing"]
       \/ "missing" \in Happens /\ job' = [job EXCEPT ![f].at = "give up"]
       \/ "not ready" \in Happens /\ job' = [job EXCEPT ![f].at = "fail"]
    /\ UNCHANGED <<disk, points, sync, discovered, again>>

\* The sections this run of the job embeds.
Extract(f) ==
    /\ job[f].at = "extract"
    /\ job' = LET todo == IF f \in Zim THEN Batch(f, job[f].offset, BatchSize) ELSE Section(f)
              IN IF disk[f] = "there" /\ (f \in Zim \/ todo # {})
                 THEN [job EXCEPT ![f].at = "embed", ![f].todo = todo,
                                  ![f].more = f \in Zim /\ Cardinality(todo) = BatchSize]
                 ELSE [job EXCEPT ![f].at = "fail"]
    /\ UNCHANGED <<disk, points, sync, discovered, again>>

\* Mutation: the null of a failed embedding is ignored for every kind of file.
EmbedSectionUnchecked(f) ==
    /\ job[f].at = "embed"
    /\ \E x \in job[f].todo :
         /\ \A y \in job[f].todo : x <= y
         /\ job' = [job EXCEPT ![f].todo = @ \ {x}]
         /\ \/ points' = [points EXCEPT ![f][x] = @ + 1]
            \/ "embed error" \in Happens /\ UNCHANGED points
    /\ UNCHANGED <<disk, sync, discovered, again>>

\* A section that cannot be embedded fails an upload; in a ZIM it is left out.
EmbedSection(f) ==
    /\ job[f].at = "embed"
    /\ \E x \in job[f].todo :
         /\ \A y \in job[f].todo : x <= y
         /\ \/ /\ job' = [job EXCEPT ![f].todo = @ \ {x}]
               /\ points' = [points EXCEPT ![f][x] = @ + 1]
            \/ /\ "embed error" \in Happens
               /\ job' = IF f \in Zim THEN [job EXCEPT ![f].todo = @ \ {x}]
                                      ELSE [job EXCEPT ![f].at = "fail", ![f].todo = {}]
               /\ UNCHANGED points
    /\ UNCHANGED <<disk, sync, discovered, again>>

\* The articles of this batch that had a section.
ArticlesProcessed(f) ==
    Cardinality({i \in DOMAIN Articles[f] :
                   /\ job[f].offset < i /\ i <= job[f].offset + BatchSize
                   /\ Articles[f][i] # {}})

\* The next batch is added under the id of the job that asks for it.
DispatchNext(f) ==
    /\ job[f].at = "embed" /\ job[f].todo = {} /\ job[f].more
    /\ job' = [Dispatch({f}, job[f].offset + ArticlesProcessed(f)) EXCEPT ![f].at = "next"]
    /\ UNCHANGED <<disk, points, sync, discovered, again>>

\* Mutation: the early return for a batch writes no status.
ReportLastOnly(f) ==
    /\ job[f].at \in {"embed", "next"} /\ job[f].todo = {}
    /\ job[f].at = "embed" => ~job[f].more
    /\ job' = [job EXCEPT ![f].at = "report",
                          ![f].status = IF job[f].at = "embed" THEN "completed" ELSE @]
    /\ UNCHANGED <<disk, points, sync, discovered, again>>

\* The status is written ...
Report(f) ==
    /\ \/ /\ job[f].at = "embed" /\ job[f].todo = {} /\ ~job[f].more
          /\ job' = [job EXCEPT ![f].at = "report", ![f].status = "completed"]
       \/ /\ job[f].at = "next"
          /\ job' = [job EXCEPT ![f].at = "report", ![f].status = "batch_completed"]
    /\ UNCHANGED <<disk, points, sync, discovered, again>>

\* ... and the job leaves the worker.
Complete(f) ==
    /\ job[f].at = "report"
    /\ job' = [job EXCEPT ![f].state = "completed", ![f].at = "idle"]
    /\ UNCHANGED <<disk, points, sync, discovered, again>>

\* A run fails in the middle or at its end: Redis does not take its progress, its next
\* batch or its status.  What it has stored stays, and the next attempt stores it again.
FailLate(f) ==
    /\ "redis error" \in Happens /\ again[f] < AgainLimit /\ Bounded({f})
    /\ job[f].at \in {"extract", "embed", "next"}
    /\ job' = [job EXCEPT ![f].at = "fail", ![f].todo = {}, ![f].more = FALSE]
    /\ again' = IF job[f].at = "extract" THEN again ELSE [again EXCEPT ![f] = @ + 1]
    /\ UNCHANGED <<disk, points, sync, discovered>>

\* Mutation: a failed attempt is not counted.
FailAttemptUncounted(f) ==
    /\ job[f].at \in {"fail", "give up"}
    /\ job' = [job EXCEPT ![f].state = IF job[f].at = "fail" THEN "delayed" ELSE "failed",
                          ![f].at = "idle", ![f].status = "failed"]
    /\ UNCHANGED <<disk, points, sync, discovered, again>>

\* Mutation: one attempt too many.
FailAttemptOnceMore(f) ==
    /\ job[f].at \in {"fail", "give up"}
    /\ job' = [job EXCEPT
                 ![f].state = IF job[f].at = "fail" /\ job[f].attempts < MaxAttempts
                              THEN "delayed" ELSE "failed",
                 ![f].at = "idle", ![f].attempts = @ + 1, ![f].status = "failed"]
    /\ UNCHANGED <<disk, points, sync, discovered, again>>

FailAttempt(f) ==
    /\ job[f].at \in {"fail", "give up"}
    /\ job' = [job EXCEPT
                 ![f].state = IF job[f].at = "fail" /\ job[f].attempts + 1 < MaxAttempts
                              THEN "delayed" ELSE "failed",
                 ![f].at = "idle", ![f].attempts = @ + 1, ![f].status = "failed"]
    /\ UNCHANGED <<disk, points, sync, discovered, again>>

RetryDue(f) ==
    /\ job[f].state = "delayed"
    /\ job' = [job EXCEPT ![f].state = "waiting"]
    /\ UNCHANGED <<disk, points, sync, discovered, again>>

\* The worker process dies; its jobs stay active with nobody behind them.
Crash ==
    /\ "crash" \in Happens /\ Running # {}
    /\ Bounded(Running) /\ \A f \in Running : again[f] <= AgainLimit
    /\ job' = [f \in File |-> IF f \in Running
                              THEN [job[f] EXCEPT !.at = "orphaned", !.todo = {}, !.more = FALSE]
                              ELSE job[f]]
    /\ UNCHANGED <<disk, points, sync, discovered, again>>

\* The stalled check gives the job back to the queue, or fails it.
RecoverStalled(f) ==
    /\ job[f].at = "orphaned"
    /\ job' = [job EXCEPT ![f].state = IF job[f].stalls < MaxStalled THEN "waiting" ELSE "failed",
                          ![f].at = "idle", ![f].stalls = @ + 1]
    /\ again' = [again EXCEPT ![f] = @ + 1]
    /\ UNCHANGED <<disk, points, sync, discovered>>

\* The jobs of other files push a settled job out of what is kept.
Evict(f) ==
    /\ "evict" \in Happens /\ again[f] < AgainLimit /\ Bounded({f})
    /\ job[f].state \in Settled
    /\ job' = [job EXCEPT ![f] = NoJob]
    /\ again' = IF job[f].state = "completed" THEN [again EXCEPT ![f] = @ + 1] ELSE again
    /\ UNCHANGED <<disk, points, sync, discovered>>

-----------------------------------------------------------------------------
Request ==
    \/ \E f \in File :
         UploadFile(f) \/ Downloaded(f) \/ DeleteSource(f) \/ DeleteZim(f) \/ SyncQueue(f)
    \/ DiscoverDocs \/ SyncDocs \/ SyncList \/ SyncCompare

\* What the worker and BullMQ do with a job of their own accord.
Work(f) ==
    \/ StartJob(f) \/ CheckServices(f) \/ Extract(f) \/ EmbedSection(f)
    \/ DispatchNext(f) \/ Report(f) \/ Complete(f)
    \/ FailAttempt(f) \/ RetryDue(f) \/ RecoverStalled(f)

Next == Request \/ Crash \/ \E f \in File : Work(f) \/ FailLate(f) \/ Evict(f)

Spec == Init /\ [][Next]_vars

\* A slot that frees goes to the oldest job: nobody waits for ever.
Fairness == \A f \in File : WF_vars(Work(f)) /\ SF_vars(StartJob(f))
FairSpec == Spec /\ Fairness

-----------------------------------------------------------------------------
(* Properties *)

\* However often a file is uploaded, downloaded, discovered and synced, and however its
\* attempts fail, its sections have one copy in the store, and one more for each time the
\* code gives them up: the job of a stored file was evicted, or a run that may have stored
\* some was cut off by a crash or failed late.  Points get random ids, so every further
\* copy comes back from each search.
StoredOnce == \A f \in File : \A x \in Section(f) : points[f][x] <= 1 + again[f]

\* An upload whose job is completed, and that nobody deleted, can be found: its text is
\* in the store, however its job was retried, interrupted or raced by the sync.
CompletedIsStored ==
    \A f \in Upload : job[f].state = "completed" /\ disk[f] = "there"
                        => \A x \in Section(f) : points[f][x] > 0

\* A settled job tells the truth about itself: getStatus() reports data.status, which
\* the handler writes in steps of its own.  Only a job that died with its worker
\* may go on reporting what it did then.
StatusIsTrue ==
    \A f \in File :
      /\ job[f].state = "completed" => job[f].status \in {"batch_completed", "completed"}
      /\ job[f].state = "failed" => job[f].status = "failed" \/ job[f].stalls > MaxStalled

\* Every job ends, completed or failed, however many others are added meanwhile: the
\* retries of a service that is not there and the recoveries after crashes run out
\* (embed_file_job.ts:203-211).
JobsEnd ==
    \A f \in File : job[f].state \in Pending ~> job[f].state \notin Pending

\* "Dispatch next batch": a ZIM whose job is completed has been embedded to its end.
ZimIsEmbedded ==
    \A f \in Zim : job[f].state = "completed" => \A x \in Section(f) : points[f][x] > 0

\* "Dispatches EmbedFileJob for each missing file": a file the sync queues gets embedded
\* by a job that is yet to run.
SyncQueuesMissing ==
    [][\A f \in File : sync.at = "queue" /\ f \in sync.files \ sync'.files
                         => job'[f].state \in Pending]_vars

-----------------------------------------------------------------------------
(* The store it implements *)

\* What a status tells.
Told == [none |-> "none", processing |-> "busy", batch_completed |-> "done",
         completed |-> "done", failed |-> "failed"]

\* A job seen as the embedding of its file: before a run has the file's text, and from when
\* it fails, everything is owed; then what the run has not dealt with.
Embedding(f, j) ==
    [phase  |-> IF j.at = "orphaned" THEN "broken"
                ELSE IF j.at \in {"fail", "give up"} THEN "failing"
                ELSE IF j.state \in Pending THEN "pending" ELSE j.state,
     owed   |-> IF j.at = "embed" THEN j.todo
                ELSE IF j.at \in {"next", "report"} \/ j.state = "completed" THEN {}
                ELSE Section(f),
     told   |-> Told[j.status],
     breaks |-> j.stalls]

Store == INSTANCE EmbeddingStore WITH
    File      <- File,
    Content   <- Sections,
    Whole     <- Upload \cup Doc,
    MaxBreaks <- MaxStalled,
    embedding <- [f \in File |-> Embedding(f, job[f])],
    copies    <- points

\* Through every request, batch, retry, crash, deletion and eviction the jobs and the vector store
\* behave as one store of files that embeds run by run: no run stores a section twice, what
\* getStatus() reports of an end was written before it and after the sections it speaks of,
\* and neither uploads nor documentation lose a part (embed_file_job.ts:26-171).
KeepsStore == Store!StoreSpec
=============================================================================
