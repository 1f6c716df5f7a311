# Verification of the INR99 offline school server

TLA+ models of the server's concurrent parts, model-checked with TLC and, for what
matters most, proved with TLAPS. Source references are to `src/`, the repository.

## The system

An AdonisJS server that installs educational content and services on a machine without
a dependable network. Four kinds of process share its state:

| process | what it does | code |
| --- | --- | --- |
| HTTP server | requests; each handler gives way at every `await` | `src/app/controllers`, `src/app/services`, `src/start/routes.ts` |
| queue worker (`node ace queue:work --all`) | BullMQ jobs: downloads (3 at once), models (2), embeddings (2), benchmarks and the release check (1), service updates (3, the default) | `src/commands/queue/work.ts`, `src/app/jobs` |
| update sidecar | a shell loop that polls a request file and recreates the containers | `src/install/sidecar-updater/update-watcher.sh` |
| Docker, MySQL, Redis, Qdrant | containers, rows, jobs and vectors the others share | external |

They communicate through MySQL rows without transactions, through Redis jobs identified
by a hash of a URL or path, through files on a shared volume, and through container
names. Hardly any of it is atomic: nearly every hazard in `PROJECT.json` is a check in
one process that another one invalidates before it is used.

`src/start/routes.ts` imports neither `routes/api.ts` nor `routes/hybrid.ts`, so the
authentication, synchronisation and hybrid code is not reachable in this commit.
`src/admin/app` is a copy of most of `src/app`; the models are of `src/app`.

### Components

State, operations and what makes each correct. "—" in the last column: not modelled.

| component | state and operations | correct when | module |
| --- | --- | --- | --- |
| Download jobs | one BullMQ job per URL; enqueue, run, retry, stall, dismiss | every job ends; the callback's steps survive crashes | ContentDownloads |
| ZIM library | files, `InstalledResource` rows, Kiwix restarts | a finished file is catalogued and served | ContentDownloads |
| Wikipedia selection | one row: URL and status | a selection shown as downloading is being downloaded | ContentDownloads |
| Manifests and reconciliation | rows rebuilt from the directory at start | content on disk is known | ContentDownloads (ZIM part) |
| Collection updates | new versions enqueued under the resource of the old | the old file goes after the new one came | ContentDownloads |
| Self-update | request, status and compose files, containers | one update per request; "complete" is true; the status follows a protocol | SystemUpdate, UpdateProtocol |
| Docker services | service rows, containers, `<name>` and `<name>_old` | an update never loses the service; "installing" is true | ServiceInstall |
| Status sync | rows copied from the containers at each listing | it does not undo what a request just did | ServiceInstall |
| Knowledge base | files, embedding jobs, vector store, storage sync | everything completed is stored, once; what is told of a file is true | EmbedPipeline, EmbeddingStore |
| Search | the query, the store's hits, their order, the context of a model | the best hits reach the model, and every query fits | KnowledgeSearch |
| Chat | sessions, messages, titles; the page's copy | answers stay with their questions; a session gets its title; the page takes input again | ChatSessions, Conversations |
| Model downloads | kept jobs per model; Ollama's models | a completed download has brought its model; jobs end | ModelDownloads |
| Benchmark | runs, containers, results, submissions, builder tags | runs end and clean up; what is stored as submitted was accepted | Benchmarks |
| Update checks | tags, offers in rows, dialogs; the server's own releases | offers settle on the newest update, never across a major version; releases are noticed | Versions, ServiceUpdateCheck, SystemVersionCheck |
| Key-value store | single keys | — | SystemVersionCheck (its keys) |
| Map regions | downloads, base assets, styles | the base assets can be completed | MapAssets; the download job is ContentDownloads without its Kiwix part |
| Data sync | a queue of pending records, conflicts | each record is sent once, none is lost | — nothing reaches it |
| Hybrid sync, authentication, school users | sessions, tokens, records | — | — their routes are not imported |
| Documentation and settings pages | what they read | — | — no writes of their own |
| Disk collector, install scripts | shell, run once or periodically | — | — pure I/O |

## The modules

Each module's definitions are mapped to source lines in `PROJECT.json`. Definitions
marked "Mutation:" are broken variants that show that a property can fail; nothing else
uses them. A handler that awaits several times is several actions, with what it read in
between as state; where one action spans awaits, the module or this text says so.

### ContentDownloads

One URL stands for its job, its file and one version of a resource. State: BullMQ's
state of the job, how far the worker's handler is (`phase`), failed attempts and stalls,
whether progress reached 100 (`full`) and whether the job carries metadata (`meta`), the
file on disk and as Kiwix last read it (`disk`, `served`), the catalogue (`row`), the
Wikipedia selection, and what is under way beside them.

Requests: `DownloadRemote` (with metadata only if the file's name parses as a version, the
constant `Named`), `DownloadCategoryTier`, `ApplyUpdate`, `SelectNone`, `DeleteZim`,
`RemoveFailedJob`. The choice of a Wikipedia edition is cut at its awaits:
`SelectWikipedia` (the read of the selection), `CheckExisting` (the look for a job),
`SaveSelection`, then `DispatchSelection` or `DispatchFails`.

Worker: `StartJob`, `OpenFile` (truncates the final path), `Progress`, `FinishFile`, then
the completion callback cut at its awaits: `LookUpOld`, `RecordResource`, `RemoveOldFile`,
`MarkWikipedia`, `SaveInstalled`, `SweepWikipedia`, `AnnounceToKiwix` (the decision to
restart Kiwix), `CompleteJob`; and `FailAttempt`, `CallbackError`, `RetryDue`, `Crash`,
`RecoverStalled`. The `failed` listener runs after a failed attempt, beside the next one
(`ListenerRead`, `ListenerSave`, `ListenerError`).

`ServerStarts` begins a reconciliation, which lists the directory (`ListFiles`), writes a row
for each file (`RecordFound`), reads the rows (`QueryRows`) and deletes those that are not in
its listing (`RemoveEntry`). `src/install/entrypoint.sh` starts the worker in the background
of the server, so all of it overlaps with jobs and, once the server listens, with requests.

Two history variables say what the properties except. `cutOff`: a request, listener or
callback that owed the selection its next status threw or died. `missed`: files that came
while a reconciliation did not know of them, until a later one meets them (`Endangered`).

Not represented: byte counts and content, resumed downloads (every caller passes
`forceNew`), the order of several progress writes of one job, two listeners at one point
for one edition. The handlers of requests other than the choice are one action each.
`Happens` says which events an instance has; without "overlap", no request adds or chooses
an edition while a choice is between its read and its save.

### SystemUpdate

The request file, the status file, the compose file, the containers; HTTP clients that
check the status, await the database, then open and write the request
(`CheckStatus`, `OpenRequest`, `WriteRequest`); the sidecar's loop statement by
statement, from `Poll` over `SetTag`, `Pull`, `StopService`, `RmService`, `UpService` to
`Boot` after a crash. `writeFile` truncates before it writes, so opening and writing are
two actions and the sidecar may read between them.

### UpdateProtocol

The abstract specification of the self-update, in terms of what a caller of the API and
the page that polls the status can rely on: a request waits or not, an update is carried
out or not, and its stage. `Ask`, `Take`, `Announce` (only a stage that may follow the
present one), `Rest`, `Publish` (the status file becomes readable again) and
`GiveUpUpdate` (only a restart does). It has no callers, files, containers or tags.
`SystemUpdate` instantiates it: a request waits when its file has been opened,
the work is the sidecar's control point, the stage is what the sidecar last wrote, and
the status is readable when it is not torn. `KeepsProtocol` says that SystemUpdate
implements it; it is checked in `system_update_faults` and proved.

### ServiceInstall

Requests that run concurrently, each with the rows as it read them (`saw`): a `save()`
writes only the columns that differ from what was read. Install (`Install` …
`Record`, with the dependency first), forced reinstall (`Reinstall` … `ClearInstalled`),
failed installs (`MarkError`, `Search`, `Discard`), update with rollback (`Update`,
`FindOld`, `StopOld`, `Park` under `_old`, `Replace`, `Launch`, `CheckHealth`, `DropOld`
or `UndoNew`, `RestoreOld`, `RelaunchOld`), start and stop by hand (`Affect`), and the
status sync (`Sync`, `Compare`, `SyncRow`). Docker may fail at each kind of call.

Left out: `activeInstallations` (a field of an instance made per request, so always
empty when checked), images, volumes, database errors, a restart of the server.

### EmbedPipeline

Files of three kinds (uploads, ZIMs, the documentation), the embedding job of each in
Redis with the worker's point in its handler, copies of each section in the vector
store, and the storage sync. Requests: `UploadFile`, `Downloaded`, `DiscoverDocs`,
`DeleteSource`, `DeleteZim`, and the sync's steps `SyncDocs`, `SyncList`,
`SyncCompare`, `SyncQueue`. Worker: `StartJob`, `CheckServices`, `Extract`,
`EmbedSection`, `DispatchNext`, `Report`, `Complete`, `FailAttempt`, `FailLate` (an error of
Redis after something may have been stored), `RetryDue`, `Crash`, `RecoverStalled`.
`Dispatch` is `EmbedFileJob.dispatch`: an add whose id is held, by a completed or failed job
too, does nothing. Of these BullMQ keeps the last 50 and 20: `Evict` takes a settled job away,
as the jobs of other files would, which are not part of an instance.

A file is a sequence of articles, each the set of its sections that have text; a text
document is one call of `embedAndStoreText`, hence one section. An embedding error means
nothing was stored. The history variable `again` counts, for each file, the events after
which what is stored may be stored once more: a completed job evicted, a late failure, a stall.

Left out: locks lost by a worker that still runs, ZIMs listed while their download writes
them, the deletion after the final batch, which no caller asks for (`isFinalBatch` is never
true), and errors of Redis in the handler's own `catch` or in BullMQ after the handler has
returned. One storage sync runs at a time. `DeleteSource` is one action; the settlement of
a failed attempt is one with the status write before it.

### EmbeddingStore

The abstract specification of EmbedPipeline, for whoever gives the server a file and asks
for its status or searches it later. Of each file it has a phase (none, pending, failing,
broken, completed, failed), what the present run still owes, what is told of it and how often a run
broke off; and the copies of its sections. `Ask`, `Begin`, `Keep` (one owed section),
`LeaveOut` (never for an upload or the documentation), `TellDone`, `Finish`, `Fail` and
`TellFailure`, `Break`, `Recover`, `Forget`, `Release` (only of a settled file). It has no queue, worker, batches,
attempts, disk or sync. EmbedPipeline instantiates it: the phase comes from the job's state
and from whether its worker died, what is owed from the point in the handler, what is told
from the status written into the job's data (`Embedding`, `Told`). `KeepsStore` says that
EmbedPipeline implements it; it is checked in `embed_faults` and proved.

### KnowledgeSearch

One query from the chat message to the context of the model: `RewriteQuery`, `EmbedQuery`
(truncation to what the embedding model takes), `Search` or `SearchFails`, `Rerank` (boosts
above a gate of 35%), `Diversify` (the penalty for hits of one document, the constant
`Penalty`, then the sort) and `LimitContext` (results and tokens by size of model). Of a
text only its length counts, and of a hit its score, its document, its length and the boost
its words earn; scores and boosts are in percent, and the token estimate (three characters a
token, rounded up) is the code's. An order is given by what comes before each place
(`Precedes`, `Sorted`), as both sorts are stable. `DiversityIsGreedy` compares the code's
single sort with a reference definition that picks the results one by one.

Left out: how the boost is earned (keywords and terms of a text), the embedding itself,
and the wording of the prompt.

### ChatSessions

The database (`live`, `title`, `log`), one handler per message sent (`stage`) and the
chat page's copy of the session it shows (`active`, `shown`, `loading`). A handler stores
the question (`SaveQuestion`, `TouchQuestion`), asks the model (`FirstChunk`,
`EndStream`), stores the answer (`SaveAnswer`, `TouchAnswer`), and only then counts the
messages (`CountMessages`) and perhaps makes a title (`GenerateTitle`), with nobody
waiting for it. The page may send again, open another session, start a new one or delete
meanwhile; replies reach it in any order. `Restart` takes all handlers with it.

Left out: query rewriting and the context (KnowledgeSearch), the handler's path without
a stream, which the page takes when streaming is switched off, suggestions, the choice of
a model, and renaming a session through the API, which no page does.

### Conversations

The abstract specification of the chats, for whoever reads their tables. Of a session it has
whether it was opened, whether it is there, its name and its rows; of a message, the session
it was sent to and how far it got. `SendTo`, `StoreQuestion`, `StoreAnswer`, `Name` (of a
session that has no name, by its first exchange), `End` (an answered message ends without a
name only in a session that is gone or has more rows), `Lose` (all that is under way) and
`Remove`. It has no handlers, streams, page or copies. ChatSessions instantiates it, with
what a handler's stage means for the tables (`Progress`). `KeepsConversations` says that
ChatSessions implements it; it is checked in `chat_faults` and proved.

### ModelDownloads and Benchmarks

ModelDownloads: one kept job per model, retried with a delay until Ollama is there;
`ListModels`, `PullModel`, `DeleteModel`, and Ollama going away and coming back.
Benchmarks extends it with benchmarks run in a request or as jobs: `RunBenchmark`,
`StartSysbench` / `EndSysbench` (the containers; one whose process died, or that Docker
refused to remove, stays), `CheckAI`, `PullAI`, `Generate`
(the AI part, which pulls its model beside the download jobs), `SaveResult`; then, on the
results, submissions cut at their awaits (`LoadForSubmission`, `PostSubmission`,
`SaveSubmission`) and builder tags (`LoadForTag`, `SaveTag`). Either process may restart.

A pull either installs a model or leaves nothing. Left out: scores and hardware
detection, the catalogue of models that could be pulled, and the key with the time of
the last run, by which nothing is decided.

### Versions and ServiceUpdateCheck

Versions has the order of versions (`IsNewerVersion`), the tags a service may be offered
(`Compatible`, `AvailableUpdates`, with the limit on the tags whose architecture is
looked up) and the one that is offered (`LatestUpdate`), without state. In
ServiceUpdateCheck, jobs read a row, ask the registry and save an offer on the row they
have read (`TakeCheck`, `AskRegistry`, `RegistryFails`, `SaveOffer`), a browser shows a
row and later the registry's versions (`OpenDialog`, `LoadVersions`) and starts the
update of what it has shown (`StartUpdate`), which saves the image and clears the offer
when it has succeeded (`CompleteUpdate`). What the update does with containers is
ServiceInstall.

Left out: registry tokens, paging and retries of requests, and the text of releases.

### SystemVersionCheck

The two keys with what is known of newer releases, `CheckJob` (which reads them and may
clear the flag), checks forced by a user (`AskGitHub`, `KeepAvailable`, `KeepVersion`),
the early access setting, and `Install`, to the version that is kept.

### MapAssets

The archive of base assets at its one path, and the requests that found the assets
missing: `EnsureBaseAssets`, `LookAtArchive` (its size), `OpenArchive` (new or to append,
as the size seen said), `Written`, `EndDownload`, `NetworkError`, `ExtractSome`,
`ExtractAll`, `RemoveArchive`, and a restart. Of the archive it counts whether it is the
whole, a beginning of it, the whole and more, or none of these. The extraction streams: of an
archive that is spoilt or cut short it may leave what came before that place. A request that
writes from the start into a file truncated since leaves a hole in front of what it writes
(`holed`, `LeftBy`), which only the one that truncated it fills.

## The runs

MC modules give the constants that a `.cfg` cannot write. Deadlock checking is off in
every run: each instance has finitely many requests, after which the system may rest.

| run | instance | checks |
| --- | --- | --- |
| downloads_recover | two ZIMs, one named as a version and sent without a length, one without metadata; 2 slots, 2 attempts, each job fails once and is caught in one crash; server starts with their reconciliation, in steps | `TypeOK`, `RestartDuty`, `ServedWhenDrained`, `FinishedIsRecorded` |
| downloads_wikipedia | two Wikipedia editions; 2 attempts, each job fails twice and is caught in two crashes; deletions, dismissals, dispatches, listeners and callbacks that throw | `DownloadingHasJob` |
| downloads_faults | two versions of one resource, one slot, every fault, stalls up to failure | `JobsSettle` |
| system_update_faults | two clients, two tags, two requests, a sidecar crash, every command may fail | `TypeOK`, `AtMostOnce`, `CompleteIsComplete`, `RequestTaken`, `StatusRests`, `KeepsProtocol` |
| services_faults | Ollama needing Qdrant, Kiwix; two requests of any kind, the sync, every Docker failure | `TypeOK`, `InstallingHasCall`, `NeverLost` |
| embed_faults | an upload and a ZIM of two batches; syncs, deletions, missing and unready services, embedding errors, errors of Redis, a crash, evictions; 1 slot, 2 attempts | `TypeOK`, `StoredOnce`, `CompletedIsStored`, `JobsEnd`, `KeepsStore` |
| search_ranking | every list of up to 5 hits of two documents, 3 results, messages around the token limit, two sizes of model | `TypeOK`, `TruncationSuffices`, `DiversityIsGreedy`, `PoorNotPromoted`, `ContextIsBest` |
| chat_faults | two sessions, two messages, one switch of session, one deletion, one restart, every failure of the model | `TypeOK`, `AnswersInPlace`, `TitleOfFirst`, `InputFrees`, `KeepsConversations` |
| benchmarks_faults | one benchmark, its model, two submissions, a builder tag; one outage, one deletion, one restart of each process, 2 attempts | `TypeOK`, `CompletedIsInstalled`, `NoContainerForgotten`, `RecordedIsAccepted`, `RecordedStays`, `ModelJobsEnd`, `RunsEnd` |
| service_updates_faults | one service, two check jobs, one browser, four versions of two majors; a failed request, a restart, two updates, one architecture lookup | `TypeOK`, `MajorKept`, `OffersSettle` |

Runs that are violated, each a disagreement of the code with its own comments or messages:

| run | property | what happens |
| --- | --- | --- |
| system_checks_cached | `ReleaseNoticed` | the job that should refresh the known release every 12 hours asks for the values that are kept, so no job ever asks GitHub |
| maps_overlap | `TryAgainHelps` | two requests write the archive of base assets at one path; what is left after a network error can be neither resumed nor wholly extracted, whoever tries again. Nothing sends the message quoted, as `ensureBaseAssets` answers true or throws; its promise is what is checked |

### Behaviours without a run

The modules also state what the code does not keep, or keep what a run has no room for.
The first nine have a definition and a `.cfg`, which TLC refutes when it is run by hand
as at the end of this text.

| cfg (module) | property | what happens |
| --- | --- | --- |
| DownloadsExhausted (MCContentDownloads) | `ServedWhenDrained` | a finished download leaves the restart of Kiwix to another one, which then fails for good |
| DownloadsDispatch (MCContentDownloads) | `DownloadingIsPending` | a dispatch that throws, or the death of the server before it, leaves the Wikipedia selection at "downloading" with no job |
| DownloadsReconcile (MCContentDownloads) | `RemovesOnlyGone` | the reconciliation deletes the new row of a download that finished after its listing |
| SystemUpdateTorn (MCSystemUpdate) | `ComposeHasTag` | the sidecar reads the request between truncation and write and puts an empty tag into the compose file |
| ServicesTwice (MCServiceInstall) | `AtMostOneInstall` | two installs of one service pass the "race condition protection" |
| ServicesRollback (MCServiceInstall) | `RolledBack` | a new container that does not start is never rolled back |
| EmbedBatches (MCEmbedPipeline) | `ZimIsEmbedded` | the next batch is added under the running job's own id, which does nothing: only the first batch of a ZIM is embedded |
| EmbedSync (MCEmbedPipeline) | `SyncQueuesMissing` | the sync counts a file as queued whose old failed job makes the add a no-op |
| ChatAnswerHidden (MCChatSessions) | `ShowsSavedAnswers` | a session read between the end of a stream and the save of its answer is shown without it |

Further behaviours that the models have as the code has them, and that no document of
the repository contradicts, so that no property speaks of them:

- A deleted model cannot be downloaded again: `DispatchModelDownload` does nothing while
  the completed job is kept under the model's id (`download_model_job.ts:96`).
- A dialog that was opened before another update offers the version chosen then: starting
  it takes the service back to it, within the major version (`OpenDialog`, `StartUpdate`).
- Only the ten newest tags have their architecture looked up; the others are offered
  without a look, even if all the ten were not made for this host (`AvailableUpdates`,
  `MaxArchChecks`).
- The check job's clearing of the flag may come after a forced check has set it
  (`ClearAvailable` and `KeepAvailable`): the release is hidden until the next check.
- The revert of a selection (`zim_service.ts:502`) is for a result without a job, which
  `dispatch` never gives, and assigns the selection to itself.
- Two choices of an edition at once ("overlap"), each saving only the columns that differ from
  what it read, may leave the new URL with the status of the old one.
- A remote download whose file name is not `<resource>_<version>` has no metadata: it never
  gets a row, and no reconciliation gives it one.
- Once its completed job has been pushed out (`Evict`), the documentation is embedded a
  second time by the next sync, which adds all of it whatever is stored (`SyncDocs`).
- Containers of sysbench that Docker refused to remove, or whose process died, stay: nothing
  looks for them again (`orphaned`).
- `updateContainer` takes whatever version the API is sent: that an update keeps the major
  version (`MajorKept`) is so for users of the page.
- A restart of the server in the middle of the extraction of the maps' base assets leaves
  both paths there, which counts as all of the assets (`ExtractSome`, `Crash`); so does an
  extraction that fails.
- Two versions of one resource that finish together each read the row the other is about to
  replace: `RecordedFileExists` in ContentDownloads fails.
- A Wikipedia file may be swept by the completion of an older selection:
  `InstalledWikipediaOnDisk` fails with two editions in flight.
- Two submissions of one result may both be accepted by the repository: each reads that it
  is not submitted before the other saves (`LoadForSubmission`). What is then stored is
  still true (`RecordedIsAccepted`).
- A crash of the sidecar between `RmService` and `UpService` leaves a container removed
  while the status, after `Boot`, is idle.

### What the properties mean

- `ServedWhenDrained`, `RestartDuty`. A completion restarts Kiwix only when it sees no
  other download pending. `RestartDuty` says that while a finished file is not served,
  some job still has that decision ahead, in every interleaving of completions, retries
  and crashes.
- `FinishedIsRecorded`. Whatever crash of the worker or restart of the server cut things
  off, a finished file whose job is gone and whose name says what it is a version of is in
  the catalogue; excepted are files that came between the listing and the deletions of a
  reconciliation (`missed`), until the next one. That others' rows survive the stale listing
  is what the steps of the reconciliation could break.
- `DownloadingHasJob`. A selection shown as downloading has a job, a request that is about to
  add it, or a listener that is about to mark its failure, or one of these was cut off by an
  error or a death (`cutOff`). No retry, late listener, stall, deletion or dismissal leaves
  it with nobody.
- `AtMostOnce`, `CompleteIsComplete`, `RequestTaken`, `StatusRests`. A request starts one
  update although the sidecar may die before or after it removes the file; "complete"
  is written only when all four containers run the tag; a request is taken, and the
  status comes to rest.
- `InstallingHasCall`. A row at "installing" has a request that will change it, although
  installs, cleanups, reinstalls and the sync write rows from stale copies.
- `NeverLost`. At every point of updates that race each other, some container of the
  service exists under one of its names, for a service that is only updated, started and
  stopped (an install or a forced reinstall may remove it).
- `KeepsProtocol`. Whatever the callers and the crashes, a watcher of the status sees the
  stages of one update in their order, and each end before the next update starts.
- `StoredOnce`, `CompletedIsStored`, `JobsEnd`. Adds from five places, and attempts
  that are tried again, store nothing twice, except after an eviction, a late failure or a
  stall, each of which accounts for one copy more; a completed upload is searchable;
  jobs end and their queue drains.
- `KeepsStore`. No run stores a section twice; an end is told only when nothing is owed, and
  before the job has ended; an upload loses no part; only a run that was broken off leaves
  copies behind. `StatusIsTrue`, that the status of a settled job is right, follows from it
  and is proved beside it.
- `TruncationSuffices`, `DiversityIsGreedy`, `PoorNotPromoted`, `ContextIsBest`. The exit
  for a query that is too long after truncation is never taken, the prefix included; the
  one sort gives the same results as picking the best hit again and again; words do
  not lift a poor hit over a better one, which comes later only for being one more of its
  document; the model is told the first of the results without a gap, and at least one.
- `AnswersInPlace`, `TitleOfFirst`, `InputFrees`. With handlers that overlap and sessions
  deleted under them, an answer follows its own question and none outlives its session; a
  title is that of the session's first exchange although the count deciding it is taken
  late; the page's one flag is always taken back.
- `KeepsConversations`. Question, answer, name, end: no step is left out or done twice,
  nothing is added to a session that is gone, only its deletion takes a row away, and a
  session gets one name. That a session with one answered exchange has a title
  (`TitledWhenAnswered`) follows from it and is proved beside it.
- `CompletedIsInstalled`, `NoContainerForgotten`, `RecordedIsAccepted`, `RecordedStays`,
  `ModelJobsEnd`, `RunsEnd`. A completed download has brought its model; a command
  that ends, well or not, has removed its container or tried to (which is all the code
  promises: containers of dead processes stay); what is stored as submitted was accepted and
  is not taken back by a tag saved from an older row; jobs and runs end without Ollama.
- `MajorKept`, `OffersSettle`. However stale the row and the dialog, no update crosses a
  major version; once registries and users rest, the offer of a service is its newest
  update. Its definition in ServiceUpdateCheck beside them, `OfferKeepsMajor`, is proved.

### Bounds

Each interesting case needs at most two of a kind: two jobs of which one sees the other,
two requests on one container name, two attempts of which one is a retry, one crash and
then one beyond `MaxStalled`. `FailLimit`, `StallLimit`, `MaxRequests` and `MaxCrashes`
bound counters the system does not, `AgainLimit` and `TroubledLimit` how often what is stored
may be stored again (beyond it the worker does not die with the job either) and for how many
files; the proofs below are for every value of them.
Attempts (3 or 30 in the code), slots (3, 2) and batch size (50) are scaled down to 1 or
2, at which their limits are reached. `services_faults` also held with three requests
(9.1 million states, too long for a routine run); `embed_faults` (293,000 states, two to
four minutes, most of them for `JobsEnd` and `KeepsStore`) has no documentation
file, and was also run with one in place of the upload and of the ZIM. Call symmetry is
used in `services_faults` only, which has no liveness property.

`downloads_recover` (990,000 states, about a minute) has two ordinary ZIMs: one that gets a
row, so that a reconciliation meets it finished before its listing, or between listing and
deletion, and one without metadata that is downloaded beside it and never has a row (two
with rows were 3.5 million states, too long for a routine run). Wikipedia files are in
`downloads_wikipedia` (1.9 million states), with a retry and a listener of the attempt
before it, and a second failure or stall that is for good. That run looks at the jobs and
the selection only (`VIEW JobsAndSelection`): with no file named as a version, no tier and
no server start in the instance, nothing that happens to these reads the disk, the rows, or
what Kiwix serves. `downloads_faults` (144,000 states) has one attempt and one slot, as what
it asks, that jobs end, is about slots given back and the second stall.

In `search_ranking` the hits are on both sides of the boost's gate (33 to 39 against 35),
with a boost that lifts one over the other and without, of two documents; five hits for
three results are enough for a document with several hits to be passed by another, and
lengths 3 and 9 for the token limits of both sizes of model to bite on the first and on a
later hit, with limits of 1 and 2 tokens (113,000 states). In `chat_faults` two messages
make every overlap of two handlers, in one session or two (990,000 states, about three
minutes); more sessions only add copies that nobody writes. `benchmarks_faults` (640,000
states, about two minutes) has one benchmark: two share nothing but the worker's slot
and the model, whose download job competes with it anyway; two attempts stand for the forty.
`service_updates_faults` has an update and a newer one within the major and a version across
it, so that an offer can be outdated, undone or of the wrong major; `MaxArchChecks` is 1 of
10, so that the limit is passed. `maps_overlap` needs two requests, the two attempts of the
code and one network error.

### Fairness

- ContentDownloads and EmbedPipeline: weak fairness of each job's worker steps, strong
  fairness of its start. BullMQ fetches the oldest waiting job whenever a slot is free and
  runs delayed and stalled checks on timers; a waiting job can be passed over only by
  jobs that were there before. No fairness of requests, failures or crashes.
- SystemUpdate: weak fairness of the sidecar, a sequential loop that Docker restarts
  (`restart: unless-stopped`). None of the clients.
- ChatSessions: weak fairness of each handler, which runs on its own once the request is
  there, and of the page's part of each stream; the model answers or fails, as the client
  library times out. None of the user, deletions or restarts.
- Benchmarks: weak fairness of each model's job and of each run's steps: commands of
  sysbench are timed, and requests to Ollama end or fail. None of Ollama coming back.
- ServiceUpdateCheck: weak fairness of taking each check, which is scheduled every night,
  and of its steps. None of users or registries.
- SystemVersionCheck: weak fairness of the scheduled job and of a forced check that has
  started; none of users forcing one. MapAssets: weak fairness of each request, and of
  its being made again, which is what its message asks of the user; errors are bounded.
- KnowledgeSearch: none; it has no liveness property.
- ServiceInstall: none, and no liveness is claimed: a Docker call may never return.

## The proofs

For every value of the constants that satisfies the modules' named assumptions. All of
them are proved from `Init`, one step per action, with an inductive invariant.

**ContentDownloadsProofs.** `TypeCorrect`. `DutyInvariant`, `RestartDutyHolds`, `Served`:
`ServedWhenDrained` is not inductive, as it says nothing while downloads are pending.
The invariant `DutyInv` carries the duty: a job that is not past its decision, a past
`finish` implying progress 100 (else two finished jobs wait for each other), no job
failed for good and orphans that will be given back. They assume `Calm`: fewer failures
than attempts, no more stalls than are forgiven, nobody dismisses a job, no error in
the callback or in the restart; `DownloadsExhausted.cfg` shows the first is needed.

`SelectionHasJob` (`DownloadingHasJob`) assumes that no two requests decide on the selection at
once (no "overlap"), and nothing of failures: an error that leaves the selection behind is
recorded in `cutOff`, and the theorem is that nothing else does. Its invariant says of
a choice that is decided on that it is the only one, that no job has its id once it was
looked for, and that what it saw of the URL is still so; and of a selection that is shown as
downloading that somebody will settle it (`Settler`): its job on the way to `SaveInstalled`,
the request that will add it, or a listener.

`FinishedHasRow` (`FinishedIsRecorded`) assumes
`Untouched`: nobody deletes or dismisses anything, the callback does not throw, and
Wikipedia files are of resources of their own, since each of these may take the row, or the
job that was to write it, away by itself. Crashes, retries, stalls and server starts are not
limited. Its invariant ties the reconciliation to the directory: of a file that is finished and
not in `missed`, the resource is among those listed, and its row is not about to be deleted.

**SystemUpdateProofs.** `TypeCorrect`, `RequestStartsOneUpdate` (`AtMostOnce`) and
`CompleteUpdate` (`CompleteIsComplete`), for any clients, tags, faults and crashes. The
invariant of the second relates the request file to the update it started (`OnceInv`);
that of the third follows the loop over the services: those before the current one run
the target tag (`LoopInv`).

The refinement is in this module: `ImplementsProtocol` (`KeepsProtocol`), for any
callers, requests, crashes and faults. Its invariant adds to `OnceInv` what the status
file says at each point of the sidecar (`ShownInv`); every step of SystemUpdate is then
shown to be a step of UpdateProtocol or to change none of what it sees.

**ServiceInstallProofs.** `TypeCorrect`, `InstallingEnds` (`InstallingHasCall`) and
`UpdatesKeepTheService` (`NeverLost`), for any services, dependencies one deep, requests
and failures. `InstallingEnds` needs what each request saw of the rows: a save changes a
column only if it differs from what was read, so a request between its first and last
save must have seen "installing". `UpdatesKeepTheService` rests on the `_old` name being
a lock: Docker refuses a second container of that name, so at most one update per
service is between `Park` and `DropOld`, and what it parked is not what it made.

**EmbedPipelineProofs.** `TypeCorrect`, `NoFurtherCopies` (`StoredOnce`),
`UploadsAreStored` (`CompletedIsStored`), `SettledStatus` (`StatusIsTrue`), for any
files, articles, batch sizes, slots, attempts and stalls. The invariant `Fits` is about
one file: a section that is still to do has no more copies than `again` says, and one that a
run has dealt with one more; of an upload in a run, what is not to do is stored; the status is written before the job leaves.

The refinement is in this module: `ImplementsStore` (`KeepsStore`). What `Fits` had to be
strengthened by is in `Truthful`: while a run has the file's text the status says so, and a
file without a job was never told of. A step of a worker moves the view of its own file
only (`OneSeen`); each is then a step of EmbeddingStore or changes nothing of that view.
`SettledForGood` draws a consequence from the abstract side: until its job is evicted, a file
whose job has completed or failed is not embedded again, and its copies change by deletion
alone.

**ChatSessionsProofs.** `TypeCorrect`, `AnswersStayInPlace`, `TitlesAreOfFirst`,
`AnsweredIsTitled`, for any number of sessions, messages, deletions and restarts. The
invariant says of each message what its handler's stage implies: before `SaveQuestion` no
session has a row of it, between the saves its question is there unless the session is
gone, while it makes a title the session's first two rows are its own, and once it is done
its session is named, has gone on, or lost the answer. `Unnamed` (a session that does not
exist has no title) makes room for the next one created.

The refinement is in this module: `ImplementsConversations` (`KeepsConversations`). It
needs one more invariant, `Namer`: a session was named by a handler that is through. A
handler about to name a session is not, and its exchange is the first, so the session has no
name yet. `HistoryStands` draws the consequence: as long as a session is there, its name
and its rows stay, and more may follow.

**BenchmarksProofs.** `TypeCorrect`, `ModelsInstalled`, `ContainersAccounted`,
`SubmissionsAccepted`, `SubmissionsStay`, for any models, runs, calls, outages and
restarts. The invariant has three parts that touch different variables: `ModelInv` (a job
that is not over has an attempt left), `RunInv` (with `NoContainerForgotten`) and `ResultInv` (what a
submission has loaded is complete, and what it has posted is accepted).

**ServiceUpdateCheckProofs.** `NewerIsStrictOrder` and `OfferIsOneCompatibleTag` about
the versions, for all of them: the order is strict, and total on tags, so the newest of a
list is one tag. `TypeCorrect`, `OffersKeepMajor` (`OfferKeepsMajor`) and
`UpdatesKeepMajor` (`MajorKept`), for any services, jobs, browsers and faults: every copy
of a row, every offer and every choice that is still to be used is of the major version
the service had at first (`MajorInv`), which is what lets a step use what was read long before.

**KnowledgeSearchProofs.** For any hits, limits, penalties that fall and boosts up to 17%.
`QueryFits` (`TruncationSuffices`): two lengths that are each rounded up to tokens never
exceed the limit together after the truncation. The lemma `SortedProperties`, on which the
next ones rest, says that the number of places before a place maps the places one to one
onto their ranks, so that sorting permutes them.
`SortIsGreedy` (`DiversityIsGreedy`): within one document the reranked order and the diverse
one agree, so what is picked of a document is the first of it; the first one left of each
document is then worth what its place counts, and bounds the rest of its document.
`GateHolds` (`PoorNotPromoted`): without another hit of its document before it, the better
hit has the whole of a greater score. `ContextWithoutGap` (`ContextIsBest`): the running
total never falls, so those within the limit are the first. The running total is a recursive
function; that it is defined and never falls is proved by a smallest counterexample, since
the induction theorems cannot be used. `TypeCorrect`. The invariant, `SearchInv`, ties the
orders to the hits stage by stage.

Only model-checked: liveness (`JobsSettle`, `RequestTaken`, `StatusRests`, `JobsEnd`,
`InputFrees`, `ModelJobsEnd`, `RunsEnd`, `OffersSettle`), which is out of the prover's
reach. Every safety property of a passing run is proved.

## Not modelled

- Data sync (`data_sync_service.ts`): no route, job or provider creates, takes or retries
  an item of its queue.
- Hybrid sync, authentication, school users: `start/routes.ts` imports neither
  `routes/api.ts` nor `routes/hybrid.ts`, so their handlers are not reachable;
  `hybrid_sync_service.ts` imports a name the framework does not export.
- Documentation and settings pages, the disk information collector, the install scripts:
  they read and render, or write one file or run once, with nobody to interleave with.
- A restart of the server within ServiceInstall. An install that is cut off leaves its row
  at "installing", which refuses the next one until a forced reinstall; with restarts in the
  model `InstallingHasCall` would be about that alone.
- Downloads of map regions as such: they are jobs like those of ContentDownloads,
  without the Kiwix part, and styles are put together from the files found at each request.
- The remote catalogues (collections, Wikipedia options, models): fetched, validated,
  cached; what they say is a choice in the models.
- `src/admin` is a second tree with copies of most of `src/app` and `src/inertia`, and most of
  the remaining lines of `src/` are pages and components that only render. So the mapped
  lines remain a small share of all lines although the stateful services are modelled.

## Plan

Done, most important behaviour first: ContentDownloads, SystemUpdate, ServiceInstall,
EmbedPipeline; then UpdateProtocol with its refinement, ChatSessions, ModelDownloads and
Benchmarks, Versions with ServiceUpdateCheck and SystemVersionCheck, MapAssets,
KnowledgeSearch; then EmbeddingStore and Conversations with their refinements, and the
proofs about the orders of KnowledgeSearch. What is left:

1. An abstract specification of the library (each resource wanted, on its way, there and
   served) implemented by ContentDownloads, under the assumptions of its proofs.
2. An abstract specification of one service (none, installed, being updated under two
   names) implemented by ServiceInstall without forced reinstalls.
3. A restart of the server in ServiceInstall, and what may be promised of a row at
   "installing" then.
4. Two choices of a Wikipedia edition at once: what may still be promised of the selection.
5. Tier resolution (`collection_manifest_service.ts`) as an algorithm against a reference
   definition.
6. A MapRegions module: region downloads, styles and their files.

## Running

    tlc -workers 2 -config EmbedFaults.cfg MCEmbedPipeline.tla
    tlapm EmbedPipelineProofs.tla
