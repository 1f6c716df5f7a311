----------------------------- MODULE Benchmarks -----------------------------
(***************************************************************************)
(* The benchmarks: runs inside a request or as jobs, the sysbench          *)
(* containers they start, their AI part, which pulls its model next to the *)
(* download jobs of ModelDownloads, the results they store, and what is    *)
(* done with a result: a builder tag, and the submission to the community  *)
(* repository.  Scores are left out: what counts is whether a result has   *)
(* the figures of the AI part.                                             *)
(***************************************************************************)
EXTENDS ModelDownloads

CONSTANTS
    Run,         \* benchmarks asked for
    Submission,  \* calls of submitToRepository
    Tagging,     \* calls of updateBuilderTag
    AIModel,     \* AI_BENCHMARK_MODEL
    MaxRestarts  \* bound: restarts of the web server

ASSUME BenchmarkAssumption ==
    /\ AIModel \in Model
    /\ IsFiniteSet(Run)
    /\ Submission \cap Tagging = {}
    /\ MaxRestarts \in Nat

VARIABLES
    kind,       \* what each run was asked to measure
    mode,       \* in the request, or as a job
    run,        \* how far it is
    ai,         \* it has the figures of the AI part
    container,  \* the sysbench containers there are: one of each run, and of its rerun
    rerun,      \* jobs that have lost their worker once
    orphaned,   \* containers whose process died, or that Docker refused to remove
    results,    \* rows of benchmark_results so far: they are 1 .. results
    complete,   \* those of a full benchmark with AI figures
    recorded,   \* those with submitted_to_repository
    tagged,     \* those with a builder tag
    accepted,   \* those the repository has
    call,       \* how far each call of a handler is
    row,        \* the row it has loaded
    wasRecorded,\* submitted_to_repository in the row it has loaded
    restarts

runVars == <<kind, mode, run, ai, container, rerun, orphaned>>
resultVars == <<results, complete, recorded, tagged>>
callVars == <<call, row, wasRecorded>>
vars == <<modelVars, runVars, resultVars, callVars, accepted, restarts>>

Kinds == {"full", "system", "ai"}
Measuring == {"sysbench", "ai", "ai pull", "generate", "save"}
Ended == {"done", "failed"}
Call == Submission \cup Tagging

TypeOK ==
    /\ ModelTypeOK
    /\ kind \in [Run -> Kinds]
    /\ mode \in [Run -> {"sync", "job"}]
    /\ run \in [Run -> {"none", "queued"} \cup Measuring \cup Ended]
    /\ ai \subseteq Run /\ rerun \subseteq Run
    /\ container \subseteq Run \X (1 .. 2) /\ orphaned \subseteq Run \X (1 .. 2)
    /\ results \in Nat
    /\ complete \subseteq 1 .. results /\ recorded \subseteq 1 .. results
    /\ tagged \subseteq 1 .. results /\ accepted \subseteq 1 .. results
    /\ call \in [Call -> {"idle", "loaded", "accepted", "done"}]
    /\ row \in [Call -> 0 .. results]
    /\ wasRecorded \subseteq Call
    /\ restarts \in 0 .. MaxRestarts

Init ==
    /\ ModelInit
    /\ kind \in [Run -> Kinds] /\ mode \in [Run -> {"sync", "job"}]
    /\ run = [r \in Run |-> "none"]
    /\ ai = {} /\ container = {} /\ rerun = {} /\ orphaned = {}
    /\ results = 0 /\ complete = {} /\ recorded = {} /\ tagged = {} /\ accepted = {}
    /\ call = [c \in Call |-> "idle"]
    /\ row = [c \in Call |-> 0]
    /\ wasRecorded = {}
    /\ restarts = 0

-----------------------------------------------------------------------------
(* A run *)

GoTo(r, from, to) == run[r] = from /\ run' = [run EXCEPT ![r] = to]
NotRunning == UNCHANGED <<modelVars, callVars, resultVars, accepted, restarts>>

\* The service that is asked for its status was made for this request: it is idle.
RunBenchmark(r) ==
    /\ GoTo(r, "none", IF mode[r] = "job" THEN "queued"
                       ELSE IF kind[r] = "ai" THEN "ai" ELSE "sysbench")
    /\ UNCHANGED <<kind, mode, ai, container, rerun, orphaned>>
    /\ NotRunning

\* One job at a time.
TakeBenchmark(r) ==
    /\ \A q \in Run : mode[q] = "job" => run[q] \notin Measuring
    /\ mode[r] = "job"
    /\ GoTo(r, "queued", IF kind[r] = "ai" THEN "ai" ELSE "sysbench")
    /\ UNCHANGED <<kind, mode, ai, container, rerun, orphaned>>
    /\ NotRunning

\* The container a run has now.  It is named after the time: no two have one name.
Sysbench(r) == <<r, IF r \in rerun THEN 2 ELSE 1>>

\* One command stands for the four that measure the system.
StartSysbench(r) ==
    /\ run[r] = "sysbench" /\ Sysbench(r) \notin container
    /\ \/ container' = container \cup {Sysbench(r)} /\ UNCHANGED run
       \/ run' = [run EXCEPT ![r] = "failed"] /\ UNCHANGED container
    /\ UNCHANGED <<kind, mode, ai, rerun, orphaned>>
    /\ NotRunning

\* Mutation: the container is removed only after a good run.
EndSysbenchLeaving(r) ==
    /\ run[r] = "sysbench" /\ Sysbench(r) \in container
    /\ \/ /\ container' = container \ {Sysbench(r)}
          /\ run' = [run EXCEPT ![r] = IF kind[r] = "full" THEN "ai" ELSE "save"]
       \/ run' = [run EXCEPT ![r] = "failed"] /\ UNCHANGED container
    /\ UNCHANGED <<kind, mode, ai, rerun, orphaned>>
    /\ NotRunning

\* Its output is read and it is removed, with force if something failed.  That Docker
\* refuses to remove it changes nothing, and nobody tries again.
EndSysbench(r) ==
    /\ run[r] = "sysbench" /\ Sysbench(r) \in container
    /\ \/ container' = container \ {Sysbench(r)} /\ UNCHANGED orphaned
       \/ orphaned' = orphaned \cup {Sysbench(r)} /\ UNCHANGED container
    /\ \E next \in {IF kind[r] = "full" THEN "ai" ELSE "save", "failed"} :
         run' = [run EXCEPT ![r] = next]
    /\ UNCHANGED <<kind, mode, ai, rerun>>
    /\ NotRunning

\* Without its AI part a full benchmark goes on, and an AI benchmark fails.
SkipAI(r) == run' = [run EXCEPT ![r] = IF kind[r] = "ai" THEN "failed" ELSE "save"]

\* Mutation: the AI part waits until Ollama answers.
CheckAIWaiting(r) ==
    /\ run[r] = "ai" /\ ollama
    /\ run' = [run EXCEPT ![r] = IF AIModel \in installed THEN "generate" ELSE "ai pull"]
    /\ UNCHANGED <<kind, mode, ai, container, rerun, orphaned>>
    /\ NotRunning

\* _runAIBenchmark asks Ollama, and downloadModel asks it again for its models.
CheckAI(r) ==
    /\ run[r] = "ai"
    /\ \/ SkipAI(r)
       \/ /\ ollama
          /\ run' = [run EXCEPT ![r] = IF AIModel \in installed THEN "generate" ELSE "ai pull"]
    /\ UNCHANGED <<kind, mode, ai, container, rerun, orphaned>>
    /\ NotRunning

PullAI(r) ==
    /\ run[r] = "ai pull"
    /\ \/ /\ ollama
          /\ installed' = installed \cup {AIModel}
          /\ removed' = removed \ {AIModel}
          /\ run' = [run EXCEPT ![r] = "generate"]
       \/ SkipAI(r) /\ UNCHANGED <<installed, removed>>
    /\ UNCHANGED <<ollama, jobVars, modelBounds, kind, mode, ai, container, rerun, orphaned,
                   resultVars, callVars, accepted, restarts>>

\* The model may be gone by now.
Generate(r) ==
    /\ run[r] = "generate"
    /\ \/ /\ ollama /\ AIModel \in installed
          /\ run' = [run EXCEPT ![r] = "save"]
          /\ ai' = ai \cup {r}
       \/ SkipAI(r) /\ UNCHANGED ai
    /\ UNCHANGED <<kind, mode, container, rerun, orphaned>>
    /\ NotRunning

\* Mutation: the row is not there yet when its figures are used.
SaveResultUncounted(r) ==
    /\ GoTo(r, "save", "done")
    /\ complete' = IF kind[r] = "full" /\ r \in ai THEN complete \cup {results + 1} ELSE complete
    /\ UNCHANGED <<modelVars, kind, mode, ai, container, rerun, orphaned, results,
                   recorded, tagged, callVars, accepted, restarts>>

\* The row gets an id of its own, not the one the request was answered with.
SaveResult(r) ==
    /\ GoTo(r, "save", "done")
    /\ results' = results + 1
    /\ complete' = IF kind[r] = "full" /\ r \in ai THEN complete \cup {results + 1} ELSE complete
    /\ UNCHANGED <<modelVars, kind, mode, ai, container, rerun, orphaned,
                   recorded, tagged, callVars, accepted, restarts>>

Step(r) ==
    \/ TakeBenchmark(r) \/ StartSysbench(r) \/ EndSysbench(r)
    \/ CheckAI(r) \/ PullAI(r) \/ Generate(r) \/ SaveResult(r)

-----------------------------------------------------------------------------
(* Results *)

\* Mutation: what is not a full benchmark with AI figures can be shared, too.
LoadAnyForSubmission(c) ==
    /\ call[c] = "idle"
    /\ \E i \in (1 .. results) \ recorded :
         /\ call' = [call EXCEPT ![c] = "loaded"]
         /\ row' = [row EXCEPT ![c] = i]
    /\ UNCHANGED <<modelVars, runVars, resultVars, wasRecorded, accepted, restarts>>

\* submitToRepository, to the request: the checks are made on the row as it is loaded.
LoadForSubmission(c) ==
    /\ call[c] = "idle"
    /\ \E i \in complete \ recorded :
         /\ call' = [call EXCEPT ![c] = "loaded"]
         /\ row' = [row EXCEPT ![c] = i]
    /\ UNCHANGED <<modelVars, runVars, resultVars, wasRecorded, accepted, restarts>>

\* What is sent does not name the result, so a second copy is taken, too.  The answer
\* may be lost.
PostSubmission(c) ==
    /\ call[c] = "loaded"
    /\ \/ /\ accepted' = accepted \cup {row[c]}
          /\ \E next \in {"accepted", "done"} : call' = [call EXCEPT ![c] = next]
       \/ call' = [call EXCEPT ![c] = "done"] /\ UNCHANGED accepted
    /\ UNCHANGED <<modelVars, runVars, resultVars, row, wasRecorded, restarts>>

SaveSubmission(c) ==
    /\ call[c] = "accepted"
    /\ recorded' = recorded \cup {row[c]}
    /\ call' = [call EXCEPT ![c] = "done"]
    /\ UNCHANGED <<modelVars, runVars, results, complete, tagged, row, wasRecorded,
                   accepted, restarts>>

LoadForTag(c) ==
    /\ call[c] = "idle"
    /\ \E i \in 1 .. results :
         /\ call' = [call EXCEPT ![c] = "loaded"]
         /\ row' = [row EXCEPT ![c] = i]
         /\ wasRecorded' = IF i \in recorded THEN wasRecorded \cup {c} ELSE wasRecorded \ {c}
    /\ UNCHANGED <<modelVars, runVars, resultVars, accepted, restarts>>

\* Mutation: the row is written back as it was loaded.
SaveTagAndRow(c) ==
    /\ call[c] = "loaded"
    /\ tagged' = tagged \cup {row[c]}
    /\ recorded' = IF c \in wasRecorded THEN recorded \cup {row[c]} ELSE recorded \ {row[c]}
    /\ call' = [call EXCEPT ![c] = "done"]
    /\ UNCHANGED <<modelVars, runVars, results, complete, row, wasRecorded, accepted, restarts>>

\* Only the changed column is written.
SaveTag(c) ==
    /\ call[c] = "loaded"
    /\ \E to \in {tagged \cup {row[c]}, tagged \ {row[c]}} : tagged' = to
    /\ call' = [call EXCEPT ![c] = "done"]
    /\ UNCHANGED <<modelVars, runVars, results, complete, recorded, row, wasRecorded,
                   accepted, restarts>>

Submit(c) == LoadForSubmission(c) \/ PostSubmission(c) \/ SaveSubmission(c)
Tag(c) == LoadForTag(c) \/ SaveTag(c)

-----------------------------------------------------------------------------
(* Restarts *)

\* The worker dies: its benchmark is run again once, however few attempts it has.
WorkerRestart ==
    /\ stalls < MaxStalls
    /\ stalls' = stalls + 1
    /\ StallModelJobs
    /\ LET dying == {r \in Run : mode[r] = "job" /\ run[r] \in Measuring}
       IN  /\ run' = [r \in Run |-> IF r \notin dying THEN run[r]
                                    ELSE IF r \in rerun THEN "failed" ELSE "queued"]
           /\ rerun' = rerun \cup dying
           /\ orphaned' = orphaned \cup (container \cap {Sysbench(r) : r \in dying})
           /\ ai' = ai \ dying
    /\ UNCHANGED <<ollamaVars, attempt, outages, removals, kind, mode, container, resultVars,
                   callVars, accepted, restarts>>

\* The web server dies, and the requests in it.
ServerRestart ==
    /\ restarts < MaxRestarts
    /\ restarts' = restarts + 1
    /\ LET dying == {r \in Run : mode[r] = "sync" /\ run[r] \in Measuring}
       IN  /\ run' = [r \in Run |-> IF r \in dying THEN "failed" ELSE run[r]]
           /\ orphaned' = orphaned \cup (container \cap {Sysbench(r) : r \in dying})
    /\ call' = [c \in Call |-> IF call[c] = "idle" THEN "idle" ELSE "done"]
    /\ UNCHANGED <<modelVars, kind, mode, ai, container, rerun, resultVars, row, wasRecorded,
                   accepted>>

BenchmarkUnchanged == UNCHANGED <<runVars, resultVars, callVars, accepted, restarts>>

Models ==
    /\ \/ OllamaUp \/ OllamaDown
       \/ \E m \in Model : DeleteModel(m) \/ DispatchModelDownload(m) \/ ModelWorker(m)
    /\ BenchmarkUnchanged

Next ==
    \/ Models
    \/ \E r \in Run : RunBenchmark(r) \/ Step(r)
    \/ \E c \in Submission : Submit(c)
    \/ \E c \in Tagging : Tag(c)
    \/ WorkerRestart \/ ServerRestart

Spec == Init /\ [][Next]_vars

\* The worker goes on, and sysbench, Ollama and a pull end, well or not.
FairSpec ==
    /\ Spec
    /\ \A m \in Model : WF_vars(ModelWorker(m) /\ BenchmarkUnchanged)
    /\ \A r \in Run : WF_vars(Step(r))

-----------------------------------------------------------------------------
(* Properties *)

\* A container of sysbench that is there is the one a run measures with just now, or its
\* process died with it, or Docker refused to remove it: no end of a command, well or not,
\* forgets it (benchmark_service.ts:730-767).  Those of the last two kinds stay for good.
NoContainerForgotten ==
    \A r \in Run : \A i \in 1 .. 2 :
        <<r, i>> \in container \ orphaned =>
            run[r] = "sysbench" /\ <<r, i>> = Sysbench(r)

\* Whatever is stored as submitted is with the repository and is a full benchmark with
\* AI figures, though checks, request and save are apart (benchmark_service.ts:108-158).
RecordedIsAccepted == recorded \subseteq accepted /\ accepted \subseteq complete

\* A result stays submitted, though a tag is saved from a row that was loaded before
\* (benchmark_controller.ts:195-230).
RecordedStays == [][recorded \subseteq recorded']_vars

\* A benchmark that has started ends, with or without Ollama (benchmark_service.ts:338-415).
RunsEnd == \A r \in Run : run[r] \notin {"none"} \cup Ended ~> run[r] \in Ended

=============================================================================
