-------------------------- MODULE BenchmarksProofs --------------------------
(***************************************************************************)
(* The benchmarks and the model downloads, for any number of runs, models, *)
(* jobs, submissions and failures.  The invariant has a part for each      *)
(* component, and the part of the results speaks of the calls that are     *)
(* under way: what a submission has loaded was complete, and what it was   *)
(* told is accepted is with the repository.                                *)
(***************************************************************************)
EXTENDS Benchmarks, TLAPS

\* A job that is not over has an attempt left.
AttemptLeft == \A m \in Model : job[m] \in Pending \cup {"none"} => attempt[m] < MaxAttempts

ModelInv == ModelTypeOK /\ CompletedIsInstalled /\ AttemptLeft

RunInv ==
    /\ kind \in [Run -> Kinds]
    /\ mode \in [Run -> {"sync", "job"}]
    /\ run \in [Run -> {"none", "queued"} \cup Measuring \cup Ended]
    /\ ai \subseteq Run /\ rerun \subseteq Run
    /\ container \subseteq Run \X (1 .. 2) /\ orphaned \subseteq Run \X (1 .. 2)
    /\ NoContainerForgotten

ResultsTyped ==
    /\ results \in Nat
    /\ complete \subseteq 1 .. results /\ recorded \subseteq 1 .. results
    /\ tagged \subseteq 1 .. results /\ accepted \subseteq 1 .. results

CallsTyped ==
    /\ call \in [Call -> {"idle", "loaded", "accepted", "done"}]
    /\ row \in [Call -> 0 .. results]
    /\ wasRecorded \subseteq Call

CallsHold ==
    /\ \A c \in Submission : call[c] \in {"loaded", "accepted"} => row[c] \in complete
    /\ \A c \in Submission : call[c] = "accepted" => row[c] \in accepted
    /\ \A c \in Tagging : call[c] # "accepted" /\ (call[c] = "loaded" => row[c] \in 1 .. results)

ResultInv == ResultsTyped /\ CallsTyped /\ CallsHold /\ RecordedIsAccepted

Inv == ModelInv /\ RunInv /\ ResultInv /\ restarts \in 0 .. MaxRestarts

LEMMA ModelSame == ASSUME ModelInv, UNCHANGED modelVars PROVE ModelInv'
BY DEF ModelInv, ModelTypeOK, CompletedIsInstalled, AttemptLeft, modelVars, ollamaVars, jobVars, modelBounds

LEMMA RunSame == ASSUME RunInv, UNCHANGED runVars PROVE RunInv'
BY DEF RunInv, NoContainerForgotten, Sysbench, runVars

LEMMA ResultSame ==
    ASSUME ResultInv, UNCHANGED <<resultVars, callVars, accepted>> PROVE ResultInv'
BY DEF ResultInv, ResultsTyped, CallsTyped, CallsHold, RecordedIsAccepted, resultVars, callVars

-----------------------------------------------------------------------------
(* Ollama and its jobs *)

LEMMA OllamaKeeps ==
    ASSUME ModelInv, NEW m \in Model, OllamaUp \/ OllamaDown \/ DeleteModel(m)
    PROVE  ModelInv'
<1> USE DEF ModelInv, ModelTypeOK, CompletedIsInstalled, AttemptLeft
<1>1. UNCHANGED <<job, attempt, stalled, stalls>>
  BY DEF OllamaUp, OllamaDown, DeleteModel, jobVars, modelBounds
<1>2. /\ ollama' \in BOOLEAN
      /\ installed' \subseteq Model /\ removed' \subseteq Model
      /\ installed \cup removed \subseteq installed' \cup removed'
  <2>1. CASE OllamaUp
    BY <2>1 DEF OllamaUp
  <2>2. CASE OllamaDown
    <3>1. \/ UNCHANGED <<installed, removed>>
          \/ installed' = {} /\ removed' = removed \cup installed
      BY <2>2 DEF OllamaDown
    <3>2. ollama' = FALSE
      BY <2>2 DEF OllamaDown
    <3> QED BY <3>1, <3>2
  <2>3. CASE DeleteModel(m)
    BY <2>3 DEF DeleteModel
  <2> QED BY <2>1, <2>2, <2>3
<1>3. outages' \in 0 .. MaxOutages /\ removals' \in 0 .. MaxRemovals
  BY ModelAssumption DEF OllamaUp, OllamaDown, DeleteModel, modelBounds
<1> QED BY <1>1, <1>2, <1>3

LEMMA AgainKeeps ==
    ASSUME ModelInv, NEW m \in Model, job[m] \in Active, Again(m)
    PROVE  /\ job' \in [Model -> Pending \cup {"none", "completed", "failed"}]
           /\ attempt' \in [Model -> 0 .. MaxAttempts]
           /\ \A n \in Model : job'[n] = "completed" => job[n] = "completed"
           /\ AttemptLeft'
<1> USE DEF ModelInv, ModelTypeOK
<1>1. attempt[m] + 1 \in 0 .. MaxAttempts
  BY ModelAssumption DEF AttemptLeft, Active, Pending
<1>2. attempt' = [attempt EXCEPT ![m] = attempt[m] + 1]
  BY DEF Again
<1>3. job' = [job EXCEPT ![m] = IF attempt[m] + 1 < MaxAttempts THEN "delayed" ELSE "failed"]
  BY DEF Again
<1> QED BY <1>1, <1>2, <1>3 DEF AttemptLeft, Pending

LEMMA JobsKeep ==
    ASSUME ModelInv, NEW m \in Model, DispatchModelDownload(m) \/ ModelWorker(m)
    PROVE  ModelInv'
<1> USE DEF ModelInv, ModelTypeOK
<1>1. CASE DispatchModelDownload(m) \/ TakeModelJob(m) \/ BackoffElapses(m)
  <2>1. \E next \in {"waiting", "listing"} :
          job[m] \in Pending \cup {"none"} /\ job' = [job EXCEPT ![m] = next]
    BY <1>1 DEF DispatchModelDownload, TakeModelJob, BackoffElapses, Pending
  <2>2. UNCHANGED <<ollamaVars, attempt, stalled, modelBounds>>
    BY <1>1 DEF DispatchModelDownload, TakeModelJob, BackoffElapses
  <2> QED BY <2>1, <2>2 DEF CompletedIsInstalled, AttemptLeft, Pending, ollamaVars, modelBounds
<1>2. CASE ListModels(m)
  <2>1. UNCHANGED <<ollama, installed, removed, stalled, stalls, outages, removals>>
    BY <1>2 DEF ListModels, ollamaVars, modelBounds
  <2>2. CASE ~ollama
    <3>1. Again(m) /\ job[m] \in Active
      BY <1>2, <2>2 DEF ListModels, Active
    <3> QED BY <2>1, <3>1, AgainKeeps DEF CompletedIsInstalled
  <2>3. CASE ollama
    <3>1. /\ job[m] = "listing" /\ attempt' = attempt
          /\ job' = [job EXCEPT ![m] = IF m \in installed THEN "completed" ELSE "pulling"]
      BY <1>2, <2>3 DEF ListModels
    <3> QED BY <2>1, <3>1 DEF CompletedIsInstalled, AttemptLeft, Pending
  <2> QED BY <2>2, <2>3
<1>3. CASE PullModel(m)
  <2>1. UNCHANGED <<ollama, stalled, stalls, outages, removals>> /\ job[m] = "pulling"
    BY <1>3 DEF PullModel, modelBounds
  <2>2. CASE /\ installed' = installed \cup {m} /\ removed' = removed \ {m}
             /\ job' = [job EXCEPT ![m] = "completed"] /\ attempt' = attempt
    BY <2>1, <2>2 DEF CompletedIsInstalled, AttemptLeft, Pending
  <2>3. CASE Again(m) /\ UNCHANGED <<installed, removed>>
    <3>1. job[m] \in Active
      BY <2>1 DEF Active
    <3> QED BY <2>1, <2>3, <3>1, AgainKeeps DEF CompletedIsInstalled
  <2> QED BY <1>3, <2>2, <2>3 DEF PullModel
<1> QED BY <1>1, <1>2, <1>3 DEF ModelWorker

-----------------------------------------------------------------------------
(* Runs *)

LEMMA SysbenchTyped == ASSUME NEW r \in Run PROVE Sysbench(r) \in Run \X (1 .. 2)
BY DEF Sysbench

LEMMA SysbenchOwn ==
    ASSUME NEW q \in Run, NEW r \in Run, NEW i, <<q, i>> = Sysbench(r) PROVE q = r
BY DEF Sysbench

LEMMA StartSysbenchKeeps == ASSUME RunInv, NEW r \in Run, StartSysbench(r) PROVE RunInv'
<1>1. /\ run[r] = "sysbench" /\ UNCHANGED <<kind, mode, ai, rerun, orphaned>>
      /\ Sysbench(r) \notin container
  BY DEF StartSysbench
<1>2. \A q \in Run : Sysbench(q)' = Sysbench(q)
  BY <1>1 DEF Sysbench
<1>3. CASE container' = container \cup {Sysbench(r)} /\ UNCHANGED run
  <2>1. container' \subseteq Run \X (1 .. 2)
    BY <1>3, SysbenchTyped DEF RunInv
  <2>2. ASSUME NEW q \in Run, NEW i \in 1 .. 2, <<q, i>> \in container' \ orphaned'
        PROVE  run'[q] = "sysbench" /\ <<q, i>> = Sysbench(q)
    <3>1. CASE <<q, i>> = Sysbench(r)
      BY <1>1, <1>3, <3>1, SysbenchOwn
    <3>2. CASE <<q, i>> # Sysbench(r)
      BY <1>1, <1>3, <2>2, <3>2 DEF RunInv, NoContainerForgotten
    <3> QED BY <3>1, <3>2
  <2> QED BY <1>1, <1>2, <1>3, <2>1, <2>2 DEF RunInv, NoContainerForgotten
<1>4. CASE run' = [run EXCEPT ![r] = "failed"] /\ UNCHANGED container
  <2>1. ASSUME NEW q \in Run, NEW i \in 1 .. 2, <<q, i>> \in container' \ orphaned'
        PROVE  run'[q] = "sysbench" /\ <<q, i>> = Sysbench(q)
    BY <1>1, <1>4, <2>1 DEF RunInv, NoContainerForgotten
  <2> QED BY <1>1, <1>2, <1>4, <2>1 DEF RunInv, NoContainerForgotten, Ended
<1> QED BY <1>3, <1>4 DEF StartSysbench

LEMMA EndSysbenchKeeps == ASSUME RunInv, NEW r \in Run, EndSysbench(r) PROVE RunInv'
<1>1. /\ run[r] = "sysbench" /\ Sysbench(r) \in container
      /\ UNCHANGED <<kind, mode, ai, rerun>>
      /\ container' \subseteq container /\ orphaned' \subseteq orphaned \cup {Sysbench(r)}
      /\ container' \ orphaned' \subseteq (container \ orphaned) \ {Sysbench(r)}
  BY DEF EndSysbench
<1>2. PICK next \in {"ai", "save", "failed"} : run' = [run EXCEPT ![r] = next]
  BY DEF EndSysbench
<1>3. \A q \in Run : Sysbench(q)' = Sysbench(q)
  BY <1>1 DEF Sysbench
<1>4. ASSUME NEW q \in Run, NEW i \in 1 .. 2, <<q, i>> \in container' \ orphaned'
      PROVE  run'[q] = "sysbench" /\ <<q, i>> = Sysbench(q)
  <2>1. /\ <<q, i>> \in container \ orphaned /\ <<q, i>> # Sysbench(r)
    BY <1>1, <1>4
  <2>2. run[q] = "sysbench" /\ <<q, i>> = Sysbench(q)
    BY <2>1 DEF RunInv, NoContainerForgotten
  <2> QED BY <1>2, <2>1, <2>2 DEF RunInv
<1>5. container' \subseteq Run \X (1 .. 2) /\ orphaned' \subseteq Run \X (1 .. 2)
  BY <1>1, SysbenchTyped DEF RunInv
<1>6. run' \in [Run -> {"none", "queued"} \cup Measuring \cup Ended]
  BY <1>2 DEF RunInv, Measuring, Ended
<1>7. NoContainerForgotten'
  BY <1>3, <1>4 DEF NoContainerForgotten
<1> QED BY <1>1, <1>5, <1>6, <1>7 DEF RunInv

LEMMA RunStepKeeps ==
    ASSUME RunInv, NEW r \in Run, NotRunning,
           \/ RunBenchmark(r) \/ TakeBenchmark(r) \/ StartSysbench(r) \/ EndSysbench(r)
           \/ CheckAI(r)
    PROVE  RunInv'
<1> USE DEF Kinds, Measuring, Ended, NoContainerForgotten, Sysbench
<1>1. CASE RunBenchmark(r)
  BY <1>1 DEF RunBenchmark, RunInv, GoTo
<1>2. CASE TakeBenchmark(r)
  BY <1>2 DEF TakeBenchmark, RunInv, GoTo
<1>3. CASE StartSysbench(r)
  BY <1>3, StartSysbenchKeeps
<1>4. CASE EndSysbench(r)
  BY <1>4, EndSysbenchKeeps
<1>5. CASE CheckAI(r)
  BY <1>5 DEF CheckAI, RunInv, SkipAI
<1> QED BY <1>1, <1>2, <1>3, <1>4, <1>5

LEMMA PullKeeps == ASSUME Inv, NEW r \in Run, PullAI(r) PROVE Inv'
<1> USE DEF Inv
<1>1. ModelInv'
  BY BenchmarkAssumption
     DEF PullAI, SkipAI, ModelInv, ModelTypeOK, CompletedIsInstalled, AttemptLeft, jobVars, modelBounds
<1>2. RunInv'
  BY DEF PullAI, SkipAI, RunInv, Measuring, Ended, NoContainerForgotten, Sysbench
<1> QED BY <1>1, <1>2, ResultSame DEF PullAI

LEMMA GenerateKeeps == ASSUME RunInv, NEW r \in Run, Generate(r) PROVE RunInv'
BY DEF Generate, SkipAI, RunInv, Measuring, Ended, NoContainerForgotten, Sysbench

LEMMA SaveResultKeeps == ASSUME Inv, NEW r \in Run, SaveResult(r) PROVE Inv'
<1> USE DEF Inv
<1>1. RunInv'
  BY DEF SaveResult, GoTo, RunInv, Measuring, Ended, NoContainerForgotten, Sysbench
<1>2. /\ results' = results + 1 /\ complete \subseteq complete'
      /\ complete' \subseteq complete \cup {results + 1}
      /\ UNCHANGED <<recorded, tagged, call, row, wasRecorded, accepted>>
  BY DEF SaveResult, callVars
<1>3. ResultInv'
  <2>1. 1 .. results \subseteq 1 .. results' /\ 0 .. results \subseteq 0 .. results'
        /\ results + 1 \in 1 .. results' /\ results' \in Nat
    BY <1>2 DEF ResultInv, ResultsTyped
  <2>2. ResultsTyped'
    BY <1>2, <2>1 DEF ResultInv, ResultsTyped
  <2>3. CallsTyped'
    BY <1>2, <2>1 DEF ResultInv, CallsTyped
  <2>4. CallsHold' /\ RecordedIsAccepted'
    BY <1>2, <2>1 DEF ResultInv, CallsHold, RecordedIsAccepted
  <2> QED BY <2>2, <2>3, <2>4 DEF ResultInv
<1> QED BY <1>1, <1>3, ModelSame DEF SaveResult

-----------------------------------------------------------------------------
(* Results *)

LEMMA SubmitKeeps == ASSUME ResultInv, NEW c \in Submission, Submit(c) PROVE ResultInv'
<1> USE DEF ResultInv
<1>1. c \in Call /\ c \notin Tagging
  BY BenchmarkAssumption DEF Call
<1>2. UNCHANGED <<results, complete, tagged, wasRecorded>>
  BY DEF Submit, LoadForSubmission, PostSubmission, SaveSubmission, resultVars, callVars
<1>3. CASE LoadForSubmission(c)
  <2>1. PICK i \in complete : /\ call' = [call EXCEPT ![c] = "loaded"]
                              /\ row' = [row EXCEPT ![c] = i]
    BY <1>3 DEF LoadForSubmission
  <2>2. UNCHANGED <<recorded, accepted>> /\ i \in 0 .. results
    BY <1>3 DEF LoadForSubmission, resultVars, ResultsTyped
  <2>3. ResultsTyped' /\ RecordedIsAccepted'
    BY <1>2, <2>2 DEF ResultsTyped, RecordedIsAccepted
  <2>4. CallsTyped'
    BY <1>1, <1>2, <2>1, <2>2 DEF CallsTyped
  <2>5. CallsHold'
    BY <1>1, <1>2, <2>1, <2>2 DEF CallsHold, CallsTyped
  <2> QED BY <2>3, <2>4, <2>5
<1>4. CASE PostSubmission(c)
  <2>1. UNCHANGED <<recorded, row>> /\ call[c] = "loaded"
    BY <1>4 DEF PostSubmission, resultVars
  <2>2. row[c] \in complete
    BY <2>1 DEF CallsHold
  <2>3. \/ /\ accepted' = accepted \cup {row[c]}
           /\ \E next \in {"accepted", "done"} : call' = [call EXCEPT ![c] = next]
        \/ call' = [call EXCEPT ![c] = "done"] /\ accepted' = accepted
    BY <1>4 DEF PostSubmission
  <2>4. ResultsTyped' /\ RecordedIsAccepted'
    BY <1>2, <2>1, <2>2, <2>3 DEF ResultsTyped, RecordedIsAccepted
  <2>5. CallsTyped'
    <3>1. \E next \in {"accepted", "done"} : call' = [call EXCEPT ![c] = next]
      BY <2>3
    <3> QED BY <1>1, <1>2, <2>1, <3>1 DEF CallsTyped
  <2>6. CallsHold'
    <3>1. \A d \in Call \ {c} : call'[d] = call[d]
      BY <2>3 DEF CallsTyped
    <3>2. accepted \subseteq accepted' /\ (call'[c] = "accepted" => row[c] \in accepted')
      BY <1>1, <2>3 DEF CallsTyped
    <3> QED BY <1>1, <1>2, <2>1, <2>2, <3>1, <3>2 DEF CallsHold, Call
  <2> QED BY <2>4, <2>5, <2>6
<1>5. CASE SaveSubmission(c)
  <2>1. /\ call[c] = "accepted" /\ call' = [call EXCEPT ![c] = "done"]
        /\ recorded' = recorded \cup {row[c]} /\ UNCHANGED <<accepted, row>>
    BY <1>5 DEF SaveSubmission
  <2>2. row[c] \in accepted
    BY <2>1 DEF CallsHold
  <2>3. ResultsTyped' /\ RecordedIsAccepted'
    BY <1>2, <2>1, <2>2 DEF ResultsTyped, RecordedIsAccepted
  <2>4. CallsTyped' /\ CallsHold'
    BY <1>1, <1>2, <2>1 DEF CallsTyped, CallsHold
  <2> QED BY <2>3, <2>4
<1> QED BY <1>3, <1>4, <1>5 DEF Submit

LEMMA TagKeeps == ASSUME ResultInv, NEW c \in Tagging, Tag(c) PROVE ResultInv'
<1> USE DEF ResultInv
<1>1. c \in Call /\ c \notin Submission
  BY BenchmarkAssumption DEF Call
<1>2. UNCHANGED <<results, complete, recorded, accepted>>
  BY DEF Tag, LoadForTag, SaveTag, resultVars
<1>3. RecordedIsAccepted'
  BY <1>2 DEF RecordedIsAccepted
<1>4. CASE LoadForTag(c)
  <2>1. PICK i \in 1 .. results : /\ call' = [call EXCEPT ![c] = "loaded"]
                                  /\ row' = [row EXCEPT ![c] = i]
                                  /\ wasRecorded' \subseteq wasRecorded \cup {c}
    BY <1>4 DEF LoadForTag
  <2>2. tagged' = tagged /\ i \in 0 .. results
    BY <1>4 DEF LoadForTag, resultVars, ResultsTyped
  <2>3. ResultsTyped' /\ CallsTyped'
    BY <1>1, <1>2, <2>1, <2>2 DEF ResultsTyped, CallsTyped
  <2>4. CallsHold'
    BY <1>1, <1>2, <2>1, <2>2 DEF CallsHold, CallsTyped
  <2> QED BY <1>3, <2>3, <2>4
<1>5. CASE SaveTag(c)
  <2>1. /\ call[c] = "loaded" /\ call' = [call EXCEPT ![c] = "done"]
        /\ tagged' \subseteq tagged \cup {row[c]}
        /\ UNCHANGED <<row, wasRecorded>>
    BY <1>5 DEF SaveTag
  <2>2. row[c] \in 1 .. results
    BY <2>1 DEF CallsHold
  <2>3. ResultsTyped' /\ CallsTyped' /\ CallsHold'
    BY <1>1, <1>2, <2>1, <2>2 DEF ResultsTyped, CallsTyped, CallsHold
  <2> QED BY <1>3, <2>3
<1> QED BY <1>4, <1>5 DEF Tag

-----------------------------------------------------------------------------
(* Restarts *)

LEMMA WorkerRestartKeeps == ASSUME Inv, WorkerRestart PROVE Inv'
<1> USE DEF Inv
<1>1. ModelInv'
  <2>1. UNCHANGED <<ollama, installed, removed, attempt, outages, removals>>
    BY DEF WorkerRestart, ollamaVars
  <2>2. stalls' \in 0 .. MaxStalls
    BY ModelAssumption DEF WorkerRestart, ModelInv, ModelTypeOK
  <2>3. /\ job' = [m \in Model |-> IF job[m] \notin Active THEN job[m]
                                   ELSE IF m \in stalled THEN "failed" ELSE "stalled"]
        /\ stalled' = stalled \cup {m \in Model : job[m] \in Active}
    BY DEF WorkerRestart, StallModelJobs
  <2> QED BY <2>1, <2>2, <2>3
          DEF ModelInv, ModelTypeOK, CompletedIsInstalled, AttemptLeft, Pending, Active
<1>2. RunInv'
  <2> DEFINE dying == {r \in Run : mode[r] = "job" /\ run[r] \in Measuring}
  <2>1. /\ run' = [r \in Run |-> IF r \notin dying THEN run[r]
                                ELSE IF r \in rerun THEN "failed" ELSE "queued"]
        /\ rerun' = rerun \cup dying
        /\ orphaned' = orphaned \cup (container \cap {<<r, IF r \in rerun THEN 2 ELSE 1>> : r \in dying})
        /\ ai' = ai \ dying /\ UNCHANGED <<kind, mode, container>>
    BY DEF WorkerRestart, Sysbench
  <2>2. NoContainerForgotten'
    <3> SUFFICES ASSUME NEW r \in Run, NEW i \in 1 .. 2,
                        <<r, i>> \in container \ orphaned'
                 PROVE  run'[r] = "sysbench" /\ i = (IF r \in rerun' THEN 2 ELSE 1)
      BY <2>1 DEF NoContainerForgotten, Sysbench
    <3>1. run[r] = "sysbench" /\ i = (IF r \in rerun THEN 2 ELSE 1)
      BY <2>1 DEF RunInv, NoContainerForgotten, Sysbench
    <3>2. r \notin dying
      BY <2>1, <3>1
    <3> QED BY <2>1, <3>1, <3>2
  <2> QED BY <2>1, <2>2 DEF RunInv, Measuring, Ended
<1>3. restarts' = restarts
  BY DEF WorkerRestart
<1> QED BY <1>1, <1>2, <1>3, ResultSame DEF WorkerRestart

LEMMA ServerRestartKeeps == ASSUME Inv, ServerRestart PROVE Inv'
<1> USE DEF Inv
<1>1. RunInv'
  BY DEF ServerRestart, RunInv, NoContainerForgotten, Sysbench, Measuring, Ended
<1>2. ResultInv'
  <2>1. /\ UNCHANGED <<results, complete, recorded, tagged, row, wasRecorded, accepted>>
        /\ call' = [c \in Call |-> IF call[c] = "idle" THEN "idle" ELSE "done"]
    BY DEF ServerRestart, resultVars
  <2>2. ResultsTyped' /\ RecordedIsAccepted'
    BY <2>1 DEF ResultInv, ResultsTyped, RecordedIsAccepted
  <2>3. CallsTyped' /\ CallsHold'
    BY <2>1 DEF ResultInv, CallsTyped, CallsHold, Call
  <2> QED BY <2>2, <2>3 DEF ResultInv
<1>3. restarts' \in 0 .. MaxRestarts
  BY BenchmarkAssumption DEF ServerRestart
<1> QED BY <1>1, <1>2, <1>3, ModelSame DEF ServerRestart

-----------------------------------------------------------------------------

LEMMA InitInv == ASSUME Init PROVE Inv
<1>1. ModelInv
  <2>1. ModelTypeOK
    <3>1. /\ ollama = FALSE /\ installed = {} /\ removed = {} /\ stalled = {}
          /\ job = [m \in Model |-> "none"] /\ attempt = [m \in Model |-> 0]
          /\ stalls = 0 /\ outages = 0 /\ removals = 0
      BY DEF Init, ModelInit
    <3>2. 0 \in 0 .. MaxAttempts /\ 0 \in 0 .. MaxStalls
          /\ 0 \in 0 .. MaxOutages /\ 0 \in 0 .. MaxRemovals
      BY ModelAssumption
    <3>3. ollama \in BOOLEAN
      BY <3>1
    <3> QED BY <3>1, <3>2, <3>3 DEF ModelTypeOK
  <2>2. CompletedIsInstalled /\ AttemptLeft
    BY ModelAssumption DEF Init, ModelInit, CompletedIsInstalled, AttemptLeft
  <2> QED BY <2>1, <2>2 DEF ModelInv
<1>2. RunInv
  BY DEF Init, RunInv, NoContainerForgotten, Sysbench
<1>3. ResultInv
  BY DEF Init, ResultInv, ResultsTyped, CallsTyped, CallsHold, RecordedIsAccepted, Call
<1> QED BY <1>1, <1>2, <1>3, BenchmarkAssumption DEF Init, Inv

LEMMA NextInv == ASSUME Inv, [Next]_vars PROVE Inv'
<1> USE DEF Inv
<1>1. ASSUME Models PROVE Inv'
  <2>1. UNCHANGED <<runVars, resultVars, callVars, accepted, restarts>>
    BY <1>1 DEF Models, BenchmarkUnchanged
  <2>2. PICK m \in Model :
          OllamaUp \/ OllamaDown \/ DeleteModel(m) \/ DispatchModelDownload(m) \/ ModelWorker(m)
    BY <1>1, BenchmarkAssumption DEF Models
  <2>3. ModelInv'
    BY <2>2, OllamaKeeps, JobsKeep
  <2> QED BY <2>1, <2>3, RunSame, ResultSame
<1>2. ASSUME NEW r \in Run, RunBenchmark(r) \/ Step(r) PROVE Inv'
  <2>1. CASE \/ RunBenchmark(r) \/ TakeBenchmark(r) \/ StartSysbench(r) \/ EndSysbench(r)
             \/ CheckAI(r)
    <3>1. NotRunning
      BY <2>1 DEF RunBenchmark, TakeBenchmark, StartSysbench, EndSysbench, CheckAI
    <3> QED BY <2>1, <3>1, RunStepKeeps, ModelSame, ResultSame DEF NotRunning
  <2>2. CASE PullAI(r)
    BY <2>2, PullKeeps
  <2>3. CASE Generate(r)
    <3>1. NotRunning
      BY <2>3 DEF Generate
    <3> QED BY <2>3, <3>1, GenerateKeeps, ModelSame, ResultSame DEF NotRunning
  <2>4. CASE SaveResult(r)
    BY <2>4, SaveResultKeeps
  <2> QED BY <1>2, <2>1, <2>2, <2>3, <2>4 DEF Step
<1>3. ASSUME NEW c \in Submission, Submit(c) PROVE Inv'
  <2>1. UNCHANGED <<modelVars, runVars, restarts>>
    BY <1>3 DEF Submit, LoadForSubmission, PostSubmission, SaveSubmission
  <2> QED BY <1>3, <2>1, SubmitKeeps, ModelSame, RunSame
<1>4. ASSUME NEW c \in Tagging, Tag(c) PROVE Inv'
  <2>1. UNCHANGED <<modelVars, runVars, restarts>>
    BY <1>4 DEF Tag, LoadForTag, SaveTag
  <2> QED BY <1>4, <2>1, TagKeeps, ModelSame, RunSame
<1>5. ASSUME UNCHANGED vars PROVE Inv'
  BY <1>5, ModelSame, RunSame, ResultSame DEF vars
<1> QED BY <1>1, <1>2, <1>3, <1>4, <1>5, WorkerRestartKeeps, ServerRestartKeeps DEF Next

\* Every reachable state is well typed; among others, no call holds a row that was never
\* stored, and an attempt is never counted beyond the limit of a job.
THEOREM TypeCorrect == Spec => []TypeOK
<1>1. Inv => TypeOK
  BY DEF Inv, TypeOK, ModelInv, RunInv, ResultInv, ResultsTyped, CallsTyped
<1> QED BY <1>1, InitInv, NextInv, PTL DEF Spec

\* A completed download has left its model in Ollama, unless it was removed since, for any
\* number of models, attempts, outages and restarts (download_model_job.ts:65-70).
THEOREM ModelsInstalled == Spec => []CompletedIsInstalled
<1>1. Inv => CompletedIsInstalled
  BY DEF Inv, ModelInv
<1> QED BY <1>1, InitInv, NextInv, PTL DEF Spec

\* A container of sysbench that is there is the one its run measures with just now, or is
\* one its process died with or Docker refused to remove, for any number of runs that share
\* the worker (benchmark_service.ts:730-767).
THEOREM ContainersAccounted == Spec => []NoContainerForgotten
<1>1. Inv => NoContainerForgotten
  BY DEF Inv, RunInv
<1> QED BY <1>1, InitInv, NextInv, PTL DEF Spec

\* Whatever is stored as submitted is with the repository and complete, for any number of
\* concurrent submissions and tags (benchmark_service.ts:108-158).
THEOREM SubmissionsAccepted == Spec => []RecordedIsAccepted
<1>1. Inv => RecordedIsAccepted
  BY DEF Inv, ResultInv
<1> QED BY <1>1, InitInv, NextInv, PTL DEF Spec

\* No step takes a submission back (benchmark_controller.ts:195-230).
THEOREM SubmissionsStay == Spec => RecordedStays
<1>1. ASSUME Next \/ UNCHANGED vars PROVE recorded \subseteq recorded'
  <2>1. CASE \E c \in Submission : Submit(c)
    BY <2>1 DEF Submit, LoadForSubmission, PostSubmission, SaveSubmission, resultVars
  <2>2. CASE \E c \in Tagging : Tag(c)
    BY <2>2 DEF Tag, LoadForTag, SaveTag, resultVars
  <2>3. CASE \E r \in Run : RunBenchmark(r) \/ Step(r)
    BY <2>3 DEF RunBenchmark, Step, TakeBenchmark, StartSysbench, EndSysbench, CheckAI, PullAI,
                Generate, SaveResult, NotRunning, resultVars
  <2>4. CASE Models \/ WorkerRestart \/ ServerRestart \/ UNCHANGED vars
    BY <2>4 DEF Models, BenchmarkUnchanged, WorkerRestart, ServerRestart, vars, resultVars
  <2> QED BY <1>1, <2>1, <2>2, <2>3, <2>4 DEF Next
<1> QED BY <1>1, PTL DEF Spec, RecordedStays
=============================================================================
