--------------------------- MODULE ModelDownloads ---------------------------
(***************************************************************************)
(* The language models of the AI assistant: the jobs that pull them into   *)
(* Ollama, one per model and retried until Ollama is there, their removal, *)
(* and Ollama coming and going.  A pull either installs a model or leaves  *)
(* nothing; its progress is not part of the model, nor is the list of      *)
(* models that could be pulled.                                            *)
(***************************************************************************)
EXTENDS Naturals, FiniteSets

CONSTANTS
    Model,        \* names of models
    MaxAttempts,  \* attempts of a job (40 in the code)
    MaxStalls,    \* bound: restarts of the worker
    MaxOutages,   \* bound: times Ollama goes away
    MaxRemovals   \* bound: models deleted

ASSUME ModelAssumption ==
    /\ IsFiniteSet(Model)
    /\ MaxAttempts \in Nat \ {0}
    /\ MaxStalls \in Nat /\ MaxOutages \in Nat /\ MaxRemovals \in Nat

VARIABLES
    ollama,     \* Ollama answers
    installed,  \* the models it has
    removed,    \* models that were there and were deleted
    job,        \* the download job of each model
    attempt,    \* attempts it has made
    stalled,    \* the models whose job has lost its worker once
    stalls, outages, removals

ollamaVars == <<ollama, installed, removed>>
jobVars == <<job, attempt, stalled>>
modelBounds == <<stalls, outages, removals>>
modelVars == <<ollamaVars, jobVars, modelBounds>>

Pending == {"waiting", "delayed", "listing", "pulling", "stalled"}
Active == {"listing", "pulling"}
Concurrency == 2

ModelTypeOK ==
    /\ ollama \in BOOLEAN
    /\ installed \subseteq Model /\ removed \subseteq Model
    /\ job \in [Model -> Pending \cup {"none", "completed", "failed"}]
    /\ attempt \in [Model -> 0 .. MaxAttempts]
    /\ stalled \subseteq Model
    /\ stalls \in 0 .. MaxStalls /\ outages \in 0 .. MaxOutages
    /\ removals \in 0 .. MaxRemovals

ModelInit ==
    /\ ollama = FALSE
    /\ installed = {} /\ removed = {}
    /\ job = [m \in Model |-> "none"]
    /\ attempt = [m \in Model |-> 0]
    /\ stalled = {}
    /\ stalls = 0 /\ outages = 0 /\ removals = 0

-----------------------------------------------------------------------------
(* Ollama *)

OllamaUp ==
    /\ ~ollama
    /\ ollama' = TRUE
    /\ UNCHANGED <<installed, removed, jobVars, modelBounds>>

\* Stopped, or reinstalled by force, which clears its volume.
OllamaDown ==
    /\ ollama
    /\ outages < MaxOutages
    /\ outages' = outages + 1
    /\ ollama' = FALSE
    /\ \/ UNCHANGED <<installed, removed>>
       \/ installed' = {} /\ removed' = removed \cup installed
    /\ UNCHANGED <<jobVars, stalls, removals>>

DeleteModel(m) ==
    /\ ollama
    /\ m \in installed
    /\ removals < MaxRemovals
    /\ removals' = removals + 1
    /\ installed' = installed \ {m}
    /\ removed' = removed \cup {m}
    /\ UNCHANGED <<ollama, jobVars, stalls, outages>>

-----------------------------------------------------------------------------
(* The jobs *)

\* A job that is there under the model's id, in whatever state, is left as it is.
DispatchModelDownload(m) ==
    /\ job[m] = "none"
    /\ job' = [job EXCEPT ![m] = "waiting"]
    /\ UNCHANGED <<ollamaVars, attempt, stalled, modelBounds>>

TakeModelJob(m) ==
    /\ job[m] \in {"waiting", "stalled"}
    /\ Cardinality({n \in Model : job[n] \in Active}) < Concurrency
    /\ job' = [job EXCEPT ![m] = "listing"]
    /\ UNCHANGED <<ollamaVars, attempt, stalled, modelBounds>>

\* The attempt failed; the job is tried again a minute later while attempts are left.
Again(m) ==
    /\ attempt' = [attempt EXCEPT ![m] = @ + 1]
    /\ job' = [job EXCEPT ![m] = IF attempt[m] + 1 < MaxAttempts THEN "delayed" ELSE "failed"]

\* A model that is there is not pulled.
ListModels(m) ==
    /\ job[m] = "listing"
    /\ IF ~ollama THEN Again(m)
       ELSE /\ job' = [job EXCEPT ![m] = IF m \in installed THEN "completed" ELSE "pulling"]
            /\ UNCHANGED attempt
    /\ UNCHANGED <<ollamaVars, stalled, modelBounds>>

\* Mutation: the result of downloadModel is not looked at.
PullModelUnchecked(m) ==
    /\ job[m] = "pulling"
    /\ job' = [job EXCEPT ![m] = "completed"]
    /\ \/ ollama /\ installed' = installed \cup {m} /\ removed' = removed \ {m}
       \/ UNCHANGED <<installed, removed>>
    /\ UNCHANGED <<ollama, attempt, stalled, modelBounds>>

PullModel(m) ==
    /\ job[m] = "pulling"
    /\ \/ /\ ollama
          /\ installed' = installed \cup {m}
          /\ removed' = removed \ {m}
          /\ job' = [job EXCEPT ![m] = "completed"]
          /\ UNCHANGED attempt
       \/ Again(m) /\ UNCHANGED <<installed, removed>>
    /\ UNCHANGED <<ollama, stalled, modelBounds>>

\* Mutation: the delay never ends.
BackoffElapsesNot(m) ==
    /\ job[m] = "delayed"
    /\ UNCHANGED modelVars

BackoffElapses(m) ==
    /\ job[m] = "delayed"
    /\ job' = [job EXCEPT ![m] = "waiting"]
    /\ UNCHANGED <<ollamaVars, attempt, stalled, modelBounds>>

ModelWorker(m) ==
    TakeModelJob(m) \/ ListModels(m) \/ PullModel(m) \/ BackoffElapses(m)

\* BullMQ gives a job whose worker died to the next one, a single time.
StallModelJobs ==
    /\ job' = [m \in Model |-> IF job[m] \notin Active THEN job[m]
                               ELSE IF m \in stalled THEN "failed" ELSE "stalled"]
    /\ stalled' = stalled \cup {m \in Model : job[m] \in Active}

-----------------------------------------------------------------------------
(* Properties *)

\* A completed job has left its model in Ollama, unless it was removed since, however
\* often Ollama went away or the worker died meanwhile (download_model_job.ts:65-70).
CompletedIsInstalled ==
    \A m \in Model : job[m] = "completed" => m \in installed \cup removed

\* A job does not wait for ever, with or without Ollama (download_model_job.ts:92-95).
ModelJobsEnd == \A m \in Model : job[m] \in Pending ~> job[m] \in {"completed", "failed"}

=============================================================================
