-------------------------- MODULE EmbeddingStore ---------------------------
(***************************************************************************)
(* What EmbedPipeline promises to whoever gives it a file and looks the    *)
(* file up afterwards: the file is embedded run by run, a run stores each  *)
(* section at most once and only what is still owed, an end is told before *)
(* it is one, nothing is left out of a whole file, and only a run that was *)
(* broken off or failed leaves copies behind.  The queue, its workers,     *)
(* batches and attempts, the disk and the sync are not part of it.         *)
(***************************************************************************)
EXTENDS Naturals

CONSTANTS
    File,       \* the files that may be given
    Content,    \* the sections of each
    Whole,      \* the files no part of which is left out
    MaxBreaks   \* broken runs after which a file may be given up untold

VARIABLES
    embedding,  \* of each file: its phase, what the run owes, what is told, the broken runs
    copies      \* how many copies of each section the store holds

storeVars == <<embedding, copies>>

NotGiven(f) == [phase |-> "none", owed |-> Content[f], told |-> "none", breaks |-> 0]

StoreInit ==
    /\ embedding = [f \in File |-> NotGiven(f)]
    /\ copies = [f \in File |-> [x \in Content[f] |-> 0]]

Underway(f) == embedding[f].phase = "pending"

\* A file is taken once: until it is released, asking again changes nothing.
Ask(F) ==
    /\ \A f \in F : embedding[f].phase = "none"
    /\ embedding' = [f \in File |-> IF f \in F THEN [embedding[f] EXCEPT !.phase = "pending"]
                                               ELSE embedding[f]]
    /\ UNCHANGED copies

Begin(f) ==
    /\ Underway(f) /\ embedding[f].owed = Content[f]
    /\ embedding' = [embedding EXCEPT ![f].told = "busy"]
    /\ UNCHANGED copies

Keep(f, x) ==
    /\ Underway(f) /\ embedding[f].told = "busy" /\ x \in embedding[f].owed
    /\ embedding' = [embedding EXCEPT ![f].owed = @ \ {x}]
    /\ copies' = [copies EXCEPT ![f][x] = @ + 1]

LeaveOut(f, rest) ==
    /\ f \notin Whole
    /\ Underway(f) /\ embedding[f].told = "busy" /\ rest \subseteq embedding[f].owed
    /\ embedding' = [embedding EXCEPT ![f].owed = rest]
    /\ UNCHANGED copies

TellDone(f) ==
    /\ Underway(f) /\ embedding[f].told = "busy" /\ embedding[f].owed = {}
    /\ embedding' = [embedding EXCEPT ![f].told = "done"]
    /\ UNCHANGED copies

Finish(f) ==
    /\ Underway(f) /\ embedding[f].told = "done" /\ embedding[f].owed = {}
    /\ embedding' = [embedding EXCEPT ![f].phase = "completed"]
    /\ UNCHANGED copies

\* A run fails before it has told of its end, whatever it has stored ...
Fail(f) ==
    /\ Underway(f)
    /\ embedding[f].told = "done" => embedding[f].owed = Content[f]
    /\ embedding' = [embedding EXCEPT ![f].phase = "failing", ![f].owed = Content[f]]
    /\ UNCHANGED copies

\* ... and when that is told it is repeated, or was the last.
TellFailure(f) ==
    /\ embedding[f].phase = "failing"
    /\ \E p \in {"pending", "failed"} :
         embedding' = [embedding EXCEPT ![f].phase = p, ![f].told = "failed"]
    /\ UNCHANGED copies

\* Runs are broken off, whatever they had stored ...
Break(F) ==
    /\ \A f \in F : embedding[f].phase \in {"pending", "failing"}
    /\ embedding' = [f \in File |-> IF f \in F
                                    THEN [embedding[f] EXCEPT !.phase = "broken", !.owed = Content[f]]
                                    ELSE embedding[f]]
    /\ UNCHANGED copies

\* ... and begin again, or are given up after too many breaks.
Recover(f) ==
    /\ embedding[f].phase = "broken"
    /\ \E p \in {"pending"} \cup (IF embedding[f].breaks < MaxBreaks THEN {} ELSE {"failed"}) :
         embedding' = [embedding EXCEPT ![f].phase = p, ![f].breaks = @ + 1]
    /\ UNCHANGED copies

\* What is stored of a file is deleted.
Forget(f) ==
    /\ copies' = [copies EXCEPT ![f] = [x \in Content[f] |-> 0]]
    /\ UNCHANGED embedding

\* A settled file is let go, and may be given again as if it were new.
Release(f) ==
    /\ embedding[f].phase \in {"completed", "failed"}
    /\ embedding' = [embedding EXCEPT ![f] = NotGiven(f)]
    /\ UNCHANGED copies

StoreNext ==
    \/ \E F \in SUBSET File : Ask(F) \/ Break(F)
    \/ \E f \in File :
         \/ Begin(f) \/ TellDone(f) \/ Finish(f) \/ Fail(f) \/ TellFailure(f)
         \/ Recover(f) \/ Forget(f) \/ Release(f)
         \/ \E x \in Content[f] : Keep(f, x)
         \/ \E rest \in SUBSET Content[f] : LeaveOut(f, rest)

StoreSpec == StoreInit /\ [][StoreNext]_storeVars

-----------------------------------------------------------------------------
(* Properties *)

Settled(f) == embedding[f].phase \in {"completed", "failed"}

Untouched(f) ==
    /\ embedding'[f] = embedding[f]
    /\ copies'[f] = copies[f] \/ copies'[f] = [x \in Content[f] |-> 0]

LetGo(f) == embedding'[f] = NotGiven(f)

\* What is settled stays settled until it is released: a file that is given again, after
\* a failure or after its sections were deleted, is not embedded again, nor told about,
\* and of its sections only deletion changes the copies (embed_file_job.ts:195-227).
SettledStays == [][\A f \in File : Settled(f) => Untouched(f) \/ LetGo(f)]_storeVars
=============================================================================
