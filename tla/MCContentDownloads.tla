------------------------- MODULE MCContentDownloads -------------------------
(* Instances of ContentDownloads for TLC. *)
EXTENDS ContentDownloads

CONSTANTS a1, a2, b1, w1, w2, ra, rb, rw1, rw2

\* a1 and a2 are two versions of one resource; every other file has its own.
Resources(f) == CASE f \in {a1, a2} -> ra [] f = b1 -> rb [] f = w1 -> rw1 [] f = w2 -> rw2
MCResourceOf == [u \in Url |-> Resources(u)]
MCResource == {Resources(u) : u \in Url}
MCTiers == {Named \ WikiUrl}

\* What the selection depends on where no file has a row and no server starts: nothing
\* that happens to a job or to the selection then reads the directory or a row.
JobsAndSelection == <<jobVars, selVars>>
=============================================================================
