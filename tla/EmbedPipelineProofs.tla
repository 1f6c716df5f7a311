------------------------ MODULE EmbedPipelineProofs ------------------------
(***************************************************************************)
(* What holds of EmbedPipeline for every set of files with any articles,   *)
(* every batch size, concurrency and number of attempts and stalls.  The   *)
(* invariant is about one file at a time, its job j, its points p, its     *)
(* place on disk d and how often it was given up to be stored again, n: a  *)
(* step moves one file, or does the same to each.                          *)
(***************************************************************************)
EXTENDS EmbedPipeline, TLAPS

Places == {"absent", "there", "deleted"}

Typed(f, j, p, d) ==
    /\ j \in Job(f) /\ p \in [Section(f) -> Nat] /\ d \in Places
    /\ j.state = "active" <=> j.at # "idle"
    /\ j.state # "failed" => j.attempts < MaxAttempts
    /\ j.at # "embed" => j.todo = {}

\* Whatever may yet be stored, by this run or one to come, has no copy too many.
Copies(f, j, p, n) ==
    \A x \in Section(f) :
      /\ p[x] <= 1 + n
      /\ \/ j.state \in {"none", "waiting", "delayed", "failed"}
         \/ j.at \in {"check", "extract", "fail", "give up"}
         \/ x \in j.todo
         => p[x] <= n

\* What a run has dealt with is stored, and an upload that fails to be has failed.
Stored(f, j, p, d) ==
    f \in Upload =>
      /\ d = "absent" => j.state = "none"
      /\ j.at = "embed" => ~j.more
      /\ j.at # "next"
      /\ (j.at \in {"embed", "report"} \/ j.state = "completed") /\ d = "there"
         => \A x \in Section(f) : p[x] > 0 \/ x \in j.todo

\* The status is written before the job leaves the worker, and when a run begins.
Truthful(j) ==
    /\ j.state = "none" => j.status = "none" /\ j.stalls = 0
    /\ j.at \in {"extract", "embed", "next"} => j.status = "processing"
    /\ j.state = "completed" \/ j.at = "report"
         => j.status \in {"batch_completed", "completed"}
    /\ j.state = "failed" => j.status = "failed" \/ j.stalls > MaxStalled

Fits(f, j, p, d, n) ==
    Typed(f, j, p, d) /\ Copies(f, j, p, n) /\ Stored(f, j, p, d) /\ Truthful(j)

Shape == /\ DOMAIN job = File /\ DOMAIN points = File
         /\ disk \in [File -> Places] /\ again \in [File -> Nat]

\* The sync knows files that are or were there.
SyncOK == /\ sync \in [at : {"idle", "list", "compare", "queue"}, files : SUBSET File]
          /\ \A f \in sync.files : disk[f] # "absent"
          /\ discovered \in BOOLEAN

\* The inductive invariant.
EmbedInv == Shape /\ SyncOK /\ \A f \in File : Fits(f, job[f], points[f], disk[f], again[f])

-----------------------------------------------------------------------------
LEMMA Disjoint ==
    /\ \A f \in Upload : f \notin Zim /\ f \notin Doc
    /\ \A f \in File : f \notin Zim => \A x, y \in Section(f) : x = y
BY FileAssumption DEF File

\* A job just added, whatever became of the file meanwhile.
New(j) == j = [NoJob EXCEPT !.state = "waiting", !.offset = 0]

LEMMA NewJob ==
    ASSUME NEW j, New(j), NEW f \in File
    PROVE  /\ j \in Job(f) /\ j.state = "waiting" /\ j.at = "idle" /\ j.todo = {}
           /\ j.attempts = 0 /\ j.stalls = 0
<1>1. j = [state |-> "waiting", at |-> "idle", offset |-> 0, todo |-> {}, more |-> FALSE,
           attempts |-> 0, stalls |-> 0, status |-> "none"]
  BY DEF New, NoJob
<1>2. 0 \in 0 .. MaxAttempts
  BY BoundAssumption
<1> QED BY <1>1, <1>2 DEF Job, Pending, WorkerPoints, Statuses

LEMMA NewFits ==
    ASSUME NEW f \in File, NEW j, NEW p, NEW d, NEW m \in Nat, Fits(f, j, p, d, m),
           j.state = "none", NEW k, New(k), NEW e \in Places, f \in Upload => e # "absent"
    PROVE  Fits(f, k, p, e, m)
<1>1. /\ k \in Job(f) /\ k.state = "waiting" /\ k.at = "idle" /\ k.todo = {}
      /\ k.attempts = 0 /\ k.stalls = 0
  BY NewJob
<1>2. Typed(f, k, p, e)
  BY <1>1, BoundAssumption DEF Fits, Typed
<1>3. Copies(f, k, p, m)
  BY <1>1 DEF Fits, Copies
<1>4. Stored(f, k, p, e) /\ Truthful(k)
  BY <1>1 DEF Stored, Truthful
<1> QED BY <1>2, <1>3, <1>4 DEF Fits
-----------------------------------------------------------------------------
(* The worker *)

\* A step of one job keeps to the file it is about.
Apart(f) == \A g \in File : g # f => /\ job'[g] = job[g] /\ points'[g] = points[g]
                                     /\ disk'[g] = disk[g] /\ again'[g] = again[g]

\* What happens to one job, of the worker's doing or not.
Step(f) == Work(f) \/ FailLate(f) \/ Evict(f)

LEMMA NoJobTyped ==
    ASSUME NEW f \in File
    PROVE  /\ NoJob \in Job(f) /\ NoJob.state = "none" /\ NoJob.at = "idle"
           /\ NoJob.todo = {} /\ NoJob.attempts < MaxAttempts
<1>1. 0 \in 0 .. MaxAttempts /\ 0 < MaxAttempts
  BY BoundAssumption
<1>2. NoJob \in Job(f)
  BY <1>1 DEF NoJob, Job, WorkerPoints, Statuses
<1> QED BY <1>1, <1>2 DEF NoJob

LEMMA FewCopies ==
    ASSUME NEW f \in File, NEW j, NEW p, NEW n \in Nat,
           \A x \in Section(f) : p[x] \in Nat /\ p[x] <= n
    PROVE  Copies(f, j, p, n)
<1> SUFFICES ASSUME NEW x \in Section(f)
             PROVE  p[x] <= 1 + n /\ p[x] <= n
  BY DEF Copies
<1> QED OBVIOUS

LEMMA WorkFits ==
    ASSUME Shape, NEW f \in File, Fits(f, job[f], points[f], disk[f], again[f]), Step(f)
    PROVE  Fits(f, job'[f], points'[f], disk'[f], again'[f])
<1> DEFINE j == job[f]
           k == job'[f]
           p == points[f]
           q == points'[f]
           d == disk[f]
           e == disk'[f]
           m == again[f]
           h == again'[f]
<1>1. Typed(f, j, p, d) /\ Copies(f, j, p, m) /\ Stored(f, j, p, d) /\ Truthful(j)
  BY DEF Fits
<1>2. /\ j.attempts \in Nat /\ j.stalls \in Nat /\ m \in Nat
      /\ \A x \in Section(f) : p[x] \in Nat
  BY <1>1 DEF Typed, Job, Shape
<1>3. CASE StartJob(f)
  <2>1. k = [j EXCEPT !.state = "active", !.at = "check"] /\ q = p /\ e = d /\ h = m
    BY <1>3 DEF Shape, StartJob
  <2>2. j.state = "waiting"
    BY <1>1, <1>3 DEF StartJob, Typed
  <2>3. k \in Job(f)
    BY <1>1, <1>2, <2>1, <2>2 DEF Typed, Job, Pending, Settled, WorkerPoints, Statuses
  <2>4. Typed(f, k, p, d) /\ Copies(f, k, p, m) /\ Stored(f, k, p, d) /\ Truthful(k)
    BY <1>1, <1>2, <2>1, <2>2, <2>3 DEF Typed, Copies, Stored, Truthful, Job
  <2> QED BY <2>1, <2>4 DEF Fits
<1>4. CASE CheckServices(f)
  <2>1. /\ \/ k = [j EXCEPT !.at = "extract", !.status = "processing"]
           \/ k = [j EXCEPT !.at = "give up"] \/ k = [j EXCEPT !.at = "fail"]
        /\ q = p /\ e = d /\ h = m
    BY <1>4 DEF Shape, CheckServices
  <2>2. j.at = "check"
    BY <1>1, <1>4 DEF CheckServices, Typed
  <2>3. k \in Job(f)
    BY <1>1, <1>2, <2>1, <2>2, ZenonT(40) DEF Typed, Job, Pending, Settled, WorkerPoints, Statuses
  <2>4. Typed(f, k, p, d) /\ Copies(f, k, p, m) /\ Stored(f, k, p, d) /\ Truthful(k)
    BY <1>1, <1>2, <2>1, <2>2, <2>3, ZenonT(40) DEF Typed, Copies, Stored, Truthful, Job
  <2> QED BY <2>1, <2>4 DEF Fits
<1>5. CASE Extract(f)
  <2> DEFINE todo == IF f \in Zim THEN Batch(f, j.offset, BatchSize) ELSE Section(f)
             more == f \in Zim /\ Cardinality(todo) = BatchSize
  <2>1. /\ \/ k = [j EXCEPT !.at = "embed", !.todo = todo, !.more = more]
           \/ k = [j EXCEPT !.at = "fail"]
        /\ q = p /\ e = d /\ h = m
    BY <1>5 DEF Shape, Extract
  <2>2. j.at = "extract"
    BY <1>5 DEF Extract
  <2>3. /\ todo \in SUBSET Section(f) /\ more \in BOOLEAN
        /\ f \in Upload => todo = Section(f) /\ ~more
    BY Disjoint DEF Batch, Section, Sections
  <2> HIDE DEF todo, more
  <2>4. k \in Job(f)
    BY <1>1, <2>1, <2>2, <2>3 DEF Typed, Job, WorkerPoints
  <2>5. Typed(f, k, p, d) /\ Truthful(k)
    BY <1>1, <2>1, <2>2, <2>4 DEF Typed, Truthful, Job
  <2>6. Copies(f, k, p, m)
    BY <1>1, <1>2, <2>1, <2>2, <2>4 DEF Typed, Copies, Job
  <2>7. Stored(f, k, p, d)
    BY <1>1, <2>1, <2>2, <2>3 DEF Typed, Stored, Job
  <2> QED BY <2>1, <2>5, <2>6, <2>7 DEF Fits
<1>6. CASE EmbedSection(f)
  <2>1. j.at = "embed"
    BY <1>6 DEF EmbedSection
  <2>2. PICK x \in j.todo :
          /\ e = d /\ h = m
          /\ \/ k = [j EXCEPT !.todo = @ \ {x}] /\ q = [p EXCEPT ![x] = @ + 1]
             \/ f \in Zim /\ k = [j EXCEPT !.todo = @ \ {x}] /\ q = p
             \/ f \notin Zim /\ k = [j EXCEPT !.at = "fail", !.todo = {}] /\ q = p
    BY <1>6 DEF Shape, EmbedSection
  <2>3. j.todo \subseteq Section(f) /\ x \in Section(f)
    BY <1>1, <2>2 DEF Typed, Job
  <2>4. k \in Job(f) /\ q \in [Section(f) -> Nat]
    <3>1. q \in [Section(f) -> Nat]
      BY <1>1, <2>2, <2>3 DEF Typed
    <3>2. k \in Job(f)
      BY <1>1, <2>2, <2>3, ZenonT(40) DEF Typed, Job, WorkerPoints
    <3> QED BY <3>1, <3>2
  <2>5. /\ j.state = "active" /\ k.state = "active" /\ k.stalls = j.stalls /\ k.more = j.more
        /\ k.attempts = j.attempts /\ k.status = j.status
    BY <1>1, <2>1, <2>2 DEF Typed, Job
  <2>6. \/ k.at = "embed" /\ k.todo = j.todo \ {x} /\ q = [p EXCEPT ![x] = @ + 1]
        \/ f \in Zim /\ k.at = "embed" /\ k.todo = j.todo \ {x} /\ q = p
        \/ f \notin Zim /\ k.at = "fail" /\ k.todo = {} /\ q = p
    BY <1>1, <2>1, <2>2 DEF Typed, Job
  <2>7. \A y \in Section(f) : q[y] = IF y = x /\ q # p THEN p[y] + 1 ELSE p[y]
    BY <1>1, <1>2, <2>3, <2>6 DEF Typed
  <2>8. Typed(f, k, q, e) /\ Truthful(k)
    BY <1>1, <2>1, <2>2, <2>4, <2>5, <2>6 DEF Typed, Truthful
  <2>9. Copies(f, k, q, m)
    <3>1. CASE q = p
      BY <1>1, <1>2, <2>1, <2>3, <2>5, <2>6, <3>1, Disjoint DEF Copies
    <3>2. CASE q # p
      <4>1. k.at = "embed" /\ k.todo = j.todo \ {x}
        BY <2>6, <3>2
      <4>2. ASSUME NEW y \in Section(f)
            PROVE  q[y] <= 1 + m /\ (y \in k.todo => q[y] <= m)
        <5>1. p[y] <= 1 + m /\ (y \in j.todo => p[y] <= m) /\ p[y] \in Nat
          BY <1>1, <1>2 DEF Copies
        <5>2. q[y] = IF y = x THEN p[y] + 1 ELSE p[y]
          BY <2>7, <3>2
        <5> QED BY <1>2, <4>1, <5>1, <5>2
      <4> QED BY <2>5, <4>1, <4>2 DEF Copies
    <3> QED BY <3>1, <3>2
  <2>10. Stored(f, k, q, e)
    <3> SUFFICES ASSUME f \in Upload
                 PROVE  Stored(f, k, q, e)
      BY DEF Stored
    <3>1. f \notin Zim /\ f \in File
      BY Disjoint
    <3>2. CASE k.at = "fail"
      BY <1>1, <2>2, <2>5, <3>2 DEF Stored
    <3>3. CASE k.at = "embed" /\ q # p
      <4>1. \A y \in Section(f) : y = x /\ q[y] = p[y] + 1
        BY <2>3, <2>7, <3>1, <3>3, Disjoint
      <4>2. \A y \in Section(f) : q[y] > 0
        BY <1>2, <4>1
      <4>3. e # "absent" /\ ~k.more
        BY <1>1, <2>1, <2>2, <2>5 DEF Stored
      <4> QED BY <3>3, <4>2, <4>3 DEF Stored
    <3>4. ASSUME q = [p EXCEPT ![x] = @ + 1]
          PROVE  q # p
      <4>1. q[x] = p[x] + 1
        BY <1>1, <2>3, <3>4 DEF Typed
      <4> QED BY <1>2, <2>3, <4>1
    <3> QED BY <2>6, <3>1, <3>2, <3>3, <3>4
  <2> QED BY <2>2, <2>8, <2>9, <2>10 DEF Fits
<1>7. CASE DispatchNext(f)
  <2>1. j.at = "embed" /\ j.todo = {} /\ j.more /\ j.state = "active"
    BY <1>1, <1>7 DEF DispatchNext, Typed
  <2>2. k = [j EXCEPT !.at = "next"] /\ q = p /\ e = d /\ h = m
    BY <1>7, <2>1 DEF Shape, DispatchNext, Dispatch
  <2>3. k \in Job(f)
    BY <1>1, <2>1, <2>2 DEF Typed, Job, WorkerPoints
  <2>4. Typed(f, k, p, d) /\ Copies(f, k, p, m) /\ Stored(f, k, p, d) /\ Truthful(k)
    BY <1>1, <1>2, <2>1, <2>2, <2>3 DEF Typed, Copies, Stored, Truthful, Job
  <2> QED BY <2>2, <2>4 DEF Fits
<1>8. CASE Report(f)
  <2>1. /\ \/ j.at = "embed" /\ k = [j EXCEPT !.at = "report", !.status = "completed"]
           \/ j.at = "next" /\ k = [j EXCEPT !.at = "report", !.status = "batch_completed"]
        /\ q = p /\ e = d /\ h = m
    BY <1>8 DEF Shape, Report
  <2>2. j.todo = {} /\ j.state = "active"
    BY <1>1, <1>8 DEF Report, Typed
  <2>3. k \in Job(f)
    BY <1>1, <1>2, <2>1, <2>2, ZenonT(40) DEF Typed, Job, Pending, Settled, WorkerPoints, Statuses
  <2>4. Typed(f, k, p, d) /\ Copies(f, k, p, m) /\ Stored(f, k, p, d) /\ Truthful(k)
    BY <1>1, <1>2, <2>1, <2>2, <2>3, ZenonT(40) DEF Typed, Copies, Stored, Truthful, Job
  <2> QED BY <2>1, <2>4 DEF Fits
<1>9. CASE Complete(f)
  <2>1. k = [j EXCEPT !.state = "completed", !.at = "idle"] /\ q = p /\ e = d /\ h = m
    BY <1>9 DEF Shape, Complete
  <2>2. j.at = "report"
    BY <1>1, <1>9 DEF Complete, Typed
  <2>3. k \in Job(f)
    BY <1>1, <1>2, <2>1, <2>2 DEF Typed, Job, Pending, Settled, WorkerPoints, Statuses
  <2>4. Typed(f, k, p, d) /\ Copies(f, k, p, m) /\ Stored(f, k, p, d) /\ Truthful(k)
    BY <1>1, <1>2, <2>1, <2>2, <2>3 DEF Typed, Copies, Stored, Truthful, Job
  <2> QED BY <2>1, <2>4 DEF Fits
<1>10. CASE FailAttempt(f)
  <2> DEFINE st == IF j.at = "fail" /\ j.attempts + 1 < MaxAttempts THEN "delayed" ELSE "failed"
             n == j.attempts + 1
  <2>1. /\ k = [j EXCEPT !.state = st, !.at = "idle", !.attempts = n, !.status = "failed"]
        /\ q = p /\ e = d /\ h = m
    BY <1>10 DEF Shape, FailAttempt
  <2>2. j.at \in {"fail", "give up"} /\ j.state = "active"
    BY <1>1, <1>10 DEF FailAttempt, Typed
  <2>3. /\ st \in {"delayed", "failed"} /\ n \in 0 .. MaxAttempts
        /\ st # "failed" => n < MaxAttempts
    <3>1. j.attempts < MaxAttempts
      BY <1>1, <2>2 DEF Typed
    <3>2. MaxAttempts \in Nat
      BY BoundAssumption
    <3>3. n \in 0 .. MaxAttempts
      BY <1>2, <3>1, <3>2
    <3>4. st \in {"delayed", "failed"} /\ (st # "failed" => n < MaxAttempts)
      OBVIOUS
    <3> QED BY <3>3, <3>4
  <2> HIDE DEF st, n
  <2>4. k \in Job(f)
    BY <1>1, <2>1, <2>3 DEF Typed, Job, Pending, Settled, WorkerPoints, Statuses
  <2>5. Typed(f, k, p, d) /\ Copies(f, k, p, m) /\ Stored(f, k, p, d) /\ Truthful(k)
    BY <1>1, <1>2, <2>1, <2>2, <2>3, <2>4 DEF Typed, Copies, Stored, Truthful, Job
  <2> QED BY <2>1, <2>5 DEF Fits
<1>11. CASE RetryDue(f)
  <2>1. k = [j EXCEPT !.state = "waiting"] /\ q = p /\ e = d /\ h = m
    BY <1>11 DEF Shape, RetryDue
  <2>2. j.state = "delayed"
    BY <1>1, <1>11 DEF RetryDue, Typed
  <2>3. k \in Job(f)
    BY <1>1, <1>2, <2>1, <2>2 DEF Typed, Job, Pending, Settled, WorkerPoints, Statuses
  <2>4. Typed(f, k, p, d) /\ Copies(f, k, p, m) /\ Stored(f, k, p, d) /\ Truthful(k)
    BY <1>1, <1>2, <2>1, <2>2, <2>3 DEF Typed, Copies, Stored, Truthful, Job
  <2> QED BY <2>1, <2>4 DEF Fits
<1>12. CASE RecoverStalled(f)
  <2>1. /\ k = [j EXCEPT !.state = IF j.stalls < MaxStalled THEN "waiting" ELSE "failed",
                        !.at = "idle", !.stalls = @ + 1]
        /\ q = p /\ e = d /\ h = m + 1
    BY <1>12 DEF Shape, RecoverStalled
  <2>2. j.at = "orphaned" /\ j.state = "active" /\ j.stalls + 1 \in Nat
    BY <1>1, <1>12 DEF RecoverStalled, Typed, Job
  <2>3. k \in Job(f)
    BY <1>1, <1>2, <2>1, <2>2 DEF Typed, Job, Pending, Settled, WorkerPoints, Statuses
  <2>4. Typed(f, k, p, d) /\ Stored(f, k, p, d) /\ Truthful(k)
    BY <1>1, <1>2, <2>1, <2>2, <2>3, BoundAssumption DEF Typed, Stored, Truthful, Job
  <2>5. Copies(f, k, p, h)
    <3>1. \A x \in Section(f) : p[x] \in Nat /\ p[x] <= 1 + m
      BY <1>1, <1>2 DEF Copies
    <3>2. h \in Nat /\ h = 1 + m
      BY <1>2, <2>1
    <3> HIDE DEF h, p, k, m
    <3> QED BY <3>1, <3>2, FewCopies
  <2> QED BY <2>1, <2>4, <2>5 DEF Fits
<1>13. CASE FailLate(f)
  <2>1. /\ k = [j EXCEPT !.at = "fail", !.todo = {}, !.more = FALSE]
        /\ q = p /\ e = d
        /\ h = IF j.at = "extract" THEN m ELSE m + 1
    BY <1>13 DEF Shape, FailLate
  <2>2. j.at \in {"extract", "embed", "next"} /\ j.state = "active"
    BY <1>1, <1>13 DEF FailLate, Typed
  <2>3. k \in Job(f)
    BY <1>1, <2>1 DEF Typed, Job, WorkerPoints
  <2>4. Typed(f, k, p, d) /\ Stored(f, k, p, d) /\ Truthful(k)
    BY <1>1, <2>1, <2>2, <2>3 DEF Typed, Stored, Truthful, Job
  <2>5. Copies(f, k, p, h)
    <3>1. \A x \in Section(f) :
             p[x] \in Nat /\ p[x] <= 1 + m /\ (j.at = "extract" => p[x] <= m)
      BY <1>1, <1>2 DEF Copies
    <3>2. h \in Nat /\ h = IF j.at = "extract" THEN m ELSE 1 + m
      BY <1>2, <2>1
    <3> HIDE DEF h, p, k, m, j
    <3>3. \A x \in Section(f) : p[x] \in Nat /\ p[x] <= h
      BY <3>1, <3>2
    <3> QED BY <3>2, <3>3, FewCopies
  <2> QED BY <2>1, <2>4, <2>5 DEF Fits
<1>14. CASE Evict(f)
  <2>1. /\ k = NoJob /\ q = p /\ e = d
        /\ h = IF j.state = "completed" THEN m + 1 ELSE m
    BY <1>14 DEF Shape, Evict
  <2>2. j.state \in {"completed", "failed"}
    BY <1>14 DEF Evict, Settled
  <2>3. k \in Job(f) /\ Typed(f, k, p, d)
    BY <1>1, <2>1, NoJobTyped DEF Typed
  <2>4. Stored(f, k, p, d) /\ Truthful(k)
    BY <2>1 DEF NoJob, Stored, Truthful
  <2>5. Copies(f, k, p, h)
    <3>1. \A x \in Section(f) :
             p[x] \in Nat /\ p[x] <= 1 + m /\ (j.state = "failed" => p[x] <= m)
      BY <1>1, <1>2 DEF Copies
    <3>2. h \in Nat /\ h = IF j.state = "completed" THEN 1 + m ELSE m
      BY <1>2, <2>1
    <3> HIDE DEF h, p, k, m, j
    <3>3. \A x \in Section(f) : p[x] \in Nat /\ p[x] <= h
      BY <2>2, <3>1, <3>2
    <3> QED BY <3>2, <3>3, FewCopies
  <2> QED BY <2>1, <2>3, <2>4, <2>5 DEF Fits
<1> QED
  BY <1>3, <1>4, <1>5, <1>6, <1>7, <1>8, <1>9, <1>10, <1>11, <1>12, <1>13, <1>14
  DEF Step, Work

LEMMA WorkApart ==
    ASSUME Shape, SyncOK, NEW f \in File, Step(f)
    PROVE  Shape' /\ SyncOK' /\ Apart(f)
<1> USE DEF Step
<1>1. disk' = disk /\ sync' = sync /\ discovered' = discovered
  BY DEF Work, StartJob, CheckServices, Extract, EmbedSection, DispatchNext, Report, Complete,
         FailAttempt, RetryDue, RecoverStalled, FailLate, Evict
<1>2. DOMAIN points' = File /\ \A g \in File : g # f => points'[g] = points[g]
  BY DEF Shape, Work, StartJob, CheckServices, Extract, EmbedSection, DispatchNext, Report,
         Complete, FailAttempt, RetryDue, RecoverStalled, FailLate, Evict
<1>3. DOMAIN job' = File /\ \A g \in File : g # f => job'[g] = job[g]
  <2>1. CASE StartJob(f) \/ CheckServices(f) \/ Extract(f) \/ EmbedSection(f)
    BY <2>1 DEF Shape, StartJob, CheckServices, Extract, EmbedSection
  <2>2. CASE DispatchNext(f)
    BY <2>2 DEF Shape, DispatchNext, Dispatch
  <2>3. CASE Report(f) \/ Complete(f) \/ FailAttempt(f) \/ RetryDue(f) \/ RecoverStalled(f)
    BY <2>3 DEF Shape, Report, Complete, FailAttempt, RetryDue, RecoverStalled
  <2>4. CASE FailLate(f) \/ Evict(f)
    BY <2>4 DEF Shape, FailLate, Evict
  <2> QED BY <2>1, <2>2, <2>3, <2>4 DEF Work
<1>4. again' \in [File -> Nat] /\ \A g \in File : g # f => again'[g] = again[g]
  <2>1. CASE again' = again
    BY <2>1 DEF Shape
  <2>2. CASE again' = [again EXCEPT ![f] = @ + 1]
    BY <2>2 DEF Shape
  <2>3. again' = again \/ again' = [again EXCEPT ![f] = @ + 1]
    BY DEF Work, StartJob, CheckServices, Extract, EmbedSection, DispatchNext, Report, Complete,
           FailAttempt, RetryDue, RecoverStalled, FailLate, Evict
  <2> QED BY <2>1, <2>2, <2>3
<1> QED BY <1>1, <1>2, <1>3, <1>4 DEF Shape, SyncOK, Apart

-----------------------------------------------------------------------------
(* The requests *)

\* A file that goes, or is no upload, may be anywhere as far as its job is concerned.
LEMMA MovedFits ==
    ASSUME NEW f \in File, NEW j, NEW p, NEW d, NEW m, Fits(f, j, p, d, m),
           NEW e \in Places, e \in {d, "deleted"} \/ f \notin Upload
    PROVE  Fits(f, j, p, e, m)
BY DEF Fits, Typed, Stored

LEMMA ClearedFits ==
    ASSUME NEW f \in File, NEW j, NEW p, NEW d, NEW m \in Nat, Fits(f, j, p, d, m),
           NEW q \in [Section(f) -> Nat], \A x \in Section(f) : q[x] = 0,
           NEW e \in Places, e = "deleted" \/ f \notin Upload
    PROVE  Fits(f, j, q, e, m)
<1>2. Typed(f, j, q, e) /\ Stored(f, j, q, e) /\ Truthful(j)
  BY DEF Fits, Typed, Stored
<1>3. Copies(f, j, q, m)
  <2> SUFFICES ASSUME NEW x \in Section(f)
               PROVE  q[x] <= 1 + m /\ q[x] <= m
    BY DEF Copies
  <2> QED OBVIOUS
<1> QED BY <1>2, <1>3 DEF Fits

\* Adding jobs for the files in F, each where it is or just got to.
LEMMA DispatchFits ==
    ASSUME NEW F, NEW f \in File, Fits(f, job[f], points[f], disk[f], again[f]),
           job'[f] = Dispatch(F, 0)[f], points'[f] = points[f], disk'[f] \in Places,
           again[f] \in Nat, again'[f] = again[f],
           \/ disk'[f] = disk[f] /\ (f \in F /\ f \in Upload => disk[f] # "absent")
           \/ f \in F /\ disk[f] = "absent" /\ disk'[f] # "absent"
           \/ f \notin Upload
    PROVE  Fits(f, job'[f], points'[f], disk'[f], again'[f])
<1>1. CASE f \in F /\ job[f].state = "none"
  <2>1. New(job'[f])
    BY <1>1 DEF Dispatch, New
  <2> QED BY <1>1, <2>1, NewFits
<1>2. CASE ~(f \in F /\ job[f].state = "none")
  <2>1. job'[f] = job[f]
    BY <1>2 DEF Dispatch
  <2>2. disk'[f] = disk[f] \/ f \notin Upload
    BY <1>2 DEF Fits, Stored
  <2> QED BY <2>1, <2>2, MovedFits
<1> QED BY <1>1, <1>2

LEMMA RequestInv == EmbedInv /\ Request => EmbedInv'
<1> SUFFICES ASSUME EmbedInv, Request PROVE EmbedInv'
  OBVIOUS
<1> USE DEF EmbedInv
<1>0. \A g \in File : again[g] \in Nat /\ again'[g] = again[g]
  BY DEF Shape, Request, UploadFile, Downloaded, DeleteSource, DeleteZim, SyncQueue,
         DiscoverDocs, SyncDocs, SyncList, SyncCompare
<1>1. ASSUME NEW f \in File, UploadFile(f) PROVE EmbedInv'
  <2>1. Shape' /\ SyncOK'
    BY <1>1 DEF UploadFile, Shape, SyncOK, Places, Dispatch
  <2>2. ASSUME NEW g \in File PROVE Fits(g, job'[g], points'[g], disk'[g], again'[g])
    <3>1. /\ job'[g] = Dispatch({f}, 0)[g] /\ points'[g] = points[g] /\ disk'[g] \in Places
          /\ disk'[g] = IF g = f THEN "there" ELSE disk[g]
          /\ disk[f] = "absent"
      BY <1>1 DEF UploadFile, Shape, Places
    <3> QED BY <1>0, <3>1, DispatchFits
  <2> QED BY <2>1, <2>2
<1>2. ASSUME NEW f \in File, Downloaded(f) PROVE EmbedInv'
  <2>1. Shape' /\ SyncOK'
    BY <1>2 DEF Downloaded, Shape, SyncOK, Places, Dispatch
  <2>2. ASSUME NEW g \in File PROVE Fits(g, job'[g], points'[g], disk'[g], again'[g])
    <3>1. /\ job'[g] \in {job[g], Dispatch({f}, 0)[g]} /\ points'[g] = points[g]
          /\ disk'[g] \in Places /\ f \notin Upload
          /\ disk'[g] = IF g = f THEN "there" ELSE disk[g]
      BY <1>2, Disjoint DEF Downloaded, Shape, Places
    <3>2. CASE job'[g] = job[g]
      BY <1>0, <3>1, <3>2, MovedFits
    <3>3. CASE job'[g] = Dispatch({f}, 0)[g]
      BY <1>0, <3>1, <3>3, DispatchFits
    <3> QED BY <3>1, <3>2, <3>3
  <2> QED BY <2>1, <2>2
<1>3. ASSUME NEW f \in File, DeleteSource(f) PROVE EmbedInv'
  <2>1. Shape' /\ SyncOK'
    BY <1>3 DEF DeleteSource, Shape, SyncOK, Places
  <2>2. ASSUME NEW g \in File PROVE Fits(g, job'[g], points'[g], disk'[g], again'[g])
    <3>1. CASE g = f
      <4>1. /\ job'[g] = job[g] /\ points'[g] = [x \in Section(g) |-> 0] /\ disk'[g] \in Places
            /\ disk'[g] = "deleted" \/ g \notin Upload
        BY <1>3, <2>1, <3>1 DEF DeleteSource, Shape
      <4> QED BY <1>0, <4>1, ClearedFits
    <3>2. CASE g # f
      BY <1>0, <1>3, <3>2 DEF DeleteSource, Shape
    <3> QED BY <3>1, <3>2
  <2> QED BY <2>1, <2>2
<1>4. ASSUME NEW f \in File, DeleteZim(f) PROVE EmbedInv'
  <2>1. Shape' /\ SyncOK'
    BY <1>4 DEF DeleteZim, Shape, SyncOK, Places
  <2>2. ASSUME NEW g \in File PROVE Fits(g, job'[g], points'[g], disk'[g], again'[g])
    <3>1. /\ job'[g] = job[g] /\ points'[g] = points[g] /\ disk'[g] \in Places
          /\ disk'[g] \in {disk[g], "deleted"}
      BY <1>4 DEF DeleteZim, Shape, Places
    <3> QED BY <1>0, <3>1, MovedFits
  <2> QED BY <2>1, <2>2
<1>5. ASSUME NEW f \in File, SyncQueue(f) PROVE EmbedInv'
  <2>1. Shape' /\ SyncOK'
    BY <1>5 DEF SyncQueue, Shape, SyncOK, Dispatch
  <2>2. ASSUME NEW g \in File PROVE Fits(g, job'[g], points'[g], disk'[g], again'[g])
    <3>1. /\ job'[g] = Dispatch({f}, 0)[g] /\ points'[g] = points[g] /\ disk'[g] = disk[g]
          /\ disk[g] \in Places /\ disk[f] # "absent"
      BY <1>5 DEF SyncQueue, Shape, SyncOK
    <3> QED BY <1>0, <3>1, DispatchFits
  <2> QED BY <2>1, <2>2
<1>6. ASSUME DiscoverDocs \/ SyncDocs PROVE EmbedInv'
  <2>1. Shape' /\ SyncOK'
    BY <1>6 DEF DiscoverDocs, SyncDocs, Shape, SyncOK, Dispatch
  <2>2. ASSUME NEW g \in File PROVE Fits(g, job'[g], points'[g], disk'[g], again'[g])
    <3>1. /\ job'[g] = Dispatch(Doc, 0)[g] /\ points'[g] = points[g] /\ disk'[g] = disk[g]
          /\ disk[g] \in Places
      BY <1>6 DEF DiscoverDocs, SyncDocs, Shape
    <3> QED BY <1>0, <3>1, DispatchFits, Disjoint
  <2> QED BY <2>1, <2>2
<1>7. ASSUME SyncList \/ SyncCompare PROVE EmbedInv'
  <2>1. Shape' /\ UNCHANGED <<disk, job, points, discovered, again>>
    BY <1>7 DEF SyncList, SyncCompare, Shape
  <2>2. SyncOK'
    <3>1. CASE SyncList
      BY <2>1, <3>1 DEF SyncList, SyncOK, File
    <3>2. CASE SyncCompare
      BY <2>1, <3>2 DEF SyncCompare, SyncOK
    <3> QED BY <1>7, <3>1, <3>2
  <2> QED BY <2>1, <2>2
<1> QED BY <1>1, <1>2, <1>3, <1>4, <1>5, <1>6, <1>7 DEF Request

-----------------------------------------------------------------------------
LEMMA CrashInv == EmbedInv /\ Crash => EmbedInv'
<1> SUFFICES ASSUME EmbedInv, Crash PROVE EmbedInv'
  OBVIOUS
<1>1. Shape' /\ SyncOK'
  BY DEF EmbedInv, Crash, Shape, SyncOK
<1>2. ASSUME NEW f \in File PROVE Fits(f, job'[f], points'[f], disk'[f], again'[f])
  <2> DEFINE j == job[f]
             k == job'[f]
             p == points[f]
             d == disk[f]
  <2>1. /\ points'[f] = p /\ disk'[f] = d /\ again'[f] = again[f]
        /\ Fits(f, j, p, d, again[f])
    BY DEF Crash, EmbedInv
  <2>2. CASE f \in Running
    <3>1. j.state = "active" /\ k = [j EXCEPT !.at = "orphaned", !.todo = {}, !.more = FALSE]
      BY <2>2 DEF Crash, Running
    <3>2. k \in Job(f) /\ k.state = "active"
      BY <2>1, <3>1 DEF Fits, Typed, Job, WorkerPoints
    <3>3. Typed(f, k, p, d) /\ Copies(f, k, p, again[f]) /\ Stored(f, k, p, d) /\ Truthful(k)
      BY <2>1, <3>1, <3>2 DEF Fits, Typed, Copies, Stored, Truthful, Job
    <3> QED BY <2>1, <3>3 DEF Fits
  <2>3. CASE f \notin Running
    BY <2>1, <2>3 DEF Crash
  <2> QED BY <2>2, <2>3
<1> QED BY <1>1, <1>2 DEF EmbedInv

LEMMA InitInv == Init => EmbedInv
<1> SUFFICES ASSUME Init PROVE EmbedInv
  OBVIOUS
<1>1. Shape /\ SyncOK
  BY DEF Init, Shape, SyncOK, Places
<1>2. ASSUME NEW f \in File PROVE Fits(f, job[f], points[f], disk[f], again[f])
  <2>1. /\ job[f] = NoJob /\ points[f] = [x \in Section(f) |-> 0] /\ disk[f] \in Places
        /\ again[f] = 0
    BY DEF Init, Places
  <2>4. Typed(f, job[f], points[f], disk[f])
    BY <2>1, NoJobTyped DEF Typed
  <2>5. /\ Copies(f, job[f], points[f], again[f]) /\ Stored(f, job[f], points[f], disk[f])
        /\ Truthful(job[f])
    BY <2>1 DEF Copies, Stored, Truthful, NoJob
  <2> QED BY <2>4, <2>5 DEF Fits
<1> QED BY <1>1, <1>2 DEF EmbedInv

\* The invariant is inductive.
LEMMA StepInv == EmbedInv /\ [Next]_vars => EmbedInv'
<1> SUFFICES ASSUME EmbedInv, [Next]_vars PROVE EmbedInv'
  OBVIOUS
<1>1. CASE Request
  BY <1>1, RequestInv
<1>2. CASE Crash
  BY <1>2, CrashInv
<1>3. ASSUME NEW f \in File, Step(f) PROVE EmbedInv'
  <2>1. Shape' /\ SyncOK' /\ Apart(f)
    BY <1>3, WorkApart DEF EmbedInv
  <2>2. Fits(f, job'[f], points'[f], disk'[f], again'[f])
    BY <1>3, WorkFits DEF EmbedInv
  <2>3. \A g \in File : Fits(g, job'[g], points'[g], disk'[g], again'[g])
    BY <2>1, <2>2 DEF Apart, EmbedInv
  <2> QED BY <2>1, <2>3 DEF EmbedInv
<1>4. CASE UNCHANGED vars
  BY <1>4 DEF vars, EmbedInv, Shape, SyncOK
<1> QED BY <1>1, <1>2, <1>3, <1>4 DEF Next, Step

LEMMA Invariant == Spec => []EmbedInv
<1> QED BY InitInv, StepInv, PTL DEF Spec

\* Every reachable state is well typed: a job is active exactly while somebody works on
\* it or did when the worker died, and only a failed job has used up its attempts.
THEOREM TypeCorrect == Spec => []TypeOK
<1>1. EmbedInv => TypeOK
  BY DEF EmbedInv, Shape, SyncOK, Fits, Typed, Places, TypeOK
<1> QED BY <1>1, Invariant, PTL

\* No section has more copies than one, and one for each time its file was given up to be
\* stored again: by the eviction of its completed job, a late failure or a stall.
THEOREM NoFurtherCopies == Spec => []StoredOnce
<1>1. EmbedInv => StoredOnce
  BY DEF EmbedInv, Fits, Copies, StoredOnce
<1> QED BY <1>1, Invariant, PTL

\* An upload that is there and whose job is completed can be found in the store.
THEOREM UploadsAreStored == Spec => []CompletedIsStored
<1>1. EmbedInv => CompletedIsStored
  <2> SUFFICES ASSUME EmbedInv, NEW f \in Upload, job[f].state = "completed", disk[f] = "there",
                      NEW x \in Section(f)
               PROVE  points[f][x] > 0
    BY DEF CompletedIsStored
  <2>1. f \in File /\ Fits(f, job[f], points[f], disk[f], again[f])
    BY DEF File, EmbedInv
  <2>2. job[f].todo = {}
    BY <2>1 DEF Fits, Typed
  <2> QED BY <2>1, <2>2 DEF Fits, Stored
<1> QED BY <1>1, Invariant, PTL

\* What getStatus() reports of a settled job is what became of it, unless the job died
\* with its worker once too often.
THEOREM SettledStatus == Spec => []StatusIsTrue
<1>1. EmbedInv => StatusIsTrue
  BY DEF EmbedInv, Fits, Truthful, StatusIsTrue
<1> QED BY <1>1, Invariant, PTL

-----------------------------------------------------------------------------
(* The store it implements *)

Seen == [f \in File |-> Embedding(f, job[f])]

\* That the store sees the job j as a, field by field.
SeenAs(f, j, a) ==
    /\ a = [phase |-> a.phase, owed |-> a.owed, told |-> a.told, breaks |-> a.breaks]
    /\ j.at = "orphaned" => a.phase = "broken"
    /\ j.at \in {"fail", "give up"} => a.phase = "failing"
    /\ j.at \notin {"orphaned", "fail", "give up"} /\ j.state \in Pending => a.phase = "pending"
    /\ j.at \notin {"orphaned", "fail", "give up"} /\ j.state \notin Pending => a.phase = j.state
    /\ j.at = "embed" => a.owed = j.todo
    /\ j.at \in {"next", "report"} => a.owed = {}
    /\ j.at \notin {"embed", "next", "report"} /\ j.state = "completed" => a.owed = {}
    /\ j.at \notin {"embed", "next", "report"} /\ j.state # "completed" => a.owed = Section(f)
    /\ a.told = Told[j.status]
    /\ a.breaks = j.stalls

LEMMA Sight ==
    ASSUME NEW f \in File, NEW j
    PROVE  SeenAs(f, j, Embedding(f, j))
<1> DEFINE a == Embedding(f, j)
<1>1. /\ a = [phase |-> a.phase, owed |-> a.owed, told |-> a.told, breaks |-> a.breaks]
      /\ a.told = Told[j.status] /\ a.breaks = j.stalls
  BY DEF Embedding
<1>2. a.phase = IF j.at = "orphaned" THEN "broken"
                ELSE IF j.at \in {"fail", "give up"} THEN "failing"
                ELSE IF j.state \in Pending THEN "pending" ELSE j.state
  BY DEF Embedding
<1>3. a.owed = IF j.at = "embed" THEN j.todo
               ELSE IF j.at \in {"next", "report"} \/ j.state = "completed" THEN {}
               ELSE Section(f)
  BY DEF Embedding
<1> HIDE DEF a
<1>4. SeenAs(f, j, a)
  BY <1>1, <1>2, <1>3 DEF SeenAs
<1> QED BY <1>4 DEF a

LEMMA Tells ==
    /\ Told["none"] = "none" /\ Told["processing"] = "busy" /\ Told["failed"] = "failed"
    /\ Told["completed"] = "done" /\ Told["batch_completed"] = "done"
BY DEF Told

LEMMA Embedded ==
    ASSUME NEW f \in File, NEW j, NEW a, SeenAs(f, j, a), j.state = "active", j.at = "embed"
    PROVE  /\ a.phase = "pending" /\ a.owed = j.todo /\ a.told = Told[j.status]
           /\ a.breaks = j.stalls
BY DEF SeenAs, Pending

\* Only the file a step is about is seen to move.
LEMMA OneSeen ==
    ASSUME NEW f \in File, Apart(f)
    PROVE  /\ Seen[f] = Embedding(f, job[f])
           /\ Seen' = [Seen EXCEPT ![f] = Embedding(f, job'[f])]
<1>1. Seen' = [g \in File |-> Embedding(g, job'[g])]
  BY DEF Seen
<1>2. \A g \in File : g # f => Embedding(g, job'[g]) = Embedding(g, job[g])
  BY DEF Apart
<1> QED BY <1>1, <1>2 DEF Seen

\* The sections of a file, as the store has them.
USE DEF Section

LEMMA WorkRefines ==
    ASSUME Shape, NEW f \in File, Apart(f), Fits(f, job[f], points[f], disk[f], again[f]), Step(f)
    PROVE  [Store!StoreNext]_(Store!storeVars)
<1> DEFINE j == job[f]
           k == job'[f]
           a == Embedding(f, j)
           b == Embedding(f, k)
<1>1. Typed(f, j, points[f], disk[f]) /\ Truthful(j)
  BY DEF Fits
<1>2. Seen[f] = a /\ Seen' = [Seen EXCEPT ![f] = b]
  BY OneSeen
<1>0. SeenAs(f, j, a) /\ SeenAs(f, k, b)
  BY Sight
<1> HIDE DEF a, b
<1>3. ASSUME b.phase = a.phase, b.owed = a.owed, b.told = a.told, b.breaks = a.breaks,
             points' = points
      PROVE  UNCHANGED Store!storeVars
  <2>1. b = a
    BY <1>0, <1>3 DEF SeenAs
  <2>2. Seen' = Seen
    BY <1>2, <2>1 DEF Seen
  <2> QED BY <1>3, <2>2 DEF Store!storeVars, Seen
<1>20. ASSUME k.at \in {"fail", "give up"}, k.state = "active", k.status = j.status,
              k.stalls = j.stalls, j.state = "active",
              j.at \in {"check", "extract"} \/ (j.at \in {"embed", "next"} /\ a.told = "busy"),
              points' = points
       PROVE  Store!StoreNext
  <2>1. PICK o, t : /\ a = [phase |-> "pending", owed |-> o, told |-> t, breaks |-> j.stalls]
                    /\ t = "done" => o = Section(f)
                    /\ t = Told[j.status]
    <3>1. a.phase = "pending" /\ (a.told = "done" => a.owed = Section(f))
      BY <1>0, <1>20 DEF SeenAs, Pending
    <3>2. a = [phase |-> a.phase, owed |-> a.owed, told |-> a.told, breaks |-> a.breaks]
          /\ a.told = Told[j.status] /\ a.breaks = j.stalls
      BY <1>0 DEF SeenAs
    <3> QED BY <3>1, <3>2
  <2>2. b = [phase |-> "failing", owed |-> Section(f), told |-> t, breaks |-> j.stalls]
    BY <1>0, <1>20, <2>1 DEF SeenAs
  <2> DEFINE s == [a EXCEPT !.phase = "failing"]
             C == Section(f)
  <2>3. s = [phase |-> "failing", owed |-> o, told |-> t, breaks |-> j.stalls]
    BY <2>1
  <2>4. [a EXCEPT !.phase = "failing", !.owed = C] = [s EXCEPT !.owed = C]
    OBVIOUS
  <2> HIDE DEF s, C
  <2>5. b = [a EXCEPT !.phase = "failing", !.owed = C]
    BY <2>2, <2>3, <2>4 DEF C
  <2>6. a.phase = "pending" /\ (a.told = "done" => a.owed = C)
    BY <2>1 DEF C
  <2>7. Seen' = [Seen EXCEPT ![f].phase = "failing", ![f].owed = C]
    BY <1>2, <2>5 DEF Seen
  <2>8. Store!Fail(f)
    BY <1>2, <1>20, <2>6, <2>7 DEF Store!Fail, Store!Underway, Seen, C
  <2> QED BY <2>8 DEF Store!StoreNext
<1>4. CASE StartJob(f)
  <2>1. j.state = "waiting" /\ j.at = "idle"
    BY <1>1, <1>4 DEF StartJob, Typed
  <2>2. k = [j EXCEPT !.state = "active", !.at = "check"] /\ points' = points
    BY <1>4 DEF Shape, StartJob
  <2>3. k.state = "active" /\ k.at = "check" /\ k.status = j.status /\ k.stalls = j.stalls
    BY <1>1, <2>2 DEF Typed, Job
  <2>4. /\ b.phase = a.phase /\ b.owed = a.owed
        /\ b.told = a.told /\ b.breaks = a.breaks
    BY <1>0, Tells, <2>1, <2>3 DEF SeenAs, Pending
  <2> QED BY <1>3, <2>2, <2>4
<1>5. CASE CheckServices(f)
  <2>1. j.state = "active" /\ j.at = "check"
    BY <1>1, <1>5 DEF CheckServices, Typed
  <2>2. /\ \/ k = [j EXCEPT !.at = "extract", !.status = "processing"]
           \/ k = [j EXCEPT !.at = "give up"] \/ k = [j EXCEPT !.at = "fail"]
        /\ points' = points
    BY <1>5 DEF Shape, CheckServices
  <2>3. /\ k.state = "active" /\ k.stalls = j.stalls
        /\ \/ k.at = "extract" /\ k.status = "processing"
           \/ k.at \in {"fail", "give up"} /\ k.status = j.status
    BY <1>1, <2>1, <2>2 DEF Typed, Job
  <2>4. CASE k.at = "extract"
    <3>1. a.phase = "pending" /\ a.owed = Section(f) /\ b = [a EXCEPT !.told = "busy"]
      BY <1>0, Tells, <2>1, <2>3, <2>4 DEF SeenAs, Pending
    <3>2. Store!Begin(f)
      BY <1>2, <2>2, <3>1 DEF Store!Begin, Store!Underway, Seen
    <3> QED BY <3>2 DEF Store!StoreNext
  <2>5. CASE k.at \in {"fail", "give up"}
    <3>1. k.status = j.status
      BY <2>3, <2>5
    <3> QED BY <1>20, <2>1, <2>2, <2>3, <2>5, <3>1
  <2> QED BY <2>3, <2>4, <2>5
<1>6. CASE Extract(f)
  <2> DEFINE todo == IF f \in Zim THEN Batch(f, j.offset, BatchSize) ELSE Section(f)
             more == f \in Zim /\ Cardinality(todo) = BatchSize
  <2>1. /\ \/ k = [j EXCEPT !.at = "embed", !.todo = todo, !.more = more]
           \/ k = [j EXCEPT !.at = "fail"]
        /\ points' = points
    BY <1>6 DEF Shape, Extract
  <2>2. j.at = "extract" /\ j.state = "active" /\ j.status = "processing"
    BY <1>1, <1>6 DEF Extract, Typed, Truthful
  <2>3. /\ todo \subseteq Section(f)
        /\ f \notin Zim => todo = Section(f)
    BY DEF Batch, Section, Sections
  <2> HIDE DEF todo, more
  <2>4. /\ k.state = "active" /\ k.stalls = j.stalls /\ k.status = "processing"
        /\ \/ k.at = "embed" /\ k.todo = todo
           \/ k.at = "fail"
    BY <1>1, <2>1, <2>2 DEF Typed, Job
  <2>5. a.phase = "pending" /\ a.owed = Section(f) /\ a.told = "busy" /\ a.breaks = j.stalls
    BY <1>0, Tells, <2>2, ZenonT(40) DEF SeenAs, Pending
  <2>6. CASE k.at = "embed" /\ f \in Zim
    <3>1. b = [a EXCEPT !.owed = todo]
      BY <1>0, Tells, <2>2, <2>4, <2>6 DEF SeenAs, Pending
    <3>2. f \notin Upload \cup Doc
      BY <2>6, FileAssumption
    <3>3. Store!LeaveOut(f, todo)
      BY <1>2, <2>1, <2>3, <2>5, <3>1, <3>2 DEF Store!LeaveOut, Store!Underway, Seen
    <3> QED BY <2>3, <3>3 DEF Store!StoreNext
  <2>7. CASE k.at = "embed" /\ f \notin Zim
    <3>1. b.phase = "pending" /\ b.owed = Section(f) /\ b.told = "busy" /\ b.breaks = j.stalls
      BY <1>0, Tells, <2>3, <2>4, <2>7, ZenonT(40) DEF SeenAs, Pending
    <3> QED BY <1>3, <2>1, <2>5, <3>1
  <2>8. CASE k.at = "fail"
    BY <1>20, <2>1, <2>2, <2>4, <2>8
  <2> QED BY <2>4, <2>6, <2>7, <2>8
<1>7. CASE EmbedSection(f)
  <2>1. j.at = "embed" /\ j.state = "active" /\ j.status = "processing"
    BY <1>1, <1>7 DEF EmbedSection, Typed, Truthful
  <2>2. PICK x \in j.todo :
          \/ /\ k = [j EXCEPT !.todo = @ \ {x}]
             /\ points' = [points EXCEPT ![f][x] = @ + 1]
          \/ f \in Zim /\ k = [j EXCEPT !.todo = @ \ {x}] /\ points' = points
          \/ f \notin Zim /\ k = [j EXCEPT !.at = "fail", !.todo = {}] /\ points' = points
    BY <1>7 DEF Shape, EmbedSection
  <2>3. j.todo \subseteq Section(f) /\ x \in Section(f)
    BY <1>1, <2>2 DEF Typed, Job
  <2>4. a.phase = "pending" /\ a.owed = j.todo /\ a.told = "busy" /\ a.breaks = j.stalls
    BY <1>0, Tells, <2>1, ZenonT(40) DEF SeenAs, Pending
  <2>5. CASE k = [j EXCEPT !.todo = @ \ {x}]
    <3>1. /\ k.state = "active" /\ k.at = "embed" /\ k.todo = j.todo \ {x}
          /\ k.stalls = j.stalls /\ k.status = "processing"
      BY <1>1, <2>1, <2>5 DEF Typed, Job
    <3>2. b = [a EXCEPT !.owed = j.todo \ {x}]
      <4>1. /\ b.phase = "pending" /\ b.owed = j.todo \ {x} /\ b.told = "busy"
            /\ b.breaks = j.stalls
        BY <1>0, Tells, <3>1, Embedded
      <4> QED BY <1>0, <2>4, <4>1, ZenonT(40) DEF SeenAs
    <3>3. CASE points' = [points EXCEPT ![f][x] = @ + 1]
      <4>1. Store!Keep(f, x)
        BY <1>2, <2>2, <2>4, <3>2, <3>3 DEF Store!Keep, Store!Underway, Seen
      <4> QED BY <2>3, <4>1 DEF Store!StoreNext
    <3>4. CASE f \in Zim /\ points' = points
      <4>1. f \notin Upload \cup Doc
        BY <3>4, FileAssumption
      <4>2. Store!LeaveOut(f, j.todo \ {x})
        BY <1>2, <2>4, <3>2, <3>4, <4>1 DEF Store!LeaveOut, Store!Underway, Seen
      <4> QED BY <2>3, <4>2 DEF Store!StoreNext
    <3>5. k # [j EXCEPT !.at = "fail", !.todo = {}]
      BY <1>1, <2>1, <3>1 DEF Typed, Job
    <3> QED BY <2>2, <3>3, <3>4, <3>5
  <2>6. CASE f \notin Zim /\ k = [j EXCEPT !.at = "fail", !.todo = {}] /\ points' = points
    <3>1. k.state = "active" /\ k.at = "fail" /\ k.stalls = j.stalls /\ k.status = "processing"
      BY <1>1, <2>1, <2>6 DEF Typed, Job
    <3> QED BY <1>20, <2>1, <2>4, <2>6, <3>1
  <2> QED BY <2>2, <2>5, <2>6
<1>8. CASE DispatchNext(f)
  <2>1. j.at = "embed" /\ j.todo = {} /\ j.state = "active"
    BY <1>1, <1>8 DEF DispatchNext, Typed
  <2>2. k = [j EXCEPT !.at = "next"] /\ points' = points
    BY <1>8, <2>1 DEF Shape, DispatchNext, Dispatch
  <2>3. k.state = "active" /\ k.at = "next" /\ k.status = j.status /\ k.stalls = j.stalls
    BY <1>1, <2>1, <2>2 DEF Typed, Job
  <2>4. /\ b.phase = a.phase /\ b.owed = a.owed
        /\ b.told = a.told /\ b.breaks = a.breaks
    BY <1>0, Tells, <2>1, <2>3 DEF SeenAs, Pending
  <2> QED BY <1>3, <2>2, <2>4
<1>9. CASE Report(f)
  <2>1. /\ \/ k = [j EXCEPT !.at = "report", !.status = "completed"]
           \/ k = [j EXCEPT !.at = "report", !.status = "batch_completed"]
        /\ points' = points
    BY <1>9 DEF Shape, Report
  <2>2. j.at \in {"embed", "next"} /\ j.todo = {} /\ j.state = "active" /\ j.status = "processing"
    BY <1>1, <1>9 DEF Report, Typed, Truthful
  <2>3. /\ k.state = "active" /\ k.at = "report" /\ k.stalls = j.stalls
        /\ k.status \in {"completed", "batch_completed"}
    BY <1>1, <2>1, <2>2 DEF Typed, Job
  <2>4. /\ a.phase = "pending" /\ a.owed = {} /\ a.told = "busy"
        /\ b = [a EXCEPT !.told = "done"]
    <3>1. a.phase = "pending" /\ a.owed = {} /\ a.told = "busy" /\ a.breaks = j.stalls
      BY <1>0, Tells, <2>2, ZenonT(40) DEF SeenAs, Pending
    <3>2. b.phase = "pending" /\ b.owed = {} /\ b.told = Told[k.status] /\ b.breaks = j.stalls
      BY <1>0, <2>3 DEF SeenAs, Pending
    <3>3. Told[k.status] = "done"
      BY <2>3, Tells
    <3> QED BY <1>0, <3>1, <3>2, <3>3, ZenonT(40) DEF SeenAs
  <2>5. Store!TellDone(f)
    BY <1>2, <2>1, <2>4 DEF Store!TellDone, Store!Underway, Seen
  <2> QED BY <2>5 DEF Store!StoreNext
<1>10. CASE Complete(f)
  <2>1. k = [j EXCEPT !.state = "completed", !.at = "idle"] /\ points' = points
    BY <1>10 DEF Shape, Complete
  <2>2. j.at = "report" /\ j.state = "active" /\ j.status \in {"batch_completed", "completed"}
    BY <1>1, <1>10 DEF Complete, Typed, Truthful
  <2>3. /\ k.state = "completed" /\ k.at = "idle" /\ k.stalls = j.stalls /\ k.status = j.status
    BY <1>1, <2>1, <2>2 DEF Typed, Job
  <2>4. /\ a.phase = "pending" /\ a.owed = {} /\ a.told = "done"
        /\ b = [a EXCEPT !.phase = "completed"]
    BY <1>0, Tells, <2>2, <2>3 DEF SeenAs, Pending
  <2>5. Store!Finish(f)
    BY <1>2, <2>1, <2>4 DEF Store!Finish, Store!Underway, Seen
  <2> QED BY <2>5 DEF Store!StoreNext
<1>11. CASE FailAttempt(f)
  <2> DEFINE st == IF j.at = "fail" /\ j.attempts + 1 < MaxAttempts THEN "delayed" ELSE "failed"
             n == j.attempts + 1
  <2>1. /\ k = [j EXCEPT !.state = st, !.at = "idle", !.attempts = n, !.status = "failed"]
        /\ points' = points
    BY <1>11 DEF Shape, FailAttempt
  <2>2. st \in {"delayed", "failed"}
    OBVIOUS
  <2> HIDE DEF st, n
  <2>3. j.at \in {"fail", "give up"} /\ j.state = "active"
    BY <1>1, <1>11 DEF FailAttempt, Typed
  <2>4. k.state = st /\ k.at = "idle" /\ k.stalls = j.stalls /\ k.status = "failed"
    BY <1>1, <2>1 DEF Typed, Job
  <2>5. PICK t : a = [phase |-> "failing", owed |-> Section(f), told |-> t, breaks |-> j.stalls]
    BY <1>0, <2>3 DEF SeenAs
  <2>6. PICK p \in {"pending", "failed"} : b.phase = p
    BY <1>0, <2>2, <2>4 DEF SeenAs, Pending
  <2>7. b = [phase |-> p, owed |-> Section(f), told |-> "failed", breaks |-> j.stalls]
    BY <1>0, Tells, <2>2, <2>4, <2>6, ZenonT(40) DEF SeenAs
  <2>8. b = [a EXCEPT !.phase = p, !.told = "failed"]
    <3> DEFINE s == [a EXCEPT !.phase = p]
    <3>1. s = [phase |-> p, owed |-> Section(f), told |-> t, breaks |-> j.stalls]
      BY <2>5
    <3>2. [a EXCEPT !.phase = p, !.told = "failed"] = [s EXCEPT !.told = "failed"]
      OBVIOUS
    <3> HIDE DEF s
    <3>3. [s EXCEPT !.told = "failed"] = b
      BY <2>7, <3>1
    <3> QED BY <3>2, <3>3
  <2>9. Store!TellFailure(f)
    <3>1. a.phase = "failing"
      BY <2>5
    <3> QED BY <1>2, <2>1, <2>6, <2>8, <3>1, ZenonT(40) DEF Store!TellFailure, Seen
  <2> QED BY <2>9 DEF Store!StoreNext
<1>12. CASE RetryDue(f)
  <2>1. j.state = "delayed" /\ j.at = "idle"
    BY <1>1, <1>12 DEF RetryDue, Typed
  <2>2. k = [j EXCEPT !.state = "waiting"] /\ points' = points
    BY <1>12 DEF Shape, RetryDue
  <2>3. k.state = "waiting" /\ k.at = "idle" /\ k.status = j.status /\ k.stalls = j.stalls
    BY <1>1, <2>1, <2>2 DEF Typed, Job
  <2>4. /\ b.phase = a.phase /\ b.owed = a.owed
        /\ b.told = a.told /\ b.breaks = a.breaks
    BY <1>0, Tells, <2>1, <2>3 DEF SeenAs, Pending
  <2> QED BY <1>3, <2>2, <2>4
<1>13. CASE RecoverStalled(f)
  <2> DEFINE st == IF j.stalls < MaxStalled THEN "waiting" ELSE "failed"
             n == j.stalls + 1
  <2>1. k = [j EXCEPT !.state = st, !.at = "idle", !.stalls = n] /\ points' = points
    BY <1>13 DEF Shape, RecoverStalled
  <2>2. j.at = "orphaned" /\ j.state = "active"
    BY <1>1, <1>13 DEF RecoverStalled, Typed
  <2>3. k.state = st /\ k.at = "idle" /\ k.stalls = n /\ k.status = j.status
    BY <1>1, <2>1 DEF Typed, Job
  <2>4. PICK t : a = [phase |-> "broken", owed |-> Section(f), told |-> t, breaks |-> j.stalls]
    BY <1>0, <2>2 DEF SeenAs
  <2>6. PICK p \in {"pending"} \cup (IF a.breaks < MaxStalled THEN {} ELSE {"failed"}) :
          b.phase = p
    BY <1>0, <2>3, <2>4 DEF SeenAs, Pending
  <2>7. st \in {"waiting", "failed"}
    OBVIOUS
  <2> HIDE DEF st
  <2>8. b = [phase |-> p, owed |-> Section(f), told |-> t, breaks |-> n]
    BY <1>0, <2>3, <2>4, <2>6, <2>7, ZenonT(40) DEF SeenAs
  <2> HIDE DEF n
  <2>9. b = [a EXCEPT !.phase = p, !.breaks = n]
    <3> DEFINE s == [a EXCEPT !.phase = p]
    <3>1. s = [phase |-> p, owed |-> Section(f), told |-> t, breaks |-> j.stalls]
      BY <2>4
    <3>2. [a EXCEPT !.phase = p, !.breaks = n] = [s EXCEPT !.breaks = n]
      OBVIOUS
    <3> HIDE DEF s
    <3>3. [s EXCEPT !.breaks = n] = b
      BY <2>8, <3>1
    <3> QED BY <3>2, <3>3
  <2>10. a.phase = "broken" /\ n = a.breaks + 1
    BY <2>4 DEF n
  <2>5. Store!Recover(f)
    <3>1. Seen' = [Seen EXCEPT ![f].phase = p, ![f].breaks = Seen[f].breaks + 1]
      <4>1. n = Seen[f].breaks + 1 /\ f \in DOMAIN Seen
        BY <1>2, <2>10 DEF Seen
      <4>2. Seen' = [Seen EXCEPT ![f] = [Seen[f] EXCEPT !.phase = p, !.breaks = n]]
        BY <1>2, <2>9
      <4> QED BY <4>1, <4>2
    <3>2. /\ p \in {"pending"} \cup (IF Seen[f].breaks < MaxStalled THEN {} ELSE {"failed"})
          /\ Seen[f].phase = "broken"
      BY <1>2, <2>6, <2>10
    <3> QED BY <2>1, <3>1, <3>2 DEF Store!Recover, Seen
  <2> QED BY <2>5 DEF Store!StoreNext
<1>14. CASE FailLate(f)
  <2>1. k = [j EXCEPT !.at = "fail", !.todo = {}, !.more = FALSE] /\ points' = points
    BY <1>14 DEF Shape, FailLate
  <2>2. j.at \in {"extract", "embed", "next"} /\ j.state = "active" /\ j.status = "processing"
    BY <1>1, <1>14 DEF FailLate, Typed, Truthful
  <2>3. k.state = "active" /\ k.at = "fail" /\ k.status = j.status /\ k.stalls = j.stalls
    BY <1>1, <2>1, <2>2 DEF Typed, Job
  <2>4. a.told = "busy"
    BY <1>0, Tells, <2>2 DEF SeenAs
  <2> QED BY <1>20, <2>1, <2>2, <2>3, <2>4
<1>15. CASE Evict(f)
  <2>1. k = NoJob /\ points' = points /\ j.state \in {"completed", "failed"}
    BY <1>15 DEF Shape, Evict, Settled
  <2>2. a.phase \in {"completed", "failed"}
    BY <1>0, <1>1, <2>1 DEF SeenAs, Typed, Pending
  <2>3. b = [phase |-> "none", owed |-> Section(f), told |-> "none", breaks |-> 0]
    <3>1. k.state = "none" /\ k.at = "idle" /\ k.status = "none" /\ k.stalls = 0
      BY <2>1 DEF NoJob
    <3>2. b.phase = "none" /\ b.owed = Section(f) /\ b.told = "none" /\ b.breaks = 0
      BY <1>0, Tells, <3>1, ZenonT(40) DEF SeenAs, Pending
    <3> QED BY <1>0, <3>2 DEF SeenAs
  <2>4. Store!Release(f)
    BY <1>2, <2>1, <2>2, <2>3 DEF Store!Release, Store!NotGiven, Seen
  <2> QED BY <2>4 DEF Store!StoreNext
<1> QED
  BY <1>4, <1>5, <1>6, <1>7, <1>8, <1>9, <1>10, <1>11, <1>12, <1>13, <1>14, <1>15 DEF Step, Work

\* Adding jobs asks for the files that have none.
LEMMA DispatchRefines ==
    ASSUME EmbedInv, NEW F, job' = Dispatch(F, 0), points' = points
    PROVE  Store!StoreNext
<1> DEFINE G == {f \in File : f \in F /\ job[f].state = "none"}
<1>1. ASSUME NEW f \in File
      PROVE  /\ f \in G => /\ Seen[f].phase = "none"
                           /\ Seen'[f] = [Seen[f] EXCEPT !.phase = "pending"]
             /\ f \notin G => Seen'[f] = Seen[f]
  <2> DEFINE a == Embedding(f, job[f])
             b == Embedding(f, job'[f])
  <2>1. Seen[f] = a /\ Seen'[f] = b
    BY DEF Seen
  <2>2. SeenAs(f, job[f], a) /\ SeenAs(f, job'[f], b)
    BY Sight
  <2> HIDE DEF a
  <2>3. CASE f \in G
    <3>1. job[f].state = "none" /\ job[f].at = "idle" /\ job[f].status = "none" /\ job[f].stalls = 0
      BY <2>3 DEF EmbedInv, Fits, Typed, Truthful
    <3>2. New(job'[f])
      BY <2>3 DEF Dispatch, New
    <3>3. job'[f].state = "waiting" /\ job'[f].at = "idle" /\ job'[f].status = "none"
          /\ job'[f].stalls = 0
      BY <3>2 DEF New, NoJob
    <3> HIDE DEF b
    <3>4. a = [phase |-> "none", owed |-> Section(f), told |-> "none", breaks |-> 0]
      BY <2>2, <3>1, Tells, ZenonT(40) DEF SeenAs, Pending
    <3>5. b = [phase |-> "pending", owed |-> Section(f), told |-> "none", breaks |-> 0]
      BY <2>2, <3>3, Tells, ZenonT(40) DEF SeenAs, Pending
    <3>6. b = [a EXCEPT !.phase = "pending"] /\ a.phase = "none"
      BY <3>4, <3>5
    <3> QED BY <2>1, <2>3, <3>6
  <2>4. CASE f \notin G
    <3>1. job'[f] = job[f]
      BY <2>4 DEF Dispatch
    <3> QED BY <2>1, <2>4, <3>1 DEF a
  <2> QED BY <2>3, <2>4
<1>2. G \in SUBSET File
  OBVIOUS
<1> HIDE DEF G
<1>3. Seen' = [f \in File |-> Seen'[f]]
  BY DEF Seen
<1>4. Seen' = [f \in File |-> IF f \in G THEN [Seen[f] EXCEPT !.phase = "pending"] ELSE Seen[f]]
  BY <1>1, <1>3
<1>5. Store!Ask(G)
  BY <1>1, <1>2, <1>4 DEF Store!Ask, Seen
<1> QED BY <1>2, <1>5 DEF Store!StoreNext

\* A crash breaks off what was running.
LEMMA CrashRefines ==
    ASSUME EmbedInv, Crash
    PROVE  Store!StoreNext
<1>1. ASSUME NEW f \in File
      PROVE  /\ f \in Running =>
                  /\ Seen[f].phase \in {"pending", "failing"}
                  /\ Seen'[f] = [Seen[f] EXCEPT !.phase = "broken", !.owed = Section(f)]
             /\ f \notin Running => Seen'[f] = Seen[f]
  <2> DEFINE j == job[f]
             k == job'[f]
             a == Embedding(f, j)
             b == Embedding(f, k)
  <2>1. Seen[f] = a /\ Seen'[f] = b
    BY DEF Seen
  <2>2. SeenAs(f, j, a) /\ SeenAs(f, k, b)
    BY Sight
  <2>3. CASE f \in Running
    <3>1. j.state = "active" /\ j.at # "orphaned" /\ j \in Job(f)
      BY <2>3 DEF Running, EmbedInv, Fits, Typed
    <3>2. k = [j EXCEPT !.at = "orphaned", !.todo = {}, !.more = FALSE]
      BY <2>3 DEF Crash
    <3>3. k.state = "active" /\ k.at = "orphaned" /\ k.status = j.status /\ k.stalls = j.stalls
      BY <3>1, <3>2 DEF Job
    <3> HIDE DEF a, b
    <3>4. PICK q, o, t :
            /\ q \in {"pending", "failing"} /\ t = Told[j.status]
            /\ a = [phase |-> q, owed |-> o, told |-> t, breaks |-> j.stalls]
      BY <2>2, <3>1 DEF SeenAs, Pending
    <3>5. b = [phase |-> "broken", owed |-> Section(f), told |-> t, breaks |-> j.stalls]
      BY <2>2, <3>3, <3>4 DEF SeenAs
    <3> DEFINE s == [a EXCEPT !.phase = "broken"]
    <3>6. s = [phase |-> "broken", owed |-> o, told |-> t, breaks |-> j.stalls]
      BY <3>4
    <3>7. [a EXCEPT !.phase = "broken", !.owed = Section(f)] = [s EXCEPT !.owed = Section(f)]
      OBVIOUS
    <3> HIDE DEF s
    <3>8. [s EXCEPT !.owed = Section(f)] = b
      BY <3>5, <3>6
    <3>9. a.phase \in {"pending", "failing"}
      BY <3>4
    <3> QED BY <2>1, <2>3, <3>7, <3>8, <3>9
  <2>4. CASE f \notin Running
    <3>1. k = j
      BY <2>4 DEF Crash
    <3> QED BY <2>1, <2>4, <3>1
  <2> QED BY <2>3, <2>4
<1>2. Running \in SUBSET File /\ points' = points
  BY DEF Running, Crash
<1>3. Seen' = [f \in File |-> Seen'[f]]
  BY DEF Seen
<1>4. Seen' = [f \in File |-> IF f \in Running
                              THEN [Seen[f] EXCEPT !.phase = "broken", !.owed = Section(f)]
                              ELSE Seen[f]]
  BY <1>1, <1>3
<1>5. \A f \in Running : Seen[f].phase \in {"pending", "failing"} /\ f \in File
  BY <1>1, <1>2
<1>6. Store!Break(Running)
  <2> DEFINE C == [f \in File |-> Section(f)]
  <2>1. Seen' = [f \in File |-> IF f \in Running
                                THEN [Seen[f] EXCEPT !.phase = "broken", !.owed = C[f]]
                                ELSE Seen[f]]
    BY <1>4
  <2> HIDE DEF C
  <2> QED BY <1>2, <1>5, <2>1 DEF Store!Break, Seen, C
<1> QED BY <1>2, <1>6 DEF Store!StoreNext

\* A step that touches neither the jobs nor the points.
LEMMA StillStore ==
    ASSUME job' = job, points' = points
    PROVE  UNCHANGED Store!storeVars
<1>1. Seen' = Seen
  BY DEF Seen
<1> QED BY <1>1 DEF Store!storeVars, Seen

LEMMA RequestRefines ==
    ASSUME EmbedInv, Request
    PROVE  [Store!StoreNext]_(Store!storeVars)
<1>1. ASSUME NEW f \in File, UploadFile(f) \/ Downloaded(f) \/ SyncQueue(f)
      PROVE  [Store!StoreNext]_(Store!storeVars)
  <2>1. points' = points /\ (job' = Dispatch({f}, 0) \/ job' = job)
    BY <1>1 DEF UploadFile, Downloaded, SyncQueue
  <2>2. CASE job' = job
    BY <2>1, <2>2, StillStore
  <2>3. CASE job' = Dispatch({f}, 0)
    BY <2>1, <2>3, DispatchRefines
  <2> QED BY <2>1, <2>2, <2>3
<1>2. CASE DiscoverDocs \/ SyncDocs
  <2>1. points' = points /\ job' = Dispatch(Doc, 0)
    BY <1>2 DEF DiscoverDocs, SyncDocs
  <2> QED BY <2>1, DispatchRefines
<1>3. ASSUME SyncList \/ SyncCompare \/ \E f \in File : DeleteZim(f)
      PROVE  [Store!StoreNext]_(Store!storeVars)
  <2>1. job' = job /\ points' = points
    BY <1>3 DEF SyncList, SyncCompare, DeleteZim
  <2> QED BY <2>1, StillStore
<1>4. ASSUME NEW f \in File, DeleteSource(f)
      PROVE  [Store!StoreNext]_(Store!storeVars)
  <2>1. job' = job /\ points' = [points EXCEPT ![f] = [x \in Section(f) |-> 0]]
    BY <1>4 DEF DeleteSource
  <2>2. Seen' = Seen
    BY <2>1 DEF Seen
  <2>3. Store!Forget(f)
    BY <2>1, <2>2 DEF Store!Forget, Seen
  <2> QED BY <2>3 DEF Store!StoreNext
<1> QED BY <1>1, <1>2, <1>3, <1>4 DEF Request

LEMMA InitRefines == Init => Store!StoreInit
<1> SUFFICES ASSUME Init PROVE Store!StoreInit
  OBVIOUS
<1>1. ASSUME NEW f \in File
      PROVE  Embedding(f, job[f]) = [phase |-> "none", owed |-> Section(f), told |-> "none",
                                     breaks |-> 0]
  <2>1. /\ job[f].state = "none" /\ job[f].at = "idle" /\ job[f].status = "none"
        /\ job[f].stalls = 0
    BY DEF Init, NoJob
  <2> DEFINE a == Embedding(f, job[f])
  <2>2. SeenAs(f, job[f], a)
    BY Sight
  <2> HIDE DEF a
  <2>3. a = [phase |-> "none", owed |-> Section(f), told |-> "none", breaks |-> 0]
    BY <2>1, <2>2, Tells DEF SeenAs, Pending
  <2> QED BY <2>3 DEF a
<1>2. points = [f \in File |-> [x \in Section(f) |-> 0]]
  BY DEF Init
<1> QED BY <1>1, <1>2 DEF Store!StoreInit, Store!NotGiven

\* The jobs and the vector store implement the store that embeds file by file and run by
\* run, for any files, batches, attempts, stalls and numbers of concurrent jobs.
THEOREM ImplementsStore == Spec => KeepsStore
<1>1. EmbedInv /\ [Next]_vars => [Store!StoreNext]_(Store!storeVars)
  <2> SUFFICES ASSUME EmbedInv, [Next]_vars
               PROVE  [Store!StoreNext]_(Store!storeVars)
    OBVIOUS
  <2>1. CASE Request
    BY <2>1, RequestRefines
  <2>2. CASE Crash
    BY <2>2, CrashRefines
  <2>3. ASSUME NEW f \in File, Step(f)
        PROVE  [Store!StoreNext]_(Store!storeVars)
    <3>1. Shape /\ SyncOK /\ Fits(f, job[f], points[f], disk[f], again[f])
      BY DEF EmbedInv
    <3>2. Apart(f)
      BY <2>3, <3>1, WorkApart
    <3> QED BY <2>3, <3>1, <3>2, WorkRefines
  <2>4. CASE UNCHANGED vars
    BY <2>4, StillStore DEF vars
  <2> QED BY <2>1, <2>2, <2>3, <2>4 DEF Next, Step
<1> QED BY <1>1, InitRefines, Invariant, PTL DEF Spec, KeepsStore, Store!StoreSpec

\* A file whose job has completed or failed is not embedded again before that job is
\* evicted, whatever adds the file and however often, and of its sections only deletion
\* changes the copies (embed_file_job.ts:195-227).
THEOREM SettledForGood == Spec => Store!SettledStays
<1> DEFINE Stays(f) == /\ Seen'[f] = Seen[f]
                       /\ points'[f] = points[f] \/ points'[f] = [x \in Section(f) |-> 0]
<1>1. ASSUME Shape, [Store!StoreNext]_(Store!storeVars), NEW f \in File,
             Seen[f].phase \in {"completed", "failed"}, Seen'[f] # Store!NotGiven(f)
      PROVE  Stays(f)
  <2>1. DOMAIN Seen = File /\ DOMAIN points = File
    BY <1>1 DEF Shape, Seen
  <2>2. ASSUME NEW g \in File, g # f, points' = points,
               \E a : Seen' = [Seen EXCEPT ![g] = a]
        PROVE  Stays(f)
    BY <2>1, <2>2
  <2>3. ASSUME NEW g \in File,
               \/ Store!Begin(g) \/ Store!TellDone(g) \/ Store!Finish(g) \/ Store!Fail(g)
               \/ Store!TellFailure(g)
               \/ Store!Recover(g) \/ \E rest : Store!LeaveOut(g, rest)
        PROVE  Stays(f)
    <3>1. Seen[g].phase \in {"pending", "failing", "broken"} /\ points' = points
      BY <2>3 DEF Store!Begin, Store!TellDone, Store!Finish, Store!Fail, Store!TellFailure,
                  Store!Recover, Store!LeaveOut, Store!Underway, Seen
    <3>2. \E a : Seen' = [Seen EXCEPT ![g] = a]
      BY <2>3 DEF Store!Begin, Store!TellDone, Store!Finish, Store!Fail, Store!TellFailure,
                  Store!Recover, Store!LeaveOut, Seen
    <3> QED BY <1>1, <2>2, <3>1, <3>2
  <2>4. ASSUME NEW g \in File, NEW x, Store!Keep(g, x) PROVE Stays(f)
    <3>1. Seen[g].phase = "pending"
      BY <2>4 DEF Store!Keep, Store!Underway, Seen
    <3>2. (\E a : Seen' = [Seen EXCEPT ![g] = a]) /\ \E c : points' = [points EXCEPT ![g] = c]
      BY <2>4 DEF Store!Keep, Seen
    <3>3. g # f
      BY <1>1, <3>1
    <3> QED BY <2>1, <3>2, <3>3
  <2>5. ASSUME NEW g \in File, Store!Forget(g) PROVE Stays(f)
    <3>1. Seen' = Seen /\ points' = [points EXCEPT ![g] = [x \in Section(g) |-> 0]]
      BY <2>5 DEF Store!Forget, Seen
    <3> QED BY <2>1, <3>1
  <2>6. ASSUME NEW F \in SUBSET File, Store!Ask(F) \/ Store!Break(F) PROVE Stays(f)
    <3>1. \A g \in F : Seen[g].phase \in {"none", "pending", "failing"}
      BY <2>6 DEF Store!Ask, Store!Break, Store!Underway, Seen
    <3>2. f \notin F
      BY <1>1, <3>1
    <3>3. points' = points /\ \E v : Seen' = [g \in File |-> IF g \in F THEN v[g] ELSE Seen[g]]
      <4>1. ASSUME Store!Ask(F)
            PROVE  points' = points
                   /\ Seen' = [g \in File |-> IF g \in F THEN [Seen[g] EXCEPT !.phase = "pending"]
                                              ELSE Seen[g]]
        BY <4>1 DEF Store!Ask, Seen
      <4>2. ASSUME Store!Break(F)
            PROVE  points' = points
                   /\ Seen' = [g \in File |-> IF g \in F
                                  THEN [Seen[g] EXCEPT !.phase = "broken", !.owed = Section(g)]
                                  ELSE Seen[g]]
        BY <4>2 DEF Store!Break, Seen
      <4> QED BY <2>6, <4>1, <4>2
    <3> QED BY <3>2, <3>3
  <2>7. ASSUME UNCHANGED Store!storeVars PROVE Stays(f)
    BY <2>7 DEF Store!storeVars, Seen
  <2>8. ASSUME NEW g \in File, Store!Release(g) PROVE Stays(f)
    <3>1. points' = points /\ Seen' = [Seen EXCEPT ![g] = Store!NotGiven(g)]
      BY <2>8 DEF Store!Release, Seen
    <3>2. g # f
      BY <1>1, <2>1, <3>1
    <3> QED BY <2>1, <3>1, <3>2
  <2> HIDE DEF Stays
  <2> QED BY <1>1, <2>3, <2>4, <2>5, <2>6, <2>7, <2>8 DEF Store!StoreNext
<1>2. Shape /\ [Store!StoreNext]_(Store!storeVars)
        => [\A f \in File : Store!Settled(f) => Store!Untouched(f) \/ Store!LetGo(f)]_(Store!storeVars)
  <2> SUFFICES ASSUME Shape, [Store!StoreNext]_(Store!storeVars),
                      ~UNCHANGED Store!storeVars,
                      NEW f \in File, Seen[f].phase \in {"completed", "failed"},
                      Seen'[f] # Store!NotGiven(f)
               PROVE  Store!Untouched(f)
    BY DEF Store!Settled, Store!LetGo, Seen
  <2>1. Stays(f)
    BY <1>1
  <2> QED BY <2>1 DEF Seen, Store!Untouched
<1>3. EmbedInv => Shape
  BY DEF EmbedInv
<1>4. Spec => [][Store!StoreNext]_(Store!storeVars)
  BY ImplementsStore, PTL DEF KeepsStore, Store!StoreSpec
<1> QED BY <1>2, <1>3, <1>4, Invariant, PTL DEF Store!SettledStays
=============================================================================
