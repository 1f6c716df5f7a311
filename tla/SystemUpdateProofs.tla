------------------------- MODULE SystemUpdateProofs -------------------------
(***************************************************************************)
(* What holds of SystemUpdate for every number of callers, tags, requests, *)
(* crashes of the sidecar and every kind of fault.                         *)
(***************************************************************************)
EXTENDS SystemUpdate, TLAPS

\* There are four services to update.
LEMMA FourServices ==
    /\ Len(SERVICES_TO_UPDATE) = 4
    /\ \A i \in 1 .. 4 : SERVICES_TO_UPDATE[i] \in Services
BY DEF SERVICES_TO_UPDATE, Services

\* The points and stages, one by one.
LEMMA Names ==
    /\ {"boot", "poll", "read", "remove", "rest", "starting", "set tag", "pulling", "pull",
        "pulled", "recreating", "stop", "rm", "up", "complete", "failed"} \subseteq Points
    /\ {"idle", "complete", "error", "starting", "pulling", "pulled", "recreating"}
         \subseteq Stages
BY DEF Points, Updating, Stages, AtRest

\* A status write keeps the types.
LEMMA WriteStatusType ==
    ASSUME TypeOK, NEW at, NEW stage \in Stages,
           NEW next \in Points, next \notin {"read", "remove"}, WriteStatus(at, stage, next)
    PROVE  TypeOK'
BY DEF TypeOK, WriteStatus, adminVars, dockerVars

\* The calls of requestUpdate keep the types.
LEMMA CallerType ==
    ASSUME TypeOK, NEW c \in Client,
           CheckStatus(c) \/ OpenRequest(c) \/ GiveUp(c) \/ WriteRequest(c)
    PROVE  TypeOK'
<1> USE SystemUpdateAssumption
<1>1. CASE CheckStatus(c)
  BY <1>1 DEF CheckStatus, TypeOK, sidecarVars, dockerVars
<1>2. CASE OpenRequest(c)
  <2>1. requested' \in 0 .. MaxRequests
    BY <1>2 DEF OpenRequest, TypeOK
  <2> QED BY <1>2, <2>1 DEF OpenRequest, TypeOK, sidecarVars, dockerVars
<1>3. CASE GiveUp(c)
  BY <1>3 DEF GiveUp, TypeOK, sidecarVars, dockerVars
<1>4. CASE WriteRequest(c)
  BY <1>4 DEF WriteRequest, TypeOK, sidecarVars, dockerVars
<1> QED BY <1>1, <1>2, <1>3, <1>4

\* The steps of an update keep the types.
LEMMA UpdateType == ASSUME TypeOK, PerformUpdate PROVE TypeOK'
<1> USE Names, SystemUpdateAssumption
<1>1. CASE \/ WriteStatus("starting", "starting", "set tag")
           \/ WriteStatus("pulling", "pulling", "pull")
           \/ WriteStatus("pulled", "pulled", "recreating")
           \/ WriteStatus("recreating", "recreating", "stop")
           \/ WriteStatus("complete", "complete", "rest")
           \/ WriteStatus("failed", "error", "rest")
  BY <1>1, WriteStatusType
<1>2. CASE SetTag        BY <1>2 DEF SetTag, TypeOK, adminVars, dockerVars
<1>3. CASE Pull          BY <1>3 DEF Pull, TypeOK, adminVars, dockerVars
<1>4. CASE StopService
  <2>1. container' \in [Services -> {"up", "stopped", "absent"}]
    BY <1>4 DEF StopService, TypeOK
  <2>2. handler' \in [Client -> {"idle", "checked", "open", "detached"}]
    BY <1>4 DEF StopService, TypeOK
  <2> QED BY <1>4, <2>1, <2>2 DEF StopService, GoTo, TypeOK
<1>5. CASE RmService
  <2>1. container' \in [Services -> {"up", "stopped", "absent"}]
    BY <1>5 DEF RmService, TypeOK
  <2> QED BY <1>5, <2>1 DEF RmService, GoTo, TypeOK, adminVars
<1>6. CASE UpService
  <2>1. container' \in [Services -> {"up", "stopped", "absent"}]
    BY <1>6 DEF UpService, TypeOK, dockerVars
  <2>2. handler' \in [Client -> {"idle", "checked", "open", "detached"}]
    BY <1>6 DEF UpService, TypeOK
  <2>3. svc' \in 1 .. Len(SERVICES_TO_UPDATE)
    <3>1. svc \in 1 .. 4  BY FourServices DEF TypeOK
    <3>2. svc' = 1 \/ (svc < 4 /\ svc' = svc + 1)
      BY <1>6, FourServices DEF UpService, Advance
    <3> HIDE Names, SystemUpdateAssumption
    <3> QED BY <3>1, <3>2, FourServices
  <2>4. running' \in Tag \cup {NoTag}
    BY <1>6 DEF UpService, TypeOK, dockerVars
  <2>5. pc' \in Points
    BY <1>6 DEF UpService, Advance
  <2>6. pc' \notin {"read", "remove"}
    BY <1>6 DEF UpService, Advance
  <2> HIDE Names, SystemUpdateAssumption
  <2> QED BY <1>6, <2>1, <2>2, <2>3, <2>4, <2>5, <2>6 DEF UpService, TypeOK
<1> QED BY <1>1, <1>2, <1>3, <1>4, <1>5, <1>6 DEF PerformUpdate

\* And so does every step.
LEMMA StepType == TypeOK /\ [Next]_vars => TypeOK'
<1> SUFFICES ASSUME TypeOK, [Next]_vars PROVE TypeOK'
  OBVIOUS
<1>0. /\ "read" \in Points /\ "remove" \in Points /\ "starting" \in Points
      /\ "boot" \in Points /\ "poll" \in Points /\ "idle" \in Stages
      /\ 1 \in 1 .. Len(SERVICES_TO_UPDATE)
  <2>1. /\ "read" \in Points /\ "remove" \in Points /\ "starting" \in Points
        /\ "boot" \in Points /\ "poll" \in Points
    BY DEF Points, Updating
  <2>2. "idle" \in Stages  BY DEF Stages, AtRest
  <2>3. 1 \in 1 .. Len(SERVICES_TO_UPDATE)  BY FourServices
  <2> QED BY <2>1, <2>2, <2>3
<1>1. CASE Boot \/ WriteStatus("rest", "idle", "poll")
  BY <1>0, <1>1, WriteStatusType DEF Boot
<1>2. CASE Poll
  BY <1>0, <1>2 DEF Poll, GoTo, TypeOK, adminVars, dockerVars
<1>3. CASE ReadRequest
  <2>1. target' \in Tag \cup {NoTag}
    BY <1>3 DEF ReadRequest, GoTo, TypeOK
  <2> QED BY <1>0, <1>3, <2>1 DEF ReadRequest, GoTo, TypeOK, adminVars, dockerVars
<1>4. CASE RemoveRequest
  <2>1. handler' \in [Client -> {"idle", "checked", "open", "detached"}]
    BY <1>4 DEF RemoveRequest, TypeOK
  <2>2. started' \in Nat
    BY <1>4 DEF RemoveRequest, TypeOK
  <2> QED BY <1>0, <1>4, <2>1, <2>2 DEF RemoveRequest, GoTo, TypeOK, dockerVars
<1>5. CASE Crash
  <2>1. crashes' \in 0 .. MaxCrashes
    <3>1. crashes \in 0 .. MaxCrashes /\ crashes < MaxCrashes /\ crashes' = crashes + 1
      BY <1>5 DEF Crash, TypeOK
    <3> QED BY <3>1, SystemUpdateAssumption
  <2> QED BY <1>0, <1>5, <2>1 DEF Crash, TypeOK, adminVars, dockerVars
<1>6. CASE UNCHANGED vars
  BY <1>6 DEF vars, adminVars, sidecarVars, dockerVars, TypeOK
<1> QED BY <1>1, <1>2, <1>3, <1>4, <1>5, <1>6, CallerType, UpdateType DEF Next, Sidecar

\* The types hold at the start.
LEMMA InitType == Init => TypeOK
<1> SUFFICES ASSUME Init PROVE TypeOK
  OBVIOUS
<1>1. requested \in 0 .. MaxRequests /\ crashes \in 0 .. MaxCrashes
  BY SystemUpdateAssumption DEF Init
<1>2. "boot" \in Points /\ "idle" \in Stages /\ 1 \in 1 .. Len(SERVICES_TO_UPDATE)
  BY FourServices DEF Points, Stages, AtRest
<1>3. InitialTag \in Tag
  BY SystemUpdateAssumption
<1> QED BY <1>1, <1>2, <1>3 DEF Init, TypeOK

\* The two programs keep their files, tags and control points within their types.
THEOREM TypeCorrect == Spec => []TypeOK
BY InitType, StepType, PTL DEF Spec

-----------------------------------------------------------------------------
(* At most one update for a request *)

\* A call that is writing has its file in place: what it writes is no new request.
OpenIsThere == \A c \in Client : handler[c] = "open" => request # "absent"

OnceInv == TypeOK /\ AtMostOnce /\ OpenIsThere

\* Most steps neither open, take nor count a request.
LEMMA QuietOnce ==
    ASSUME OnceInv, UNCHANGED <<request, requested, started>>,
           pc' \in {"read", "remove"} => request # "absent" \/ pc \in {"read", "remove"},
           \A c \in Client : handler'[c] = "open" => handler[c] = "open"
    PROVE  AtMostOnce' /\ OpenIsThere'
BY DEF OnceInv, AtMostOnce, OpenIsThere

\* A status write is one of them.
LEMMA WriteStatusOnce ==
    ASSUME OnceInv, NEW at, NEW stage, NEW next, next \notin {"read", "remove"},
           WriteStatus(at, stage, next)
    PROVE  AtMostOnce' /\ OpenIsThere'
BY QuietOnce DEF WriteStatus, adminVars

\* A call of requestUpdate opens at most one file, and counts it.
LEMMA CallerOnce ==
    ASSUME OnceInv, NEW c \in Client,
           CheckStatus(c) \/ OpenRequest(c) \/ GiveUp(c) \/ WriteRequest(c)
    PROVE  AtMostOnce' /\ OpenIsThere'
<1>1. CASE CheckStatus(c)
  BY <1>1, QuietOnce DEF CheckStatus, OnceInv, TypeOK, sidecarVars
<1>2. CASE OpenRequest(c)
  <2>1. started' < requested'
    BY <1>2, SystemUpdateAssumption
       DEF OpenRequest, OnceInv, AtMostOnce, TypeOK, sidecarVars
  <2>2. request' # "absent"  BY <1>2 DEF OpenRequest
  <2>3. started' \in Nat /\ requested' \in Nat
    BY <1>2, SystemUpdateAssumption DEF OpenRequest, OnceInv, TypeOK, sidecarVars
  <2> QED BY <2>1, <2>2, <2>3 DEF AtMostOnce, OpenIsThere
<1>3. CASE GiveUp(c)
  BY <1>3, QuietOnce DEF GiveUp, OnceInv, TypeOK, sidecarVars
<1>4. CASE WriteRequest(c)
  <2>1. request # "absent" \/ request' = request
    BY <1>4 DEF WriteRequest, OnceInv, OpenIsThere
  <2>2. \A d \in Client : handler'[d] = "open" => handler[d] = "open"
    BY <1>4 DEF WriteRequest, OnceInv, TypeOK
  <2>3. request # "absent" => request' # "absent"
    BY <1>4, SystemUpdateAssumption DEF WriteRequest
  <2> QED BY <1>4, <2>1, <2>2, <2>3
          DEF WriteRequest, OnceInv, AtMostOnce, OpenIsThere, sidecarVars
<1> QED BY <1>1, <1>2, <1>3, <1>4

\* The sidecar counts an update only when it takes a request.
LEMMA SidecarOnce == ASSUME OnceInv, Sidecar PROVE AtMostOnce' /\ OpenIsThere'
<1>1. CASE Boot \/ WriteStatus("rest", "idle", "poll")
  BY <1>1, WriteStatusOnce DEF Boot
<1>2. CASE Poll
  BY <1>2, QuietOnce DEF Poll, GoTo, adminVars
<1>3. CASE ReadRequest
  BY <1>3, QuietOnce DEF ReadRequest, GoTo, adminVars
<1>4. CASE RemoveRequest
  <2>1. started' <= requested' /\ request' = "absent" /\ pc' = "starting"
    BY <1>4, SystemUpdateAssumption
       DEF RemoveRequest, GoTo, OnceInv, AtMostOnce, TypeOK
  <2>2. \A c \in Client : handler'[c] # "open"
    BY <1>4 DEF RemoveRequest, OnceInv, TypeOK
  <2> QED BY <2>1, <2>2 DEF AtMostOnce, OpenIsThere
<1>5. CASE PerformUpdate
  <2>1. CASE \/ WriteStatus("starting", "starting", "set tag")
             \/ WriteStatus("pulling", "pulling", "pull")
             \/ WriteStatus("pulled", "pulled", "recreating")
             \/ WriteStatus("recreating", "recreating", "stop")
             \/ WriteStatus("complete", "complete", "rest")
             \/ WriteStatus("failed", "error", "rest")
    BY <2>1, WriteStatusOnce
  <2>2. CASE SetTag       BY <2>2, QuietOnce DEF SetTag, adminVars
  <2>3. CASE Pull         BY <2>3, QuietOnce DEF Pull, adminVars
  <2>4. CASE StopService  BY <2>4, QuietOnce DEF StopService, GoTo
  <2>5. CASE RmService    BY <2>5, QuietOnce DEF RmService, GoTo, adminVars
  <2>6. CASE UpService    BY <2>6, QuietOnce DEF UpService, Advance
  <2> QED BY <1>5, <2>1, <2>2, <2>3, <2>4, <2>5, <2>6 DEF PerformUpdate
<1> QED BY <1>1, <1>2, <1>3, <1>4, <1>5 DEF Sidecar

\* Every step keeps it.
LEMMA OnceStep == OnceInv /\ [Next]_vars => OnceInv'
<1> SUFFICES ASSUME OnceInv, [Next]_vars PROVE OnceInv'
  OBVIOUS
<1>1. TypeOK'  BY StepType DEF OnceInv
<1>2. AtMostOnce' /\ OpenIsThere'
  <2>1. CASE Crash          BY <2>1, QuietOnce DEF Crash, adminVars
  <2>2. CASE UNCHANGED vars BY <2>2, QuietOnce DEF vars, adminVars, sidecarVars
  <2> QED BY <2>1, <2>2, CallerOnce, SidecarOnce DEF Next
<1> QED BY <1>1, <1>2 DEF OnceInv

\* No request file starts two updates, whatever crashes between the sidecar's steps.
THEOREM RequestStartsOneUpdate == Spec => []AtMostOnce
<1>1. Init => OnceInv
  BY InitType DEF Init, OnceInv, AtMostOnce, OpenIsThere
<1>2. OnceInv => AtMostOnce
  BY DEF OnceInv
<1> QED BY <1>1, <1>2, OnceStep, PTL DEF Spec

-----------------------------------------------------------------------------
(* A completed update is complete *)

InLoop == pc \in {"recreating", "stop", "rm", "up"}
BackUp(i) == container[SERVICES_TO_UPDATE[i]] = "up"
AllBack == (\A s \in Services : container[s] = "up") /\ running = compose

\* The loop has brought back what it has passed, and only its end leads to "complete".
LoopInv ==
    /\ InLoop => \A i \in 1 .. 4 : i < svc => BackUp(i)
    /\ InLoop /\ svc > 1 => running = compose
    /\ ~InLoop => svc = 1
    /\ pc = "complete" => AllBack
    /\ status = "complete" => AllBack /\ pc \in {"rest", "boot"}

\* The four services are different ones, the first is the admin server, and they are all.
LEMMA Order ==
    /\ \A i, j \in 1 .. 4 : SERVICES_TO_UPDATE[i] = SERVICES_TO_UPDATE[j] => i = j
    /\ \A i \in 1 .. 4 : SERVICES_TO_UPDATE[i] = "admin" <=> i = 1
    /\ \A s \in Services : \E i \in 1 .. 4 : s = SERVICES_TO_UPDATE[i]
<1>1. /\ SERVICES_TO_UPDATE[1] = "admin" /\ SERVICES_TO_UPDATE[2] = "mysql"
      /\ SERVICES_TO_UPDATE[3] = "redis" /\ SERVICES_TO_UPDATE[4] = "dozzle"
  BY DEF SERVICES_TO_UPDATE
<1>2. \A i \in 1 .. 4 : i = 1 \/ i = 2 \/ i = 3 \/ i = 4
  OBVIOUS
<1> QED BY <1>1, <1>2 DEF Services

\* A step that leaves the containers alone and stays out of the loop, or in it.
LEMMA QuietLoop ==
    ASSUME LoopInv, UNCHANGED <<svc, compose, container, running>>,
           InLoop' <=> InLoop, pc' # "complete",
           status' = "complete" => status = "complete" /\ pc' \in {"rest", "boot"}
    PROVE  LoopInv'
BY DEF LoopInv, InLoop, BackUp, AllBack

\* A status write says "complete" only where the loop has ended.
LEMMA WriteStatusLoop ==
    ASSUME LoopInv, NEW at, NEW stage, NEW next, WriteStatus(at, stage, next),
           next # "complete", stage = "complete" => at = "complete" /\ next = "rest",
           \/ at \in {"pulled", "recreating"} /\ next \in {"recreating", "stop"}
           \/ at \notin {"recreating", "stop", "rm", "up"}
              /\ next \notin {"recreating", "stop", "rm", "up"}
    PROVE  LoopInv'
<1>1. UNCHANGED <<svc, compose, container, running>>
  BY DEF WriteStatus, dockerVars
<1>2. CASE status' = "torn" /\ UNCHANGED pc
  BY <1>1, <1>2 DEF LoopInv, InLoop, BackUp, AllBack
<1>3. CASE status' = stage /\ pc = at /\ pc' = next
  BY <1>1, <1>3 DEF LoopInv, InLoop, BackUp, AllBack
<1> QED BY <1>2, <1>3 DEF WriteStatus

\* Stopping or removing the container the loop is at leaves those it has passed.
LEMMA DropLoop ==
    ASSUME TypeOK, LoopInv, pc \in {"stop", "rm"}, pc' \in {"rm", "up"},
           \A s \in Services \ {Service} : container'[s] = container[s],
           UNCHANGED <<svc, compose, running, status>>
    PROVE  LoopInv'
<1>1. svc \in 1 .. 4
  BY FourServices DEF TypeOK
<1>2. \A i \in 1 .. 4 : i < svc => SERVICES_TO_UPDATE[i] \in Services \ {Service}
  BY <1>1, FourServices, Order DEF Service
<1>3. \A i \in 1 .. 4 : i < svc => BackUp(i)'
  BY <1>2 DEF LoopInv, InLoop, BackUp
<1> QED BY <1>3 DEF LoopInv, InLoop

\* Starting it moves the loop on, and the last one ends it.
LEMMA UpLoop == ASSUME TypeOK, LoopInv, UpService PROVE LoopInv'
<1>1. svc \in 1 .. 4 /\ status # "complete" /\ InLoop
  BY FourServices DEF TypeOK, UpService, LoopInv, InLoop
<1>2. UNCHANGED <<compose, status>>
  BY DEF UpService
<1>3. CASE pc' = "failed" /\ svc' = 1
  BY <1>1, <1>2, <1>3 DEF LoopInv, InLoop
<1>4. CASE /\ container' = [container EXCEPT ![Service] = "up"]
           /\ running' = IF Service = "admin" THEN compose ELSE running
           /\ Advance
  <2>1. Service \in Services
    BY <1>1, FourServices DEF Service
  <2>2. \A i \in 1 .. 4 : i <= svc => container'[SERVICES_TO_UPDATE[i]] = "up"
    <3> SUFFICES ASSUME NEW i \in 1 .. 4, i <= svc
                 PROVE  container'[SERVICES_TO_UPDATE[i]] = "up"
      OBVIOUS
    <3>1. CASE i = svc
      BY <1>4, <2>1, <3>1 DEF Service, TypeOK
    <3>2. CASE i < svc
      <4>1. container[SERVICES_TO_UPDATE[i]] = "up"
        BY <1>1, <3>2 DEF LoopInv, BackUp
      <4>2. SERVICES_TO_UPDATE[i] \in Services
        BY FourServices
      <4> QED BY <1>4, <4>1, <4>2 DEF TypeOK
    <3> QED BY <1>1, <3>1, <3>2
  <2>3. running' = compose
    BY <1>1, <1>4, Order DEF Service, LoopInv
  <2>4. CASE svc < 4
    <3>1. pc' = "recreating" /\ svc' = svc + 1
      BY <1>4, <2>4, FourServices DEF Advance
    <3>2. \A i \in 1 .. 4 : i < svc' => BackUp(i)'
      BY <1>1, <2>2, <3>1 DEF BackUp
    <3> QED BY <1>1, <1>2, <2>3, <3>1, <3>2 DEF LoopInv, InLoop
  <2>5. CASE svc = 4
    <3>1. pc' = "complete" /\ svc' = 1
      BY <1>4, <2>5, FourServices DEF Advance
    <3>2. \A s \in Services : container'[s] = "up"
      BY <2>2, <2>5, Order
    <3> QED BY <1>1, <1>2, <2>3, <3>1, <3>2 DEF LoopInv, InLoop, AllBack
  <2> QED BY <1>1, <2>4, <2>5
<1> QED BY <1>3, <1>4 DEF UpService

\* Every step of the sidecar keeps what the loop has done.
LEMMA SidecarLoop == ASSUME TypeOK, LoopInv, Sidecar PROVE LoopInv'
<1>1. CASE Boot \/ WriteStatus("rest", "idle", "poll")
  BY <1>1, WriteStatusLoop DEF Boot
<1>2. CASE Poll           BY <1>2, QuietLoop DEF Poll, GoTo, LoopInv, InLoop, dockerVars
<1>3. CASE ReadRequest
  BY <1>3, QuietLoop DEF ReadRequest, GoTo, LoopInv, InLoop, dockerVars
<1>4. CASE RemoveRequest
  BY <1>4, QuietLoop DEF RemoveRequest, GoTo, LoopInv, InLoop, dockerVars
<1>5. CASE PerformUpdate
  <2>1. CASE \/ WriteStatus("starting", "starting", "set tag")
             \/ WriteStatus("pulling", "pulling", "pull")
             \/ WriteStatus("pulled", "pulled", "recreating")
             \/ WriteStatus("recreating", "recreating", "stop")
             \/ WriteStatus("complete", "complete", "rest")
             \/ WriteStatus("failed", "error", "rest")
    BY <2>1, WriteStatusLoop
  <2>2. CASE SetTag
    BY <2>2 DEF SetTag, LoopInv, InLoop, dockerVars
  <2>3. CASE Pull
    BY <2>3, QuietLoop DEF Pull, LoopInv, InLoop, dockerVars
  <2>4. CASE StopService
    <3>1. \A s \in Services \ {Service} : container'[s] = container[s]
      BY <2>4 DEF StopService, TypeOK
    <3> QED BY <2>4, <3>1, DropLoop DEF StopService, GoTo
  <2>5. CASE RmService
    <3>1. \A s \in Services \ {Service} : container'[s] = container[s]
      BY <2>5 DEF RmService, TypeOK
    <3> QED BY <2>5, <3>1, DropLoop DEF RmService, GoTo
  <2>6. CASE UpService    BY <2>6, UpLoop
  <2> QED BY <1>5, <2>1, <2>2, <2>3, <2>4, <2>5, <2>6 DEF PerformUpdate
<1> QED BY <1>1, <1>2, <1>3, <1>4, <1>5 DEF Sidecar

\* While the status file says complete, every container is up and the admin server runs
\* the tag of compose.yml, whatever earlier updates, faults and crashes left behind.
THEOREM CompleteUpdate == Spec => []CompleteIsComplete
<1> DEFINE Inv == TypeOK /\ LoopInv
<1>1. Init => Inv
  <2> SUFFICES ASSUME Init PROVE LoopInv
    BY InitType
  <2> QED BY DEF Init, LoopInv, InLoop
<1>2. Inv /\ [Next]_vars => Inv'
  <2> SUFFICES ASSUME TypeOK, LoopInv, [Next]_vars PROVE Inv'
    OBVIOUS
  <2>1. TypeOK'  BY StepType
  <2>2. LoopInv'
    <3>1. ASSUME NEW c \in Client,
                 CheckStatus(c) \/ OpenRequest(c) \/ GiveUp(c) \/ WriteRequest(c)
          PROVE  LoopInv'
      <4>1. UNCHANGED <<pc, svc, compose, container, running, status>>
        BY <3>1 DEF CheckStatus, OpenRequest, GiveUp, WriteRequest, sidecarVars, dockerVars
      <4> QED BY <4>1 DEF LoopInv, InLoop, BackUp, AllBack
    <3>2. CASE Crash
      BY <3>2 DEF Crash, dockerVars, LoopInv, InLoop, AllBack
    <3>3. CASE UNCHANGED vars
      BY <3>3 DEF vars, sidecarVars, dockerVars, LoopInv, InLoop, BackUp, AllBack
    <3> QED BY <3>1, <3>2, <3>3, SidecarLoop DEF Next
  <2> QED BY <2>1, <2>2
<1>3. Inv => CompleteIsComplete
  BY DEF LoopInv, AllBack, CompleteIsComplete
<1> QED BY <1>1, <1>2, <1>3, PTL DEF Spec

-----------------------------------------------------------------------------
(* The two programs keep the protocol *)

\* What the status file says at each point, unless it is being written.
ShownInv ==
    /\ status = "torn" => pc \in {"boot", "rest", "starting", "pulling", "pulled",
                                  "recreating", "complete", "failed"}
    /\ pc \in {"poll", "read", "remove"} => status = "idle"
    /\ pc = "starting"             => status \in {"idle", "torn"}
    /\ pc = "set tag"              => status = "starting"
    /\ pc = "pulling"              => status \in {"starting", "torn"}
    /\ pc = "pull"                 => status = "pulling"
    /\ pc = "pulled"               => status \in {"pulling", "torn"}
    /\ pc = "recreating"           => status \in {"pulled", "recreating", "torn"}
    /\ pc \in {"stop", "rm", "up"} => status = "recreating"
    /\ pc = "complete"             => status \in {"recreating", "torn"}
    /\ pc = "failed"               => status \in {"starting", "pulling", "recreating", "torn"}
    /\ pc = "rest"                 => status \in {"complete", "error", "torn"}

ProtocolInv == OnceInv /\ ShownInv

\* A step that leaves the protocol's state alone.
LEMMA ProtocolStutter ==
    ASSUME UNCHANGED <<request, requested, started, crashes, pc, status>>
    PROVE  UNCHANGED Protocol!protocolVars
BY DEF Protocol!protocolVars, Announced

\* What the file says is kept by every status write, at the points where one is made.
LEMMA WriteStatusShown ==
    ASSUME ShownInv, TypeOK, NEW at, NEW stage, NEW next, WriteStatus(at, stage, next),
           <<at, stage, next>> \in
             {<<"boot", "idle", "poll">>, <<"rest", "idle", "poll">>,
              <<"starting", "starting", "set tag">>, <<"pulling", "pulling", "pull">>,
              <<"pulled", "pulled", "recreating">>, <<"recreating", "recreating", "stop">>,
              <<"complete", "complete", "rest">>, <<"failed", "error", "rest">>}
    PROVE  ShownInv' /\ Protocol!ProtocolNext
<1>1. UNCHANGED <<request, requested, started, crashes>>
  BY DEF WriteStatus, adminVars
<1>2. CASE status # "torn" /\ status' = "torn" /\ pc = at /\ pc' = pc
  <2>1. ShownInv'
    BY <1>2 DEF ShownInv
  <2>2. CASE pc \in {"boot", "rest"}
    <3>1. Protocol!Rest
      BY <1>1, <1>2, <2>2 DEF Protocol!Rest, Announced, Updating
    <3> QED BY <2>1, <3>1 DEF Protocol!ProtocolNext
  <2>3. CASE pc \in {"starting", "pulling", "pulled", "recreating", "complete", "failed"}
    <3>1. Announced' \in Protocol!Follows[status]
      <4>1. CASE pc = "starting"
        <5>1. status = "idle"        BY <1>2, <4>1 DEF ShownInv
        <5>2. Announced' = "starting"  BY <1>2, <4>1 DEF Announced
        <5> QED BY <5>1, <5>2 DEF Protocol!Follows
      <4>2. CASE pc = "pulling"
        BY <1>2, <4>2 DEF ShownInv, Announced, Protocol!Follows
      <4>3. CASE pc = "pulled"
        BY <1>2, <4>3 DEF ShownInv, Announced, Protocol!Follows
      <4>4. CASE pc = "recreating"
        BY <1>2, <4>4 DEF ShownInv, Announced, Protocol!Follows
      <4>5. CASE pc = "complete"
        BY <1>2, <4>5 DEF ShownInv, Announced, Protocol!Follows
      <4>6. CASE pc = "failed"
        BY <1>2, <4>6 DEF ShownInv, Announced, Protocol!Follows
      <4> QED BY <2>3, <4>1, <4>2, <4>3, <4>4, <4>5, <4>6
    <3>2. Protocol!Announce
      BY <1>1, <1>2, <2>3, <3>1 DEF Protocol!Announce, Updating
    <3> QED BY <2>1, <3>2 DEF Protocol!ProtocolNext
  <2> QED BY <1>2, <2>1, <2>2, <2>3
<1>3. CASE status = "torn" /\ status' = stage /\ pc = at /\ pc' = next
  <2>1. ShownInv'
    BY <1>3 DEF ShownInv
  <2>2. Announced = stage
    BY <1>3 DEF Announced
  <2>3. pc' \in Updating <=> pc \in Updating /\ stage \notin Protocol!Ends
    BY <1>3 DEF Updating, Protocol!Ends
  <2>4. stage # "torn"
    OBVIOUS
  <2>5. Protocol!Publish
    <3>1. ~(status # "torn") /\ (status # "torn")' = TRUE
      BY <1>3, <2>4
    <3>2. (IF pc \in Updating THEN "update" ELSE "none")' =
            IF stage \in Protocol!Ends
            THEN "none" ELSE IF pc \in Updating THEN "update" ELSE "none"
      BY <1>3 DEF Updating, Protocol!Ends
    <3>3. (IF status = "torn" THEN Announced ELSE status) = stage
      BY <1>3, <2>2
    <3>4. (IF status = "torn" THEN Announced ELSE status)' =
            (IF status = "torn" THEN Announced ELSE status)
      <4>1. (IF status = "torn" THEN Announced ELSE status)' = status'
        BY <1>3, <2>4
      <4> QED BY <1>3, <3>3, <4>1
    <3> QED BY <1>1, <3>1, <3>2, <3>3, <3>4 DEF Protocol!Publish
  <2> QED BY <2>1, <2>5 DEF Protocol!ProtocolNext
<1> QED BY <1>2, <1>3 DEF WriteStatus

\* The calls of requestUpdate ask, or change nothing the protocol knows of.
LEMMA CallerProtocol ==
    ASSUME ProtocolInv, NEW c \in Client,
           CheckStatus(c) \/ OpenRequest(c) \/ GiveUp(c) \/ WriteRequest(c)
    PROVE  ShownInv' /\ (Protocol!ProtocolNext \/ UNCHANGED Protocol!protocolVars)
<1>1. UNCHANGED <<pc, status, started, crashes>>
  BY DEF CheckStatus, OpenRequest, GiveUp, WriteRequest, sidecarVars
<1>2. ShownInv'
  BY <1>1 DEF ProtocolInv, ShownInv
<1>3. CASE OpenRequest(c)
  <2>1. Protocol!Ask
    BY <1>1, <1>3 DEF OpenRequest, Protocol!Ask, Announced
  <2> QED BY <1>2, <2>1 DEF Protocol!ProtocolNext
<1>4. CASE CheckStatus(c) \/ GiveUp(c)
  BY <1>1, <1>2, <1>4, ProtocolStutter DEF CheckStatus, GiveUp
<1>5. CASE WriteRequest(c)
  <2>1. requested' = requested /\ (request' # "absent" <=> request # "absent")
    BY <1>5, SystemUpdateAssumption DEF WriteRequest, ProtocolInv, OnceInv, OpenIsThere
  <2>2. UNCHANGED Protocol!protocolVars
    BY <1>1, <2>1 DEF Protocol!protocolVars, Announced
  <2> QED BY <1>2, <2>2
<1> QED BY <1>3, <1>4, <1>5

\* The sidecar takes, announces and publishes as the protocol says.
LEMMA SidecarProtocol ==
    ASSUME ProtocolInv, Sidecar
    PROVE  ShownInv' /\ (Protocol!ProtocolNext \/ UNCHANGED Protocol!protocolVars)
<1> USE DEF ProtocolInv
<1>0. TypeOK
  BY DEF OnceInv
<1>1. CASE Boot \/ WriteStatus("rest", "idle", "poll")
  BY <1>0, <1>1, WriteStatusShown DEF Boot
<1>2. CASE Poll \/ ReadRequest
  <2>1. UNCHANGED <<request, requested, started, crashes, status>>
    BY <1>2 DEF Poll, ReadRequest, adminVars
  <2>2. /\ pc \in {"poll", "read"} /\ pc' \in {"read", "remove"} /\ status = "idle"
        /\ ShownInv'
    BY <1>2, <2>1 DEF Poll, ReadRequest, GoTo, ShownInv
  <2>3. pc \notin Updating /\ pc' \notin Updating
    BY <2>2 DEF Updating
  <2>4. UNCHANGED Protocol!protocolVars
    BY <2>1, <2>2, <2>3 DEF Protocol!protocolVars
  <2> QED BY <2>2, <2>4
<1>3. CASE RemoveRequest
  <2>1. /\ pc = "remove" /\ pc' = "starting" /\ status = "idle" /\ status' = status
        /\ request # "absent" /\ request' = "absent" /\ started' = started + 1
        /\ UNCHANGED <<requested, crashes>>
    BY <1>0, <1>3 DEF RemoveRequest, GoTo, ShownInv, TypeOK
  <2>2. ShownInv'
    BY <2>1 DEF ShownInv
  <2>3. Protocol!Take
    BY <2>1 DEF Protocol!Take, Announced, Updating
  <2> QED BY <2>2, <2>3 DEF Protocol!ProtocolNext
<1>4. CASE \/ WriteStatus("starting", "starting", "set tag")
           \/ WriteStatus("pulling", "pulling", "pull")
           \/ WriteStatus("pulled", "pulled", "recreating")
           \/ WriteStatus("recreating", "recreating", "stop")
           \/ WriteStatus("complete", "complete", "rest")
           \/ WriteStatus("failed", "error", "rest")
  BY <1>0, <1>4, WriteStatusShown
<1>5. CASE SetTag \/ Pull \/ StopService \/ RmService \/ UpService
  <2>1. UNCHANGED <<request, requested, started, crashes, status>>
    BY <1>5 DEF SetTag, Pull, StopService, RmService, UpService, adminVars
  <2>2. pc \in {"set tag", "pull", "stop", "rm", "up"}
    BY <1>5 DEF SetTag, Pull, StopService, RmService, UpService, GoTo
  <2>3. \/ pc = "set tag" /\ pc' \in {"pulling", "failed"}
        \/ pc = "pull" /\ pc' \in {"pulled", "failed"}
        \/ pc = "stop" /\ pc' = "rm"
        \/ pc = "rm" /\ pc' = "up"
        \/ pc = "up" /\ pc' \in {"recreating", "complete", "failed"}
    BY <1>5 DEF SetTag, Pull, StopService, RmService, UpService, GoTo, Advance
  <2>4. ShownInv' /\ status # "torn"
    BY <2>1, <2>3 DEF ShownInv
  <2>5. pc \in Updating /\ pc' \in Updating
    BY <2>3 DEF Updating
  <2>6. UNCHANGED Protocol!protocolVars
    BY <2>1, <2>4, <2>5 DEF Protocol!protocolVars
  <2> QED BY <2>4, <2>6
<1> QED BY <1>1, <1>2, <1>3, <1>4, <1>5 DEF Sidecar, PerformUpdate

\* A crash gives the update up, and whatever stage was being written.
LEMMA CrashProtocol == ASSUME ProtocolInv, Crash PROVE ShownInv' /\ Protocol!ProtocolNext
<1>1. /\ pc' = "boot" /\ crashes' = crashes + 1
      /\ UNCHANGED <<request, requested, started, status>>
  BY DEF Crash, adminVars
<1>2. ShownInv'
  BY <1>1 DEF ShownInv
<1>3. Protocol!GiveUpUpdate
  BY <1>1 DEF Protocol!GiveUpUpdate, Announced, Updating
<1> QED BY <1>2, <1>3 DEF Protocol!ProtocolNext

\* For every number of callers, requests and crashes and every kind of fault, the request
\* and status files behave as the protocol says: what a watcher of the status may rely on.
THEOREM ImplementsProtocol == Spec => KeepsProtocol
<1>1. Init => ProtocolInv
  BY InitType DEF Init, ProtocolInv, OnceInv, AtMostOnce, OpenIsThere, ShownInv
<1>2. Init => Protocol!ProtocolInit
  BY DEF Init, Protocol!ProtocolInit, Announced, Updating
<1>3. ProtocolInv /\ [Next]_vars =>
        ProtocolInv' /\ [Protocol!ProtocolNext]_(Protocol!protocolVars)
  <2> SUFFICES ASSUME ProtocolInv, [Next]_vars
               PROVE  /\ ProtocolInv'
                      /\ Protocol!ProtocolNext \/ UNCHANGED Protocol!protocolVars
    OBVIOUS
  <2>1. OnceInv'
    BY OnceStep DEF ProtocolInv
  <2>2. ShownInv' /\ (Protocol!ProtocolNext \/ UNCHANGED Protocol!protocolVars)
    <3>1. CASE UNCHANGED vars
      <4>1. UNCHANGED <<request, requested, started, crashes, pc, status>>
        BY <3>1 DEF vars, adminVars, sidecarVars
      <4> QED BY <4>1, ProtocolStutter DEF ProtocolInv, ShownInv
    <3> QED BY <3>1, CallerProtocol, SidecarProtocol, CrashProtocol DEF Next
  <2> QED BY <2>1, <2>2 DEF ProtocolInv
<1> QED BY <1>1, <1>2, <1>3, PTL DEF Spec, KeepsProtocol, Protocol!ProtocolSpec
=============================================================================
