---------------------- MODULE ServiceUpdateCheckProofs ----------------------
(***************************************************************************)
(* Whatever jobs, dialogs and updates do to each other, a service stays    *)
(* within the major version it was installed with.  Every copy of a row,   *)
(* every offer and every choice that is still to be used is of that major: *)
(* this is the strengthening that makes MajorKept hold of a step that uses *)
(* what was read long before.                                              *)
(***************************************************************************)
EXTENDS ServiceUpdateCheck, TLAPS

-----------------------------------------------------------------------------
(* The order of versions: strict, and total on the tags of a registry, so that the      *)
(* newest of them is one tag.                                                           *)

Base == [1 .. 3 -> Nat]

\* The comparison, part by part.
LEMMA NewerBaseParts ==
    ASSUME NEW b \in Base, NEW c \in Base
    PROVE  NewerBase(b, c) <=> \/ b[1] > c[1]
                               \/ b[1] = c[1] /\ b[2] > c[2]
                               \/ b[1] = c[1] /\ b[2] = c[2] /\ b[3] > c[3]
<1>1. 1 .. 3 = {1, 2, 3}
  OBVIOUS
<1>2. \A i \in 1 .. 3 : b[i] \in Nat /\ c[i] \in Nat
  BY DEF Base
<1>3. ASSUME NEW i \in {1, 2, 3}, b[i] > c[i], \A j \in 1 .. 3 : j < i => b[j] = c[j]
      PROVE  \/ b[1] > c[1]
             \/ b[1] = c[1] /\ b[2] > c[2]
             \/ b[1] = c[1] /\ b[2] = c[2] /\ b[3] > c[3]
  <2>1. CASE i = 1
    BY <1>3, <2>1
  <2>2. CASE i = 2
    BY <1>3, <2>2, 1 \in 1 .. 3
  <2>3. CASE i = 3
    BY <1>3, <2>3, 1 \in 1 .. 3, 2 \in 1 .. 3
  <2> QED BY <2>1, <2>2, <2>3
<1>4. ASSUME b[1] > c[1] PROVE NewerBase(b, c)
  BY <1>1, <1>4 DEF NewerBase
<1>5. ASSUME b[1] = c[1], b[2] > c[2] PROVE NewerBase(b, c)
  <2>1. \A j \in 1 .. 3 : j < 2 => b[j] = c[j]
    BY <1>1, <1>5
  <2> QED BY <1>1, <1>5, <2>1 DEF NewerBase
<1>6. ASSUME b[1] = c[1], b[2] = c[2], b[3] > c[3] PROVE NewerBase(b, c)
  <2>1. \A j \in 1 .. 3 : j < 3 => b[j] = c[j]
    BY <1>1, <1>6
  <2> QED BY <1>1, <1>6, <2>1 DEF NewerBase
<1> QED BY <1>1, <1>3, <1>4, <1>5, <1>6 DEF NewerBase

LEMMA BaseIrreflexive == ASSUME NEW b \in Base PROVE ~NewerBase(b, b)
BY NewerBaseParts DEF Base

LEMMA BaseTransitive ==
    ASSUME NEW b \in Base, NEW c \in Base, NEW d \in Base, NewerBase(b, c), NewerBase(c, d)
    PROVE  NewerBase(b, d)
<1>1. \A i \in 1 .. 3 : b[i] \in Nat /\ c[i] \in Nat /\ d[i] \in Nat
  BY DEF Base
<1> QED BY <1>1, NewerBaseParts

LEMMA BaseTotal ==
    ASSUME NEW b \in Base, NEW c \in Base, b # c
    PROVE  NewerBase(b, c) \/ NewerBase(c, b)
<1>1. \A i \in 1 .. 3 : b[i] \in Nat /\ c[i] \in Nat
  BY DEF Base
<1>2. PICK i \in 1 .. 3 : b[i] # c[i]
  BY DEF Base
<1>3. \/ b[1] # c[1]
      \/ b[1] = c[1] /\ b[2] # c[2]
      \/ b[1] = c[1] /\ b[2] = c[2] /\ b[3] # c[3]
  BY <1>2
<1> QED BY <1>1, <1>3, NewerBaseParts

-----------------------------------------------------------------------------

\* isNewerVersion orders versions strictly, with pre-releases or without: none is newer
\* than itself, and what is newer than a newer one is newer (version.ts:7-37).  So the
\* sort of the registry's tags and the choice of a release have a newest first.
THEOREM NewerIsStrictOrder ==
    ASSUME NEW u \in Version, NEW v \in Version, NEW w \in Version, NEW include \in BOOLEAN
    PROVE  /\ ~IsNewerVersion(u, u, include)
           /\ IsNewerVersion(u, v, include) /\ IsNewerVersion(v, w, include)
                => IsNewerVersion(u, w, include)
<1>1. u.base \in Base /\ v.base \in Base /\ w.base \in Base
  BY DEF Version, Base
<1>2. u.n \in Nat /\ v.n \in Nat /\ w.n \in Nat
  BY DEF Version
<1>3. ~IsNewerVersion(u, u, include)
  BY <1>1, <1>2, BaseIrreflexive DEF IsNewerVersion
<1>4. ASSUME IsNewerVersion(u, v, include), IsNewerVersion(v, w, include)
      PROVE  IsNewerVersion(u, w, include)
  <2>1. CASE NewerBase(u.base, v.base) /\ NewerBase(v.base, w.base)
    BY <1>1, <1>4, <2>1, BaseTransitive DEF IsNewerVersion
  <2>2. CASE u.base = v.base \/ v.base = w.base
    BY <1>2, <1>4, <2>2 DEF IsNewerVersion
  <2> QED BY <1>4, <2>1, <2>2 DEF IsNewerVersion
<1> QED BY <1>3, <1>4

\* Of two tags of a registry one is newer.
LEMMA TagsTotal ==
    ASSUME NEW t \in Tags, NEW u \in Tags, t # u
    PROVE  Newer(t, u) \/ Newer(u, t)
<1>1. t.base \in Base /\ u.base \in Base /\ ~t.pre /\ ~u.pre /\ t.n = 0 /\ u.n = 0
  BY DEF Tags, Version, Base
<1>2. t.base # u.base
  BY <1>1 DEF Tags, Version
<1> QED BY <1>1, <1>2, BaseTotal DEF Newer, IsNewerVersion

\* Whatever a registry has, what is offered is one tag or none, and one that is newer than
\* the current version within its major (container_registry_service.ts:371-453).
THEOREM OfferIsOneCompatibleTag ==
    ASSUME NEW published \in SUBSET Tags, NEW cur, NEW supported, NEW max
    PROVE  LET listed == AvailableUpdates(published, cur, supported, max)
           IN  /\ listed \subseteq Compatible(published, cur)
               /\ \A t, u \in LatestUpdate(listed) : t = u
               /\ LatestUpdate(listed) \subseteq listed
<1> DEFINE listed == AvailableUpdates(published, cur, supported, max)
<1>1. listed \subseteq Compatible(published, cur)
  BY DEF AvailableUpdates
<1>2. Compatible(published, cur) \subseteq Tags
  BY DEF Compatible
<1>3. LatestUpdate(listed) \subseteq listed
  BY DEF LatestUpdate
<1>4. ASSUME NEW t \in LatestUpdate(listed), NEW u \in LatestUpdate(listed) PROVE t = u
  <2>1. ~Newer(t, u) /\ ~Newer(u, t) /\ t \in listed /\ u \in listed
    BY DEF LatestUpdate
  <2> QED BY <1>1, <1>2, <2>1, TagsTotal
<1> HIDE DEF listed
<1>5. \A t, u \in LatestUpdate(listed) : t = u
  BY <1>4
<1> QED BY <1>1, <1>3, <1>5 DEF listed

-----------------------------------------------------------------------------
(* Jobs, dialogs and updates *)

OfMajor(t) == Major(t) = Major(First)

RowsOfMajor ==
    \A s \in Service : OfMajor(image[s]) /\ \A t \in offer[s] : OfMajor(t)

ChecksOfMajor ==
    \A j \in Check : /\ \A s \in Service : OfMajor(seen[j][s].image)
                     /\ \A t \in found[j].latest : OfMajor(t)

ClientsOfMajor ==
    \A c \in Client : /\ \A t \in shown[c].versions : OfMajor(t)
                      /\ OfMajor(target[c])

MajorInv == TypeOK /\ RowsOfMajor /\ ChecksOfMajor /\ ClientsOfMajor

\* What an action does to the variables it changes, one group at a time.
LEMMA RowsSame == ASSUME MajorInv, UNCHANGED rowVars PROVE RowsOfMajor'
BY DEF MajorInv, RowsOfMajor, rowVars, OfMajor, Major

LEMMA ChecksSame == ASSUME MajorInv, UNCHANGED <<seen, found>> PROVE ChecksOfMajor'
BY DEF MajorInv, ChecksOfMajor, OfMajor, Major

LEMMA ClientsSame == ASSUME MajorInv, UNCHANGED <<shown, target>> PROVE ClientsOfMajor'
BY DEF MajorInv, ClientsOfMajor, OfMajor, Major

LEMMA FirstIsRelease == First \in Release /\ OfMajor(First)
BY CheckAssumption DEF OfMajor

\* What getAvailableUpdates lists for a version of the major is of the major, too, and its
\* newest is one release or none.
LEMMA UpdatesOfMajor ==
    ASSUME TypeOK, NEW s \in Service, NEW cur, OfMajor(cur)
    PROVE  /\ UpdatesFor(s, cur) \subseteq Release
           /\ \A t \in UpdatesFor(s, cur) : OfMajor(t)
           /\ LatestUpdate(UpdatesFor(s, cur)) \in Offer
           /\ \A t \in LatestUpdate(UpdatesFor(s, cur)) : OfMajor(t)
<1>1. tags[s] \subseteq Release /\ tags[s] \in SUBSET Tags
  BY CheckAssumption DEF TypeOK
<1> DEFINE listed == UpdatesFor(s, cur)
<1>2. /\ listed \subseteq Compatible(tags[s], cur)
      /\ \A t, u \in LatestUpdate(listed) : t = u
      /\ LatestUpdate(listed) \subseteq listed
  BY <1>1, OfferIsOneCompatibleTag DEF UpdatesFor
<1> HIDE DEF listed
<1>3. \A t \in listed : t \in Release /\ OfMajor(t)
  BY <1>1, <1>2 DEF Compatible, OfMajor
<1>4. LatestUpdate(listed) \in Offer
  <2>1. CASE LatestUpdate(listed) = {}
    BY <2>1 DEF Offer
  <2>2. CASE LatestUpdate(listed) # {}
    <3>1. PICK t \in LatestUpdate(listed) : TRUE
      BY <2>2
    <3>2. LatestUpdate(listed) = {t}
      BY <1>2, <3>1
    <3> QED BY <1>2, <1>3, <3>1, <3>2 DEF Offer
  <2> QED BY <2>1, <2>2
<1> QED BY <1>2, <1>3, <1>4 DEF listed

-----------------------------------------------------------------------------
(* The check jobs *)

LEMMA TakeInv == ASSUME MajorInv, NEW j \in Check, TakeCheck(j) PROVE MajorInv'
<1> USE DEF MajorInv
<1>1. \A s \in Service : RowOf(s) \in Row
  BY DEF TypeOK, RowOf, Row
<1>2. [s \in Service |-> RowOf(s)] \in [Service -> Row]
  BY <1>1
<1>3. TypeOK'
  BY <1>2 DEF TypeOK, TakeCheck, rowVars, clientVars, bounds
<1>4. ChecksOfMajor'
  <2> SUFFICES ASSUME NEW k \in Check
               PROVE  /\ \A s \in Service : OfMajor(seen'[k][s].image)
                      /\ \A t \in found'[k].latest : OfMajor(t)
    BY DEF ChecksOfMajor, OfMajor
  <2>1. CASE k = j
    BY <2>1 DEF TakeCheck, TypeOK, RowOf, ChecksOfMajor, RowsOfMajor
  <2>2. CASE k # j
    BY <2>2 DEF TakeCheck, TypeOK, ChecksOfMajor
  <2> QED BY <2>1, <2>2
<1> QED BY <1>3, <1>4, RowsSame, ClientsSame DEF TakeCheck, rowVars, clientVars

LEMMA AskInv ==
    ASSUME MajorInv, NEW j \in Check, NEW s \in Service, AskRegistry(j, s) PROVE MajorInv'
<1> USE DEF MajorInv
<1> DEFINE latest == LatestUpdate(UpdatesFor(s, seen[j][s].image))
<1>1. latest \in Offer /\ \A t \in latest : OfMajor(t)
  BY UpdatesOfMajor DEF ChecksOfMajor
<1>2. found' = [found EXCEPT ![j] = [service |-> s, latest |-> latest]]
  BY DEF AskRegistry
<1> HIDE DEF latest
<1>3. TypeOK'
  BY <1>1, <1>2 DEF TypeOK, AskRegistry, rowVars, clientVars, bounds
<1>4. ChecksOfMajor'
  BY <1>1, <1>2 DEF AskRegistry, TypeOK, ChecksOfMajor, OfMajor
<1> QED BY <1>3, <1>4, RowsSame, ClientsSame DEF AskRegistry, rowVars, clientVars

LEMMA FailsInv ==
    ASSUME MajorInv, NEW j \in Check, NEW s \in Service, RegistryFails(j, s) PROVE MajorInv'
<1>1. TypeOK'
  BY CheckAssumption DEF MajorInv, TypeOK, RegistryFails, rowVars, clientVars
<1> QED BY <1>1, RowsSame, ChecksSame, ClientsSame
        DEF MajorInv, RegistryFails, rowVars, clientVars

LEMMA SaveInv == ASSUME MajorInv, NEW j \in Check, SaveOffer(j) PROVE MajorInv'
<1> USE DEF MajorInv
<1> DEFINE s == found[j].service
<1>1. s \in Service /\ found[j].latest \in Offer /\ {} \in Offer
  BY DEF TypeOK, Offer
<1>2. \/ offer' = offer
      \/ offer' = [offer EXCEPT ![s] = found[j].latest]
  BY DEF SaveOffer
<1>3. found' = [found EXCEPT ![j].latest = {}]
  BY DEF SaveOffer
<1>4. TypeOK'
  <2>1. offer' \in [Service -> Offer]
    BY <1>1, <1>2 DEF TypeOK
  <2>2. found' \in [Check -> [service : Service, latest : Offer]]
    <3>1. found[j] \in [service : Service, latest : Offer] /\ {} \in Offer
      BY <1>1 DEF TypeOK
    <3>2. [found[j] EXCEPT !.latest = {}] \in [service : Service, latest : Offer]
      BY <3>1
    <3> QED BY <1>3, <3>2 DEF TypeOK
  <2>3. todo' \in [Check -> SUBSET Service] /\ check' \in [Check -> {"idle", "next", "save"}]
    BY DEF TypeOK, SaveOffer
  <2> QED BY <2>1, <2>2, <2>3 DEF TypeOK, SaveOffer, clientVars, bounds
<1>5. RowsOfMajor'
  BY <1>1, <1>2 DEF SaveOffer, RowsOfMajor, ChecksOfMajor, TypeOK, OfMajor
<1>6. ChecksOfMajor'
  BY <1>3 DEF SaveOffer, ChecksOfMajor, TypeOK, OfMajor
<1> QED BY <1>4, <1>5, <1>6, ClientsSame DEF SaveOffer, clientVars

LEMMA NoRowsType == NoRows \in [Service -> Row] /\ \A s \in Service : OfMajor(NoRows[s].image)
BY FirstIsRelease DEF NoRows, FirstRow, Row, Offer

LEMMA EndInv == ASSUME MajorInv, NEW j \in Check, EndCheck(j) PROVE MajorInv'
<1> USE DEF MajorInv
<1>1. TypeOK'
  BY NoRowsType DEF TypeOK, EndCheck, rowVars, clientVars, bounds
<1>2. ChecksOfMajor'
  BY NoRowsType DEF EndCheck, ChecksOfMajor, TypeOK, OfMajor
<1> QED BY <1>1, <1>2, RowsSame, ClientsSame DEF EndCheck, rowVars, clientVars

LEMMA RestartInv == ASSUME MajorInv, WorkerRestart PROVE MajorInv'
<1> USE DEF MajorInv
<1>1. found' \in [Check -> [service : Service, latest : Offer]]
  <2>1. ASSUME NEW j \in Check
        PROVE  [found[j] EXCEPT !.latest = {}] \in [service : Service, latest : Offer]
    <3>1. found[j] \in [service : Service, latest : Offer]
      BY DEF TypeOK
    <3>2. {} \in Offer
      BY DEF Offer
    <3> QED BY <3>1, <3>2
  <2> QED BY <2>1 DEF WorkerRestart
<1>2. TypeOK'
  BY <1>1, NoRowsType, CheckAssumption DEF TypeOK, WorkerRestart, rowVars, clientVars
<1>3. ChecksOfMajor'
  BY NoRowsType DEF WorkerRestart, ChecksOfMajor, TypeOK, OfMajor
<1> QED BY <1>2, <1>3, RowsSame, ClientsSame DEF WorkerRestart, rowVars, clientVars

-----------------------------------------------------------------------------
(* Users *)

LEMMA OpenInv ==
    ASSUME MajorInv, NEW c \in Client, NEW s \in Service, OpenDialog(c, s) PROVE MajorInv'
<1> USE DEF MajorInv
<1>1. offer[s] \subseteq Release
  BY SMTT(30) DEF TypeOK, Offer
<1>2. TypeOK'
  BY <1>1 DEF TypeOK, OpenDialog, rowVars, checkVars, bounds
<1>3. ClientsOfMajor'
  BY DEF OpenDialog, ClientsOfMajor, RowsOfMajor, TypeOK, OfMajor
<1> QED BY <1>2, <1>3, RowsSame, ChecksSame DEF OpenDialog, rowVars, checkVars

LEMMA LoadInv == ASSUME MajorInv, NEW c \in Client, LoadVersions(c) PROVE MajorInv'
<1> USE DEF MajorInv
<1> DEFINE s == shown[c].service
           listed == UpdatesFor(s, image[s])
<1>1. s \in Service
  BY DEF TypeOK
<1>2. listed \subseteq Release /\ \A t \in listed : OfMajor(t)
  BY <1>1, UpdatesOfMajor DEF RowsOfMajor
<1>3. shown' = [shown EXCEPT ![c].versions = @ \cup listed]
  BY DEF LoadVersions
<1> HIDE DEF listed
<1>4. TypeOK'
  BY <1>2, <1>3 DEF TypeOK, LoadVersions, rowVars, checkVars, bounds
<1>5. ClientsOfMajor'
  BY <1>2, <1>3 DEF LoadVersions, ClientsOfMajor, TypeOK, OfMajor
<1> QED BY <1>4, <1>5, RowsSame, ChecksSame DEF LoadVersions, rowVars, checkVars

LEMMA StartInv == ASSUME MajorInv, NEW c \in Client, StartUpdate(c) PROVE MajorInv'
<1> USE DEF MajorInv
<1>1. PICK t \in shown[c].versions : target' = [target EXCEPT ![c] = t]
  BY DEF StartUpdate
<1>2. t \in Release /\ OfMajor(t)
  BY DEF TypeOK, ClientsOfMajor
<1>3. shown[c].service \in Service
  BY DEF TypeOK
<1>4. RowOf(shown[c].service) \in Row
  BY <1>3 DEF TypeOK, RowOf, Row
<1>5. TypeOK'
  BY <1>1, <1>2, <1>4, CheckAssumption DEF TypeOK, StartUpdate, rowVars, checkVars
<1>6. ClientsOfMajor'
  BY <1>1, <1>2 DEF StartUpdate, ClientsOfMajor, TypeOK, OfMajor
<1> QED BY <1>5, <1>6, RowsSame, ChecksSame DEF StartUpdate, rowVars, checkVars

LEMMA EndUpdateInv ==
    ASSUME MajorInv, NEW c \in Client, EndUpdate(c)
    PROVE  /\ shown' \in [Client -> [service : Service, versions : SUBSET Release]]
           /\ update' \in [Client -> {"none", "running"}]
           /\ target' \in [Client -> Release] /\ row' \in [Client -> Row]
           /\ ClientsOfMajor'
<1> USE DEF MajorInv
<1>1. FirstRow \in Row
  BY FirstIsRelease DEF FirstRow, Row, Offer
<1>2. ClientsOfMajor'
  BY FirstIsRelease DEF EndUpdate, ClientsOfMajor, TypeOK, OfMajor
<1> QED BY <1>1, <1>2, FirstIsRelease DEF EndUpdate, TypeOK

LEMMA CompleteInv == ASSUME MajorInv, NEW c \in Client, CompleteUpdate(c) PROVE MajorInv'
<1> USE DEF MajorInv
<1> DEFINE s == shown[c].service
<1>1. s \in Service /\ target[c] \in Release /\ OfMajor(target[c]) /\ {} \in Offer
  BY DEF TypeOK, ClientsOfMajor, Offer
<1>2. /\ image' = [image EXCEPT ![s] = target[c]]
      /\ offer' = offer \/ offer' = [offer EXCEPT ![s] = {}]
      /\ EndUpdate(c)
  BY DEF CompleteUpdate
<1>3. TypeOK'
  BY <1>1, <1>2, EndUpdateInv DEF TypeOK, CompleteUpdate, checkVars, bounds
<1>4. RowsOfMajor'
  BY <1>1, <1>2 DEF RowsOfMajor, TypeOK, OfMajor
<1>5. ClientsOfMajor'
  BY <1>2, EndUpdateInv
<1> QED BY <1>3, <1>4, <1>5, ChecksSame DEF CompleteUpdate, checkVars

LEMMA FailInv == ASSUME MajorInv, NEW c \in Client, FailUpdate(c) PROVE MajorInv'
<1> USE DEF MajorInv
<1>1. EndUpdate(c)
  BY DEF FailUpdate
<1>2. TypeOK'
  BY <1>1, EndUpdateInv DEF TypeOK, FailUpdate, rowVars, checkVars, bounds
<1>3. ClientsOfMajor'
  BY <1>1, EndUpdateInv
<1> QED BY <1>2, <1>3, RowsSame, ChecksSame DEF FailUpdate, rowVars, checkVars

LEMMA PublishInv == ASSUME MajorInv, NEW s \in Service, Publish(s) PROVE MajorInv'
<1>1. TypeOK'
  BY DEF MajorInv, TypeOK, Publish, rowVars, checkVars, clientVars, bounds
<1> QED BY <1>1, RowsSame, ChecksSame, ClientsSame
        DEF MajorInv, Publish, rowVars, checkVars, clientVars

-----------------------------------------------------------------------------

LEMMA InitInv == ASSUME Init PROVE MajorInv
<1>1. PICK s \in Service :
        /\ found = [j \in Check |-> [service |-> s, latest |-> {}]]
        /\ shown = [c \in Client |-> [service |-> s, versions |-> {}]]
  BY DEF Init
<1>2. {} \in Offer /\ FirstRow \in Row /\ {First} \in SUBSET Release
  BY FirstIsRelease DEF Offer, FirstRow, Row
<1>3. TypeOK
  BY <1>1, <1>2, FirstIsRelease, NoRowsType, CheckAssumption DEF Init, TypeOK
<1>4. RowsOfMajor
  BY FirstIsRelease DEF Init, RowsOfMajor
<1>5. ChecksOfMajor
  BY <1>1, NoRowsType DEF Init, ChecksOfMajor
<1>6. ClientsOfMajor
  BY <1>1, FirstIsRelease DEF Init, ClientsOfMajor
<1> QED BY <1>3, <1>4, <1>5, <1>6 DEF MajorInv

LEMMA NextInv == ASSUME MajorInv, [Next]_vars PROVE MajorInv'
<1>1. ASSUME NEW s \in Service, Publish(s) PROVE MajorInv'
  BY <1>1, PublishInv
<1>2. ASSUME NEW j \in Check, TakeCheck(j) PROVE MajorInv'
  BY <1>2, TakeInv
<1>3. ASSUME NEW j \in Check, CheckStep(j) PROVE MajorInv'
  BY <1>3, SaveInv, EndInv, AskInv DEF CheckStep
<1>4. ASSUME NEW j \in Check, NEW s \in Service, RegistryFails(j, s) PROVE MajorInv'
  BY <1>4, FailsInv
<1>5. ASSUME WorkerRestart PROVE MajorInv'
  BY <1>5, RestartInv
<1>6. ASSUME NEW c \in Client, User(c) PROVE MajorInv'
  BY <1>6, OpenInv, LoadInv, StartInv, CompleteInv, FailInv DEF User
<1>7. ASSUME UNCHANGED vars PROVE MajorInv'
  <2>1. TypeOK'
    BY <1>7 DEF MajorInv, TypeOK, vars, rowVars, checkVars, clientVars, bounds
  <2> QED BY <1>7, <2>1, RowsSame, ChecksSame, ClientsSame
          DEF MajorInv, vars, rowVars, checkVars, clientVars
<1> QED BY <1>1, <1>2, <1>3, <1>4, <1>5, <1>6, <1>7 DEF Next

\* Every reachable state is well typed; an offer is one release or none, because the tags
\* of a registry are totally ordered (check_service_updates_job.ts:39).
THEOREM TypeCorrect == Spec => []TypeOK
<1>1. MajorInv => TypeOK
  BY DEF MajorInv
<1> QED BY <1>1, InitInv, NextInv, PTL DEF Spec

\* What is offered for a service is of the major version that is installed, for any
\* releases, jobs, browsers and failures (container_registry_service.ts:385-387).
THEOREM OffersKeepMajor == Spec => []OfferKeepsMajor
<1>1. MajorInv => OfferKeepsMajor
  BY DEF MajorInv, RowsOfMajor, OfferKeepsMajor, OfMajor
<1> QED BY <1>1, InitInv, NextInv, PTL DEF Spec

\* No update takes a service across a major version, though it uses a version that was
\* read, shown and chosen while others changed the row (docker_service.ts:828-987).
THEOREM UpdatesKeepMajor == Spec => MajorKept
<1>1. MajorInv /\ MajorInv' => \A s \in Service : Major(image'[s]) = Major(image[s])
  BY DEF MajorInv, RowsOfMajor, OfMajor
<1> QED BY <1>1, InitInv, NextInv, PTL DEF Spec, MajorKept
=============================================================================
