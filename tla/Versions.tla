------------------------------ MODULE Versions ------------------------------
(***************************************************************************)
(* Version numbers: which of two is newer, and which of the tags of a      *)
(* registry a service is offered.  A tag is the version it spells: "1.2",  *)
(* "v1.2" and "1.2.0" are one.                                             *)
(***************************************************************************)
EXTENDS Naturals, FiniteSets

\* A part that is missing counts as 0; n is the number of a pre-release.
Version == [base : [1 .. 3 -> Nat], pre : BOOLEAN, n : Nat]

Tags == {v \in Version : ~v.pre /\ v.n = 0}

\* The first part that differs decides.
NewerBase(b, c) ==
    \E i \in 1 .. 3 : b[i] > c[i] /\ \A j \in 1 .. 3 : j < i => b[j] = c[j]

\* A release is newer than its pre-releases.
IsNewerVersion(v, w, includePreReleases) ==
    /\ includePreReleases \/ ~v.pre
    /\ \/ NewerBase(v.base, w.base)
       \/ /\ v.base = w.base
          /\ w.pre
          /\ v.pre => v.n > w.n

Newer(v, w) == IsNewerVersion(v, w, FALSE)

Major(v) == v.base[1]

\* Mutation: any newer tag will do.
CompatibleAnyMajor(tags, cur) == {t \in tags : Newer(t, cur)}

\* What a service at version cur can be updated to: never across a major version.
Compatible(tags, cur) == {t \in tags : Major(t) = Major(cur) /\ Newer(t, cur)}

\* Of the compatible tags only the newest few are looked up, and left out if they are
\* not made for this host; the others are in the list without a look.
AvailableUpdates(tags, cur, supported, maxArchChecks) ==
    LET compatible == Compatible(tags, cur)
        checked == {t \in compatible :
                      Cardinality({u \in compatible : Newer(u, t)}) < maxArchChecks}
    IN  (checked \cap supported) \cup (compatible \ checked)

\* Mutation: the whole list.
LatestUpdateAll(updates) == updates

\* The first of the list, which is sorted, as a set of at most one tag.
LatestUpdate(updates) == {t \in updates : \A u \in updates : ~Newer(u, t)}
=============================================================================
