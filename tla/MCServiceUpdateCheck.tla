------------------------ MODULE MCServiceUpdateCheck ------------------------
(* Instances of ServiceUpdateCheck for TLC. *)
EXTENDS ServiceUpdateCheck, TLC

CONSTANTS s1, j1, j2, c1

V(major, minor, patch) ==
    [base |-> (1 :> major) @@ (2 :> minor) @@ (3 :> patch), pre |-> FALSE, n |-> 0]

\* Two updates of the first version, the newer one told apart by its last part, and a
\* version across the major.
MCFirst == V(1, 9, 0)
MCRelease == {MCFirst, V(1, 10, 0), V(1, 10, 1), V(2, 0, 0)}
=============================================================================
