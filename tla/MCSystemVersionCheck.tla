------------------------ MODULE MCSystemVersionCheck ------------------------
(* An instance of SystemVersionCheck for TLC. *)
EXTENDS SystemVersionCheck, TLC

CONSTANTS f1

V(minor, pre) == [base |-> (1 :> 1) @@ (2 :> minor) @@ (3 :> 0), pre |-> pre, n |-> 0]

MCFirst == V(1, FALSE)
MCRelease == {MCFirst, V(2, TRUE), V(2, FALSE)}
=============================================================================
