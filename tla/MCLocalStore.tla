------------------------------ MODULE MCLocalStore ------------------------------
(***************************************************************************)
(* A small instance of LocalStore: two customers, one artifact.              *)
(***************************************************************************)
EXTENDS LocalStore

CONSTANTS c1, c2, j1, j2, jar, t1, t2, t3

Licence(op, c) == [op |-> op, customer |-> c, until |-> 0]
LicenceCalls == {Licence("create", c1), Licence("rotate", c1), Licence("revoke", c1),
                 Licence("create", c2)}

Artifact(op, b) == [op |-> op, path |-> jar, jar |-> b]
ArtifactCalls == {Artifact("put", j1), Artifact("put", j2), Artifact("delete", j1)}

\* The two uses of the store share nothing but its mutex.
Traffic == {LicenceCalls, ArtifactCalls}
=============================================================================
