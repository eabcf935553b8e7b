------------------------------ MODULE MCDownloads ------------------------------
(***************************************************************************)
(* A small instance of Downloads: one plugin with a premium version 1 on    *)
(* the shelf, two uploads of version 2, one customer, one reader.            *)
(***************************************************************************)
EXTENDS Downloads, TLC

CONSTANTS p1, j1, j2, jp, r1, r2, k1, k2, c1, x1

Slots == Permutations(Requests)

Do(op, v, b) == [op |-> op, plugin |-> p1, version |-> v, bundle |-> b]
OperatorCalls ==
    {Do("version", 2, j1), Do("version", 2, j2), Do("block", 1, j1), Do("block", 2, j1),
     Do("remove", 1, j1)}
PremiumShelved == {[plugin |-> p1, version |-> 1, bundle |-> jp]}

Licence(op) == [op |-> op, customer |-> c1, until |-> 1]
LicenceChanges == {Licence("create"), Licence("rotate"), Licence("revoke")}

Bearer(k, t, right) == [customer |-> c1, key |-> k, until |-> t, right |-> right]
Bearers == {Bearer(k1, 2, TRUE), Bearer(k1, 1, TRUE), Bearer(k2, 1, TRUE),
            Bearer(k1, 1, FALSE)}

Get(op, v, t) == [op |-> op, plugin |-> p1, version |-> v, token |-> t]
Reads ==
    {Get(op, 1, NoToken) : op \in ReadOps}
        \cup {Get(op, 2, NoToken) : op \in {"artifact", "version", "jar"}}
        \cup {Get("artifact", 1, t) : t \in Bearers}
=============================================================================
