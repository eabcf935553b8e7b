------------------------------ MODULE MCRegistry ------------------------------
(***************************************************************************)
(* Small instances of Registry: the calls each run lets clients send, and   *)
(* the versions already published when it starts.                           *)
(***************************************************************************)
EXTENDS Registry, TLC

CONSTANTS p1, p2, j1, j2, jp, r1, r2, r3

\* Interchangeable request slots; runs with a liveness property do not use it.
Slots == Permutations(Requests)

\* Fields the operation ignores get the smallest values there are.
Ask(op, p, v, b) == [op |-> op, plugin |-> p, version |-> v, bundle |-> b]

\* One plugin with version 1 on the shelf; two clients publish version 2, one
\* as a public and one as a premium jar, while the plugin is administered.
ConcurrentCalls ==
    {Ask("version", p1, 2, j1), Ask("ci", p1, 2, jp), Ask("block", p1, 2, j1),
     Ask("block", p1, 1, j1), Ask("advise", p1, 1, j1),
     Ask("remove", p1, 1, j1)}

OneShelved == {[plugin |-> p1, version |-> 1, bundle |-> j1]}

\* Two plugins, one request at a time.
SerialCalls ==
    {Ask("version", p1, 2, jp), Ask("first", p2, 1, j1), Ask("block", p1, 1, j1),
     Ask("tier", p1, 1, j1), Ask("remove", p1, 1, j1), Ask("rebuild", p1, 1, j1)}

\* Publishes that meet the orphan cleanup and a removal, and one of a plugin
\* that does not exist yet.
SweptCalls ==
    {Ask("ci", p1, 2, j2), Ask("ci", p2, 1, jp), Ask("remove", p1, 1, j1)}

PremiumShelved == {[plugin |-> p1, version |-> 1, bundle |-> jp]}

\* One publish, sent again and again.
RetryCalls == {Ask("version", p1, 2, j1)}

\* A premium version is published, and the plugin is removed.
RemovalCalls == {Ask("version", p1, 2, jp), Ask("remove", p1, 1, j1)}

\* A publish and a block of the same plugin.
StaleCalls == {Ask("version", p1, 2, j1), Ask("block", p1, 1, j1)}
=============================================================================
