-------------------------------- MODULE Updates --------------------------------
(***************************************************************************)
(* Registry, with a record of the calls of storage.WriteWithRetry that      *)
(* change a plugin.json: who has called it, what the document it was given   *)
(* last made of the call, and what it returned.  The record only watches     *)
(* the steps of Registry.  It shows that the plugin states are changed as    *)
(* AtomicDocument says.                                                      *)
(***************************************************************************)
EXTENDS Registry

VARIABLES
    asked,     \* what each request has called WriteWithRetry for
    verdict,   \* what fn said of the document it was given, or "performed"
    answered   \* what WriteWithRetry returned, "" before

record == <<asked, verdict, answered>>

InWriteWithRetry(r) == pc[r] \in {"load", "update"}
Entered(r) == ~InWriteWithRetry(r) /\ InWriteWithRetry(r)'
Left(r) == InWriteWithRetry(r) /\ ~InWriteWithRetry(r)'

\* A handler that goes on has got no error.
Returned(r) == IF pc'[r] = "done" THEN reply'[r] ELSE "ok"

\* The last thing fn said, and whether the write it allowed took place.
Verdict(r) ==
    IF pc[r] = "load" /\ pc'[r] = "update" THEN Refusal(call[r], mem'[r].seen)
    ELSE IF Left(r) THEN IF plugin' # plugin THEN "performed" ELSE ""
    ELSE verdict[r]

Record ==
    /\ asked' = [r \in Requests |->
                   IF Entered(r) THEN {call'[r]} ELSE asked[r]]
    /\ verdict' = [r \in Requests |-> Verdict(r)]
    /\ answered' = [r \in Requests |->
                      IF Left(r) THEN Returned(r) ELSE answered[r]]

RecordedInit ==
    /\ Init
    /\ asked = [r \in Requests |-> {}]
    /\ verdict = [r \in Requests |-> ""]
    /\ answered = [r \in Requests |-> ""]

RecordedNext == Next /\ Record

RecordedSpec == RecordedInit /\ [][RecordedNext]_<<vars, record>>

-----------------------------------------------------------------------------
(* The abstract document: every plugin.json there is.                       *)

ShelfPlugins == [p \in Plugins |->
                   [gen |-> IF OnShelf(p) THEN 1 ELSE 0, doc |-> ShelfDoc(p)]]

RefusalOf(c, plugins) == Refusal(c, plugins[c.plugin])

ResultOf(c, r, plugins) ==
    [plugins EXCEPT ![c.plugin] = [gen |-> @.gen + 1, doc |-> Mutate(c, @.doc)]]

States == INSTANCE AtomicDocument WITH
    Initial <- ShelfPlugins, Refusal <- RefusalOf, Result <- ResultOf,
    doc <- plugin

\* The plugin states change by whole updates, one at a time, each computed from
\* the state it replaces: whatever the requests do at the same time, no update
\* is lost or applied twice, a refusal was right when the state was read, and
\* a request that gave up after conflicts or was refused has changed nothing.
PluginStatesAreAtomic == States!Spec

\* Success means that the update took effect, also where the error of a later
\* step is dropped.
SuccessIsPerformed ==
    \A r \in Requests :
        reply[r] = "ok" /\ call[r].op # "rebuild" =>
            asked[r] = {call[r]} /\ verdict[r] = "performed" /\ answered[r] = "ok"

=============================================================================
