------------------------------- MODULE Registry -------------------------------
(***************************************************************************)
(* The registry core of service-marketplace: the operator requests that    *)
(* change the catalogue (internal/publish, internal/lifecycle), the        *)
(* background orphan cleanup, and the object store they all work on.       *)
(*                                                                         *)
(* A request is a sequence of object-store calls; every call is one step   *)
(* here, and the steps of the requests in flight and of the cleanup        *)
(* interleave freely.  There is no lock above the store: what keeps the    *)
(* requests apart is the generation precondition of ObjectStore.Write.     *)
(*                                                                         *)
(* A jar and everything read out of it (manifest, compatibility range,     *)
(* SHA-256) is one element of Bundles, so "the SHA-256 of jar b" and "the  *)
(* manifest of jar b" are both b.  Versions are ranks: CompareVersions is  *)
(* the order of the naturals.                                              *)
(***************************************************************************)
EXTENDS Naturals, FiniteSets, Sequences

CONSTANTS
    Plugins,      \* plugin ids
    Versions,     \* versions, as ranks above 0
    Bundles,      \* jars that may be uploaded
    Premium,      \* the jars whose manifest says access: premium
    Noted,        \* the bundles that carry a changelog or screenshots
    Requests,     \* request slots: each serves at most one HTTP request
    Calls,        \* the requests a client may send
    Shelf,        \* versions cleanly published before the model starts
    Sweeping,     \* does the orphan cleanup run?
    FaultKinds,   \* which faults happen: see below, at each fault
    MaxFaults,    \* bound: how many of them
    MaxAttempts,  \* maxAttempts of WriteWithRetry (5 in every caller)
    MaxInFlight,  \* bound: requests in progress at the same time
    NoBundle,     \* no object at a path
    NoPlugin      \* no plugin row under construction

PublishOps == {"first", "version", "ci"}
Ops == PublishOps \cup {"block", "advise", "tier", "remove", "rebuild"}

\* Fields an operation does not use are ignored.
Call == [op : Ops, plugin : Plugins, version : Versions, bundle : Bundles]

ASSUME DataAssumption ==
    /\ NoBundle \notin Bundles
    /\ NoPlugin \notin Plugins
    /\ Premium \subseteq Bundles
    /\ Noted \subseteq Bundles
    /\ Calls \subseteq Call /\ Calls # {}
    /\ Plugins # {} /\ Bundles # {} /\ Versions # {}

\* Any set of versions a plugin lists has a highest one (it is finite).
ASSUME VersionsAssumption ==
    /\ Versions \subseteq Nat \ {0}
    /\ \A S \in SUBSET Versions :
          S # {} => \E top \in S : \A v \in S : v <= top

\* A version is put on the shelf once.
ASSUME ShelfAssumption ==
    /\ Shelf \subseteq [plugin : Plugins, version : Versions, bundle : Bundles]
    /\ \A s, t \in Shelf :
          s.plugin = t.plugin /\ s.version = t.version => s = t

ASSUME BoundAssumption ==
    /\ Sweeping \in BOOLEAN
    /\ MaxAttempts \in Nat \ {0}
    /\ MaxFaults \in Nat
    /\ MaxInFlight \in Nat

VARIABLES
    plugin,   \* plugin.json of each plugin: its generation and its document
    files,    \* the objects of each version: jar, manifest, notes
    index,    \* index.json: its generation and a row for each plugin
    pc,       \* where each request is in its handler
    call,     \* what each request asks for
    mem,      \* what each request has read so far
    reply,    \* how each request was answered
    sweep,    \* the orphan cleanup's progress
    faults    \* the kinds of the faults that have happened, in order

vars == <<plugin, files, index, pc, call, mem, reply, sweep, faults>>

-----------------------------------------------------------------------------
(* Documents and paths. *)

NoVersion == 0

Doc == [versions : [Versions -> Bundles \cup {NoBundle}],
        blocked  : SUBSET Versions,
        advised  : SUBSET Versions,
        latest   : Versions \cup {NoVersion},
        removed  : BOOLEAN]

EmptyDoc == [versions |-> [v \in Versions |-> NoBundle],
             blocked  |-> {},
             advised  |-> {},
             latest   |-> NoVersion,
             removed  |-> FALSE]

Listed(d) == {v \in Versions : d.versions[v] # NoBundle}

\* The newest version that is not blocked, or none when every version is.
LatestInstallable(listed, blocked) ==
    IF listed \ blocked = {} THEN NoVersion
    ELSE CHOOSE top \in listed \ blocked : \A v \in listed \ blocked : v <= top

\* Premium jars live under private/plugins/, everything else under plugins/.
Kinds == {"public", "premium", "manifest", "notes"}
Paths == [kind : Kinds, plugin : Plugins, version : Versions]

PathOf(k, p, v) == [kind |-> k, plugin |-> p, version |-> v]
Access(b) == IF b \in Premium THEN "premium" ELSE "public"
ManifestPath(p, v) == PathOf("manifest", p, v)
JarPath(p, v, b) == PathOf(Access(b), p, v)

\* What ListPrefix("plugins/...") returns besides the plugin.json objects.
Browsable == {f \in Paths : f.kind # "premium" /\ files[f] # NoBundle}

Rows == [Plugins -> Versions \cup {NoVersion}]
NoRows == [p \in Plugins |-> NoVersion]

-----------------------------------------------------------------------------
(* What a request knows, and how it moves on. *)

Idle == [seen |-> [gen |-> 0, doc |-> EmptyDoc], tries |-> 0, todo |-> {},
         scan |-> {}, at |-> NoPlugin, rows |-> NoRows, gen |-> 0]

Active == {r \in Requests : pc[r] \notin {"idle", "done"}}
Busy == Cardinality(Active) + (IF sweep.on THEN 1 ELSE 0)

Goto(r, there) ==
    /\ pc' = [pc EXCEPT ![r] = there]
    /\ UNCHANGED <<call, reply, sweep, faults>>

End(r, code) ==
    /\ pc' = [pc EXCEPT ![r] = "done"]
    /\ reply' = [reply EXCEPT ![r] = code]
    /\ mem' = [mem EXCEPT ![r] = Idle]
    /\ UNCHANGED <<call, sweep>>

Answer(r, code) == End(r, code) /\ UNCHANGED faults

\* Variant with a bug: the write carries no precondition.
CreateOrReplace(f, b) == files' = [files EXCEPT ![f] = b]

\* A write with expectedGen 0: it succeeds only where there is no object.
Create(f, b) ==
    /\ files[f] = NoBundle
    /\ files' = [files EXCEPT ![f] = b]

Erase(f) == files' = [files EXCEPT ![f] = NoBundle]

-----------------------------------------------------------------------------
(* A client sends a request: the handler starts with the first store call. *)

FirstStep(c) ==
    IF c.op \in PublishOps THEN "check"
    ELSE IF c.op = "rebuild" THEN "list" ELSE "load"

Start(r, c) ==
    /\ pc[r] = "idle"
    /\ Busy < MaxInFlight
    /\ call' = [call EXCEPT ![r] = c]
    /\ pc' = [pc EXCEPT ![r] = FirstStep(c)]
    /\ UNCHANGED <<plugin, files, index, mem, reply, sweep, faults>>

-----------------------------------------------------------------------------
(* Publish: PublishFirst and PublishVersion, then publish. *)

\* Variant with a bug: a removed plugin takes a new version.
CheckOnlyPresence(r) ==
    LET c == call[r]
        absent == plugin[c.plugin].gen = 0
    IN  /\ pc[r] = "check"
        /\ \/ /\ IF absent THEN c.op = "version" ELSE c.op = "first"
              /\ Answer(r, IF absent THEN "notFound" ELSE "conflict")
           \/ /\ ~IF absent THEN c.op = "version" ELSE c.op = "first"
              /\ Goto(r, "jar") /\ UNCHANGED mem
        /\ UNCHANGED <<plugin, files, index>>

\* PublishFirst and PublishVersion read plugin.json.  "ci" is PublishVersion
\* for an OIDC caller, who may create the plugin.
Check(r) ==
    LET c == call[r]
        absent == plugin[c.plugin].gen = 0
        d == plugin[c.plugin].doc
    IN  /\ pc[r] = "check"
        /\ \/ c.op = "first" /\ ~absent /\ Answer(r, "conflict")
           \/ /\ absent /\ c.op \in {"first", "ci"}
              /\ Goto(r, "jar") /\ UNCHANGED mem
           \/ /\ c.op # "first"
              /\ IF absent THEN c.op = "version" ELSE d.removed
              /\ Answer(r, "notFound")
           \/ /\ c.op # "first" /\ ~absent /\ ~d.removed
              /\ Goto(r, IF c.version \in Listed(d) THEN "probe" ELSE "jar")
              /\ UNCHANGED mem
        /\ UNCHANGED <<plugin, files, index>>

\* A listed version is a conflict only when its artifact, at the path the
\* uploaded manifest's access selects, exists.
Probe(r) ==
    LET c == call[r]
    IN  /\ pc[r] = "probe"
        /\ IF files[JarPath(c.plugin, c.version, c.bundle)] # NoBundle
           THEN Answer(r, "conflict")
           ELSE Goto(r, "jar") /\ UNCHANGED mem
        /\ UNCHANGED <<plugin, files, index>>

\* The jar is written if absent; one that is already there is kept.
PutJar(r) ==
    LET c == call[r]
        f == JarPath(c.plugin, c.version, c.bundle)
    IN  /\ pc[r] = "jar"
        /\ \/ Create(f, c.bundle)
           \/ files[f] # NoBundle /\ UNCHANGED files
        /\ Goto(r, "manifest")
        /\ UNCHANGED <<plugin, index, mem>>

\* Variant with a bug: a manifest that is already there is kept, like the jar.
PutManifestIfAbsent(r) ==
    LET c == call[r]
        f == ManifestPath(c.plugin, c.version)
    IN  /\ pc[r] = "manifest"
        /\ \/ Create(f, c.bundle)
           \/ files[f] # NoBundle /\ UNCHANGED files
        /\ Goto(r, "load")
        /\ UNCHANGED <<plugin, index, mem>>

\* The manifest must be absent: a conflict is the request's answer.
PutManifest(r) ==
    LET c == call[r]
        f == ManifestPath(c.plugin, c.version)
    IN  /\ pc[r] = "manifest"
        /\ \/ /\ Create(f, c.bundle)
              /\ Goto(r, IF c.bundle \in Noted THEN "notes" ELSE "load")
              /\ UNCHANGED mem
           \/ /\ files[f] # NoBundle /\ UNCHANGED files
              /\ Answer(r, "storageConflict")
        /\ UNCHANGED <<plugin, index>>

\* The changelog and the screenshots, as one object.
PutNotes(r) ==
    LET c == call[r]
        f == PathOf("notes", c.plugin, c.version)
    IN  /\ pc[r] = "notes"
        /\ \/ Create(f, c.bundle) /\ Goto(r, "load") /\ UNCHANGED mem
           \/ /\ files[f] # NoBundle /\ UNCHANGED files
              /\ Answer(r, "storageConflict")
        /\ UNCHANGED <<plugin, index>>

-----------------------------------------------------------------------------
(* plugin.json is changed through WriteWithRetry: read it, compute the new  *)
(* document, write it if the generation is still the one read, else again.  *)

Recomputed(d) == [d EXCEPT !.latest = LatestInstallable(Listed(d), d.blocked)]

\* Variant with a bug: latest is only ever raised, by a publish.
MutateRaising(c, d) ==
    CASE c.op \in PublishOps ->
            [d EXCEPT !.versions[c.version] = c.bundle,
                      !.latest = IF c.version > @ THEN c.version ELSE @]
      [] c.op = "block" -> [d EXCEPT !.blocked = @ \cup {c.version}]
      [] c.op = "advise" -> [d EXCEPT !.advised = @ \cup {c.version}]
      [] c.op = "remove" -> [d EXCEPT !.removed = TRUE]
      [] OTHER -> d

\* Variant with a bug: the tombstone replaces the document.
MutateForgetting(c, d) ==
    CASE c.op \in PublishOps ->
            Recomputed([d EXCEPT !.versions[c.version] = c.bundle])
      [] c.op = "block" ->
            Recomputed([d EXCEPT !.blocked = @ \cup {c.version}])
      [] c.op = "advise" -> [d EXCEPT !.advised = @ \cup {c.version}]
      [] c.op = "remove" -> [EmptyDoc EXCEPT !.removed = TRUE]
      [] OTHER -> d

\* The document a request writes.  Publishing does not look at d.removed.
Mutate(c, d) ==
    CASE c.op \in PublishOps ->
            Recomputed([d EXCEPT !.versions[c.version] = c.bundle])
      [] c.op = "block" ->
            Recomputed([d EXCEPT !.blocked = @ \cup {c.version}])
      [] c.op = "advise" -> [d EXCEPT !.advised = @ \cup {c.version}]
      [] c.op = "remove" -> [d EXCEPT !.removed = TRUE]
      [] OTHER -> d

\* Why a request refuses the document it has read; "" when it does not.
\* Unmarshalling an absent document fails, which only SetTier foresees.
Refusal(c, s) ==
    IF c.op \in PublishOps THEN ""
    ELSE IF s.gen = 0
         THEN IF c.op = "tier" THEN "notFound" ELSE "internalError"
    ELSE IF s.doc.removed
         THEN IF c.op = "remove" THEN "conflict" ELSE "notFound"
    ELSE IF c.op \in {"block", "advise"} /\ c.version \notin Listed(s.doc)
         THEN "notFound"
    ELSE IF c.op = "block" /\ c.version \in s.doc.blocked THEN "conflict"
    ELSE ""

\* Variant with a bug: a retry takes the new generation and keeps the document.
LoadGeneration(r) ==
    LET now == plugin[call[r].plugin]
    IN  /\ pc[r] = "load"
        /\ mem' = [mem EXCEPT ![r].seen =
                      IF mem[r].tries = 0 THEN now ELSE [@ EXCEPT !.gen = now.gen]]
        /\ Goto(r, "update")
        /\ UNCHANGED <<plugin, files, index>>

Load(r) ==
    /\ pc[r] = "load"
    /\ mem' = [mem EXCEPT ![r].seen = plugin[call[r].plugin]]
    /\ Goto(r, "update")
    /\ UNCHANGED <<plugin, files, index>>

\* Variant with a bug: the write does not compare generations.
CommitBlindly(r) ==
    LET p == call[r].plugin
        s == mem[r].seen
    IN  /\ Refusal(call[r], s) = ""
        /\ plugin' = [plugin EXCEPT ![p] =
              [gen |-> @.gen + 1, doc |-> Mutate(call[r], s.doc)]]

\* The request holds the current document and has no reason to refuse it.
Commit(r) ==
    LET p == call[r].plugin
        s == mem[r].seen
    IN  /\ Refusal(call[r], s) = ""
        /\ s.gen = plugin[p].gen
        /\ plugin' = [plugin EXCEPT ![p] =
              [gen |-> s.gen + 1, doc |-> Mutate(call[r], s.doc)]]

\* Variant with a bug: only a publish rebuilds the index at once.
AfterCommitLazily(c) ==
    CASE c.op = "remove"       -> "purge"
      [] c.op \in PublishOps   -> "list"
      [] OTHER                 -> "done"

\* Only an advisory leaves the index alone; a removal first deletes files.
AfterCommit(c) == IF c.op = "remove" THEN "purge" ELSE "list"

\* Variant with a bug: one attempt too many is counted.
RetryOnceMore(r, from, code) ==
    IF mem[r].tries = MaxAttempts
    THEN Answer(r, code)
    ELSE /\ Goto(r, from)
         /\ mem' = [mem EXCEPT ![r].tries = @ + 1]

\* After a conflict WriteWithRetry reads again, up to maxAttempts writes.
Retry(r, from, code) ==
    IF mem[r].tries + 1 = MaxAttempts
    THEN Answer(r, code)
    ELSE /\ Goto(r, from)
         /\ mem' = [mem EXCEPT ![r].tries = @ + 1]

Update(r) ==
    LET c == call[r]
        s == mem[r].seen
    IN  /\ pc[r] = "update"
        /\ \/ /\ Refusal(c, s) # "" /\ Answer(r, Refusal(c, s))
              /\ UNCHANGED plugin
           \/ /\ Commit(r)
              /\ IF c.op = "advise" THEN Answer(r, "ok")
                 ELSE /\ Goto(r, AfterCommit(c))
                      /\ mem' = [mem EXCEPT ![r] = Idle]
           \/ /\ Refusal(c, s) = "" /\ s.gen # plugin[c.plugin].gen
              /\ Retry(r, "load", "storageConflict")
              /\ UNCHANGED plugin
        /\ UNCHANGED <<files, index>>

-----------------------------------------------------------------------------
(* RemovePlugin, after the tombstone: list the plugin's objects and delete  *)
(* all but plugin.json.  The order of the listing is left open.             *)

ListToPurge(r) ==
    /\ pc[r] = "purge"
    /\ mem' = [mem EXCEPT ![r].todo =
                  {f \in Browsable : f.plugin = call[r].plugin}]
    /\ Goto(r, "delete")
    /\ UNCHANGED <<plugin, files, index>>

\* Variant with a bug: the loop stays on the object it has deleted.
DeleteAgain(r) ==
    /\ pc[r] = "delete"
    /\ \/ \E f \in mem[r].todo : Erase(f) /\ Goto(r, "delete") /\ UNCHANGED mem
       \/ mem[r].todo = {} /\ Goto(r, "list") /\ UNCHANGED <<files, mem>>
    /\ UNCHANGED <<plugin, index>>

DeleteNext(r) ==
    /\ pc[r] = "delete"
    /\ \/ \E f \in mem[r].todo :
             /\ Erase(f)
             /\ mem' = [mem EXCEPT ![r].todo = @ \ {f}]
             /\ Goto(r, "delete")
       \/ mem[r].todo = {} /\ Goto(r, "list") /\ UNCHANGED <<files, mem>>
    /\ UNCHANGED <<plugin, index>>

-----------------------------------------------------------------------------
(* rebuildIndex: list the plugins, read each one's plugin.json and the      *)
(* manifest of its latest version, then write index.json with what was      *)
(* read.  The order of the listing is left open.                            *)

\* SetTier and RemovePlugin ignore a failed rebuild.
RebuildFailed(c, code) == IF c.op \in {"tier", "remove"} THEN "ok" ELSE code

ListPlugins(r) ==
    /\ pc[r] = "list"
    /\ mem' = [mem EXCEPT ![r] =
                  [Idle EXCEPT !.scan = {p \in Plugins : plugin[p].gen > 0}]]
    /\ Goto(r, "row")
    /\ UNCHANGED <<plugin, files, index>>

\* Variant with a bug: a removed plugin keeps its row.
ReadStateOfRemoved(r) ==
    /\ pc[r] = "row"
    /\ \/ \E p \in mem[r].scan :
             LET d == plugin[p].doc
             IN  /\ mem' = [mem EXCEPT ![r].scan = @ \ {p},
                               ![r].rows[p] = d.latest]
                 /\ Goto(r, "row")
       \/ mem[r].scan = {} /\ Goto(r, "index") /\ UNCHANGED mem
    /\ UNCHANGED <<plugin, files, index>>

ReadState(r) ==
    /\ pc[r] = "row"
    /\ \/ \E p \in mem[r].scan :
             LET d == plugin[p].doc
                 skipped == d.removed \/ d.latest = NoVersion
             IN  /\ mem' = [mem EXCEPT ![r].scan = @ \ {p},
                               ![r].at = IF skipped THEN NoPlugin ELSE p,
                               ![r].rows[p] = IF skipped THEN NoVersion
                                              ELSE d.latest]
                 /\ Goto(r, IF skipped THEN "row" ELSE "row manifest")
       \/ mem[r].scan = {} /\ Goto(r, "index") /\ UNCHANGED mem
    /\ UNCHANGED <<plugin, files, index>>

\* A plugin whose latest version has no manifest gets no row.
ReadManifest(r) ==
    LET p == mem[r].at
        found == files[ManifestPath(p, mem[r].rows[p])] # NoBundle
    IN  /\ pc[r] = "row manifest"
        /\ mem' = [mem EXCEPT ![r].at = NoPlugin,
                      ![r].rows[p] = IF found THEN @ ELSE NoVersion]
        /\ Goto(r, "row")
        /\ UNCHANGED <<plugin, files, index>>

ReadIndex(r) ==
    /\ pc[r] = "index"
    /\ mem' = [mem EXCEPT ![r].gen = index.gen]
    /\ Goto(r, "write index")
    /\ UNCHANGED <<plugin, files, index>>

\* The rows were computed before the index was read: a retry rewrites them.
CommitIndex(r) ==
    /\ mem[r].gen = index.gen
    /\ index' = [gen |-> index.gen + 1, rows |-> mem[r].rows]

WriteIndex(r) ==
    /\ pc[r] = "write index"
    /\ \/ CommitIndex(r) /\ Answer(r, "ok")
       \/ /\ mem[r].gen # index.gen
          /\ Retry(r, "index", RebuildFailed(call[r], "storageConflict"))
          /\ UNCHANGED index
    /\ UNCHANGED <<plugin, files>>

-----------------------------------------------------------------------------
(* Faults.  Each counts against MaxFaults.                                  *)

Fault(kind) ==
    /\ kind \in FaultKinds
    /\ Len(faults) < MaxFaults
    /\ faults' = Append(faults, kind)

\* A request stops where it is: its replica crashed or its context ended.
Lost(r) ==
    /\ Fault("lost")
    /\ r \in Active
    /\ End(r, "lost")
    /\ UNCHANGED <<plugin, files, index>>

\* The steps of rebuildIndex that read one plugin, and the calls whose error
\* the handler drops.
Lenient == {"probe", "purge", "delete", "row", "row manifest"}

\* A store call fails, without effect, where the handler returns the error.
Refused(r) ==
    /\ Fault("refused")
    /\ r \in Active /\ pc[r] \notin Lenient
    /\ End(r, IF pc[r] \in {"list", "index", "write index"}
              THEN RebuildFailed(call[r], "unavailable")
              ELSE "unavailable")
    /\ UNCHANGED <<plugin, files, index>>

\* A store call fails where the handler goes on: Exists counts as "no", the
\* listing as empty, a file stays, a plugin gets no row.
Dropped(r) ==
    /\ Fault("dropped")
    /\ \/ /\ pc[r] = "probe"
          /\ pc' = [pc EXCEPT ![r] = "jar"] /\ UNCHANGED mem
       \/ /\ pc[r] = "purge"
          /\ pc' = [pc EXCEPT ![r] = "list"] /\ UNCHANGED mem
       \/ \E f \in mem[r].todo :
             /\ pc[r] = "delete" /\ UNCHANGED pc
             /\ mem' = [mem EXCEPT ![r].todo = @ \ {f}]
       \/ \E p \in mem[r].scan :
             /\ pc[r] = "row" /\ UNCHANGED pc
             /\ mem' = [mem EXCEPT ![r].scan = @ \ {p}]
       \/ /\ pc[r] = "row manifest"
          /\ pc' = [pc EXCEPT ![r] = "row"]
          /\ mem' = [mem EXCEPT ![r].rows[mem[r].at] = NoVersion,
                                ![r].at = NoPlugin]
    /\ UNCHANGED <<plugin, files, index, call, reply, sweep>>

\* A write takes effect and still returns an error: the local store's .gen
\* file or the bucket's Attrs call failed after the object was written.
Late(r) ==
    LET c == call[r]
        code == IF pc[r] = "write index"
                THEN RebuildFailed(c, "unavailable") ELSE "unavailable"
    IN  /\ Fault("late")
        /\ \/ /\ pc[r] = "jar"
              /\ Create(JarPath(c.plugin, c.version, c.bundle), c.bundle)
              /\ UNCHANGED <<plugin, index>>
           \/ /\ pc[r] = "manifest"
              /\ Create(ManifestPath(c.plugin, c.version), c.bundle)
              /\ UNCHANGED <<plugin, index>>
           \/ /\ pc[r] = "notes"
              /\ Create(PathOf("notes", c.plugin, c.version), c.bundle)
              /\ UNCHANGED <<plugin, index>>
           \/ /\ pc[r] = "update" /\ Commit(r)
              /\ UNCHANGED <<files, index>>
           \/ /\ pc[r] = "write index" /\ CommitIndex(r)
              /\ UNCHANGED <<plugin, files>>
        /\ End(r, code)

-----------------------------------------------------------------------------
(* The orphan cleanup: list the objects once, then for each one load its    *)
(* plugin.json and delete the object if its version is not listed.          *)

\* Variant with a bug: a plugin.json that is not there ends the check.
OrphanOfPlugin(f) ==
    LET s == plugin[f.plugin]
    IN  s.gen > 0 /\ ~s.doc.removed /\ f.version \notin Listed(s.doc)

\* What cleanupOrphans decides for an object, from the plugin.json it loads.
Orphan(f) ==
    LET s == plugin[f.plugin]
    IN  \/ s.gen = 0
        \/ ~s.doc.removed /\ f.version \notin Listed(s.doc)

NoSweep == [on |-> FALSE, todo |-> {}, doomed |-> {}]

SweepList ==
    /\ Sweeping /\ ~sweep.on
    /\ Busy < MaxInFlight
    /\ sweep' = [NoSweep EXCEPT !.on = TRUE, !.todo = Browsable]
    /\ UNCHANGED <<plugin, files, index, pc, call, mem, reply, faults>>

SweepLoad ==
    /\ sweep.on /\ sweep.doomed = {}
    /\ \E f \in sweep.todo :
          sweep' = [sweep EXCEPT !.todo = @ \ {f},
                                 !.doomed = IF Orphan(f) THEN {f} ELSE {}]
    /\ UNCHANGED <<plugin, files, index, pc, call, mem, reply, faults>>

SweepDelete ==
    /\ \E f \in sweep.doomed : Erase(f)
    /\ sweep' = [sweep EXCEPT !.doomed = {}]
    /\ UNCHANGED <<plugin, index, pc, call, mem, reply, faults>>

SweepEnd ==
    /\ sweep.on /\ sweep.doomed = {} /\ sweep.todo = {}
    /\ sweep' = NoSweep
    /\ UNCHANGED <<plugin, files, index, pc, call, mem, reply, faults>>

\* The replica crashes, or a load or a delete fails and is not repeated.
SweepLost ==
    /\ sweep.on
    /\ \/ Fault("lost") /\ sweep' = NoSweep
       \/ /\ Fault("missed") /\ sweep.doomed # {}
          /\ sweep' = [sweep EXCEPT !.doomed = {}]
    /\ UNCHANGED <<plugin, files, index, pc, call, mem, reply>>

-----------------------------------------------------------------------------
(* The specification.                                                      *)

Shelved(p, v) ==
    IF \E s \in Shelf : s.plugin = p /\ s.version = v
    THEN (CHOOSE s \in Shelf : s.plugin = p /\ s.version = v).bundle
    ELSE NoBundle

ShelfDoc(p) ==
    Recomputed([EmptyDoc EXCEPT !.versions = [v \in Versions |-> Shelved(p, v)]])

OnShelf(p) == \E s \in Shelf : s.plugin = p

\* What the publishes of the shelf, one after the other, leave behind.
Init ==
    /\ plugin = [p \in Plugins |->
                   [gen |-> IF OnShelf(p) THEN 1 ELSE 0, doc |-> ShelfDoc(p)]]
    /\ files = [f \in Paths |->
                  LET b == Shelved(f.plugin, f.version)
                      written == \/ f.kind = "manifest"
                                 \/ f.kind = Access(b)
                                 \/ f.kind = "notes" /\ b \in Noted
                  IN  IF written THEN b ELSE NoBundle]
    /\ index = [gen |-> IF Shelf = {} THEN 0 ELSE 1,
                rows |-> [p \in Plugins |-> ShelfDoc(p).latest]]
    /\ pc = [r \in Requests |-> "idle"]
    /\ call = [r \in Requests |-> CHOOSE c \in Calls : TRUE]
    /\ mem = [r \in Requests |-> Idle]
    /\ reply = [r \in Requests |-> ""]
    /\ sweep = NoSweep
    /\ faults = <<>>

\* The steps of a handler that is running.
Step(r) ==
    \/ Check(r) \/ Probe(r) \/ PutJar(r) \/ PutManifest(r) \/ PutNotes(r)
    \/ Load(r) \/ Update(r)
    \/ ListToPurge(r) \/ DeleteNext(r)
    \/ ListPlugins(r) \/ ReadState(r) \/ ReadManifest(r)
    \/ ReadIndex(r) \/ WriteIndex(r)

Sweep == SweepList \/ SweepLoad \/ SweepDelete \/ SweepEnd

Next ==
    \/ \E r \in Requests :
          \/ \E c \in Calls : Start(r, c)
          \/ Step(r)
          \/ Lost(r) \/ Refused(r) \/ Dropped(r) \/ Late(r)
    \/ Sweep
    \/ SweepLost

Spec == Init /\ [][Next]_vars

\* A running handler goes on until it answers, and the ticker keeps starting
\* the cleanup; clients and faults owe nothing.
Fairness ==
    /\ \A r \in Requests : WF_vars(Step(r))
    /\ WF_vars(Sweep)

FairSpec == Spec /\ Fairness

-----------------------------------------------------------------------------
(* Properties.                                                              *)

Pcs == {"idle", "check", "probe", "jar", "manifest", "notes", "load", "update",
        "purge", "delete", "list", "row", "row manifest", "index",
        "write index", "done"}

Replies == {"", "ok", "conflict", "notFound", "storageConflict",
            "internalError", "unavailable", "lost"}

Mem == [seen : [gen : Nat, doc : Doc], tries : 0 .. MaxAttempts - 1, todo : SUBSET Paths,
        scan : SUBSET Plugins, at : Plugins \cup {NoPlugin}, rows : Rows,
        gen : Nat]

\* Type correctness: every object in the store and everything a handler keeps
\* between two store calls is of the kind the code reads back.
TypeOK ==
    /\ plugin \in [Plugins -> [gen : Nat, doc : Doc]]
    /\ files \in [Paths -> Bundles \cup {NoBundle}]
    /\ index \in [gen : Nat, rows : Rows]
    /\ pc \in [Requests -> Pcs]
    /\ call \in [Requests -> Call]
    /\ mem \in [Requests -> Mem]
    /\ reply \in [Requests -> Replies]
    /\ sweep \in [on : BOOLEAN, todo : SUBSET Paths, doomed : SUBSET Paths]
    /\ faults \in Seq(FaultKinds)

\* The latest version a plugin.json names is the one its own lists give: after
\* every interleaving of publishes and blocks it is the highest listed version
\* that is not blocked (BlockVersion and publish both recompute it).
LatestFollowsLists ==
    \A p \in Plugins :
        LET d == plugin[p].doc
        IN  d.latest = LatestInstallable(Listed(d), d.blocked)

\* A plugin.json only gains: no request, however stale the document it read,
\* unlists a version, lifts a block or an advisory, or undoes a tombstone.
\* This is what the generation precondition of WriteWithRetry is for.
HistoryGrows ==
    [][\A p \in Plugins :
          LET d == plugin[p].doc
              e == plugin'[p].doc
          IN  /\ Listed(d) \subseteq Listed(e)
              /\ d.blocked \subseteq e.blocked
              /\ d.advised \subseteq e.advised
              /\ d.removed => e.removed]_vars

\* What a request that was answered with success did stays done, whatever the
\* requests that ran at the same time wrote to the same plugin.json.
AnsweredIsDurable ==
    \A r \in Requests :
        reply[r] = "ok" =>
            LET c == call[r]
                d == plugin[c.plugin].doc
            IN  CASE c.op \in PublishOps -> c.version \in Listed(d)
                  [] c.op = "block"      -> c.version \in d.blocked
                  [] c.op = "advise"     -> c.version \in d.advised
                  [] c.op = "remove"     -> d.removed
                  [] OTHER               -> TRUE

\* A version that a plugin lists is complete until the plugin is removed: its
\* manifest is the one the listed entry was copied from (the copy of the
\* compatibility range "can never drift"), and there is a jar where that
\* manifest's access says it is.  It holds as long as no cleanup runs.
ListedIsComplete ==
    \A p \in Plugins, v \in Versions :
        LET d == plugin[p].doc
            m == files[ManifestPath(p, v)]
        IN  v \in Listed(d) /\ ~d.removed =>
              /\ m = d.versions[v]
              /\ files[JarPath(p, v, m)] # NoBundle

\* Once listed, a version's manifest and the jar it points to never change
\* while the plugin is not removed, even if it is published again.
PublishedIsImmutable ==
    [][\A p \in Plugins, v \in Versions :
          LET m == files[ManifestPath(p, v)]
          IN  v \in Listed(plugin[p].doc) /\ ~plugin'[p].doc.removed =>
                /\ files'[ManifestPath(p, v)] = m
                /\ files'[JarPath(p, v, m)] = files[JarPath(p, v, m)]]_vars

\* The catalogue never names a version its plugin does not list, although the
\* rows are computed from documents that have changed by the time they are
\* written.
IndexNamesListed ==
    \A p \in Plugins :
        index.rows[p] # NoVersion => index.rows[p] \in Listed(plugin[p].doc)

\* The row a rebuild owes a plugin.
Row(p) ==
    LET d == plugin[p].doc
    IN  IF d.removed \/ d.latest = NoVersion
           \/ files[ManifestPath(p, d.latest)] = NoBundle
        THEN NoVersion
        ELSE d.latest

\* Whoever writes index.json writes what the plugin states say at that moment.
IndexWritesAreExact ==
    [][index' # index => \A p \in Plugins : index'.rows[p] = Row(p)]_vars

Removing(r, p) == call[r].op = "remove" /\ call[r].plugin = p

\* A publish of the version has passed its check of plugin.json and still has
\* objects to write while the plugin is being removed.
UploadMeetsRemoval(p, v) ==
    \E r, q \in Active :
        /\ call[r].plugin = p /\ call[r].version = v
        /\ pc[r] \in {"probe", "jar", "manifest", "notes"}
        /\ Removing(q, p)

\* If the plugin's removal was answered with success, no object of the version
\* is left where the removal looks for them: below plugins/, not private/plugins/.
RemovedFromPlugins(p, v) ==
    (\E r \in Requests : Removing(r, p) /\ reply[r] = "ok") =>
        \A f \in Browsable : f.plugin # p \/ f.version # v

\* No store call of a request has failed where its handler drops the error.
ErrorsAreSeen == \A i \in DOMAIN faults : faults[i] # "dropped"

\* A removal that was answered with success is final for every version that no
\* publish was uploading meanwhile, unless a store error was dropped: nothing of it
\* is left below plugins/ and nothing comes back, whatever else overlaps (publishes
\* of other versions or further on, a second removal, the cleanup) or was
\* interrupted before.  RemovalDeletesArtifacts is about all the artifacts.
RemovalIsFinal ==
    \A p \in Plugins, v \in Versions :
        [](~UploadMeetsRemoval(p, v) /\ ErrorsAreSeen) => []RemovedFromPlugins(p, v)

\* Every request is answered: no retry loop, listing or deletion goes on for
\* ever, whatever the other requests do.
Answered == \A r \in Requests : r \in Active ~> pc[r] = "done"

\* Objects of a version its plugin does not list.
Littered(p, v) ==
    /\ ~plugin[p].doc.removed /\ v \notin Listed(plugin[p].doc)
    /\ \E f \in Browsable : f.plugin = p /\ f.version = v

\* The objects left behind by a publish that did not finish are all deleted, or
\* their version gets listed, or its plugin is removed.  Premium jars are outside
\* the listing the cleanup works from.
OrphansAreSwept ==
    \A p \in Plugins, v \in Versions : Littered(p, v) ~> ~Littered(p, v)

-----------------------------------------------------------------------------
(* What the documentation says and the code does not do.                    *)

\* A removal answered with success has deleted the artifacts of the plugin,
\* every one of them.
RemovalDeletesArtifacts ==
    \A r \in Requests, p \in Plugins :
        Removing(r, p) /\ reply[r] = "ok" =>
            \A f \in Paths : f.plugin = p => files[f] = NoBundle

\* With no request in progress, the catalogue is the one the plugin states
\* give: it follows every publish, block and removal.  A request that was told of
\* an error is excused; a removal or a tier change whose rebuild failed is told
\* of none (RebuildFailed), and no run of this property has such failures.
CatalogueIsCurrent ==
    (/\ Active = {}
     /\ \A r \in Requests :
           reply[r] \notin {"lost", "unavailable", "storageConflict"}) =>
        \A p \in Plugins : index.rows[p] = Row(p)

\* A publish is not refused as a conflict when all that happened to its
\* version so far is the same publish, interrupted.
InterruptedPublishRetries ==
    \A r \in Requests :
        (reply[r] \in {"conflict", "storageConflict"} /\ call[r].op = "version")
            => \E s \in Requests \ {r} :
                  pc[s] # "idle" /\ (call[s] # call[r] \/ reply[s] # "lost")

=============================================================================
