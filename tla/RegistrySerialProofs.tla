------------------------- MODULE RegistrySerialProofs -------------------------
(***************************************************************************)
(* Two further properties of Registry, proved for every number of plugins,  *)
(* versions, jars and requests.                                             *)
(*                                                                         *)
(* A removal is final for every version that no publish was uploading while *)
(* the plugin was being removed: then a publish that still has objects of   *)
(* the version to write works for a plugin that is not removed (Opening),   *)
(* and a removal that is deleting has every object of the version on its    *)
(* list (Emptying).                                                         *)
(*                                                                         *)
(* The catalogue is exact when requests come one at a time, with the        *)
(* cleanup between them: nothing happens beside the request in progress     *)
(* (Apart), so what it has read is still so when it writes (InHand).  Every *)
(* listed version has its manifest (Complete), so a plugin's row depends    *)
(* on its plugin.json alone (RowIsOwed), and the catalogue can differ from  *)
(* the plugin states only between a commit and the write of the index.      *)
(***************************************************************************)
EXTENDS RegistryProofs, FiniteSetTheorems

\* One request or one cleanup at a time, and no store call that fails without
\* effect; a request may stop anywhere, and a write may fail after its effect.
OneAtATime ==
    /\ MaxInFlight = 1
    /\ "refused" \notin FaultKinds /\ "dropped" \notin FaultKinds

\* The hypothesis of RemovalIsFinal for one version.
Undisturbed(p, v) == ~UploadMeetsRemoval(p, v) /\ ErrorsAreSeen

-----------------------------------------------------------------------------
(* The inductive invariant, in parts. *)

\* A plugin.json that was never written lists nothing.
Absent ==
    \A p \in Plugins :
        plugin[p].gen = 0 =>
            Listed(plugin[p].doc) = {} /\ ~plugin[p].doc.removed

NothingOf(p, v) == \A f \in Browsable : f.plugin # p \/ f.version # v

\* Where only a publish is.
Early == {"check", "probe", "jar", "manifest", "notes"}

\* A publish that writes objects of the version works for a plugin that is not
\* removed.
Opening(r, p, v) ==
    call[r].plugin = p /\ call[r].version = v /\ pc[r] \in Early \ {"check"} =>
        ~plugin[p].doc.removed

\* A removal has all there is of the version still to delete, or there is nothing.
Emptying(r, p, v) ==
    /\ pc[r] = "delete" /\ call[r].plugin = p =>
          \A f \in Browsable : f.plugin = p /\ f.version = v => f \in mem[r].todo
    /\ Removing(r, p) /\ (pc[r] \in HoldsRows \cup {"list"} \/ reply[r] = "ok") =>
          NothingOf(p, v)

Removals(p, v) == \A r \in Requests : Opening(r, p, v) /\ Emptying(r, p, v)

Openings == \A r \in Requests, p \in Plugins, v \in Versions : Opening(r, p, v)

\* Only a publish uploads, and a removal deletes its own plugin's objects.
Rooted ==
    /\ Absent
    /\ \A r \in Requests : (pc[r] \in Early => call[r].op \in PublishOps) /\ DeletesOwn(r)

Apart ==
    /\ \A r, q \in Requests : r \in Active /\ q \in Active => r = q
    /\ sweep.on => Active = {}
    /\ sweep.doomed # {} => sweep.on

Complete ==
    \A p \in Plugins, v \in Versions :
        v \in Listed(plugin[p].doc) /\ ~plugin[p].doc.removed =>
            files[ManifestPath(p, v)] # NoBundle

\* What the cleanup is about to delete is still an orphan.
DoomedAreOrphans ==
    \A f \in sweep.doomed : f.version \notin Listed(plugin[f.plugin].doc)

Sheet == Complete /\ DoomedAreOrphans

\* The row of a plugin all of whose listed versions are complete.
Owed(p) == IF plugin[p].doc.removed THEN NoVersion ELSE plugin[p].doc.latest

\* A publish that lists its version has the manifest in place, and its plugin is
\* not removed.
Publishing(r) ==
    LET c == call[r]
    IN  pc[r] \in {"notes", "load", "update"} /\ c.op \in PublishOps =>
           /\ ~plugin[c.plugin].doc.removed
           /\ files[ManifestPath(c.plugin, c.version)] # NoBundle

\* The rows that were computed are the ones owed.
Rowing(r) ==
    LET m == mem[r]
    IN  /\ pc[r] = "row" => \A p \in Plugins \ m.scan : m.rows[p] = Owed(p)
        /\ pc[r] = "row manifest" =>
              /\ m.at \in Plugins /\ ~plugin[m.at].doc.removed
              /\ plugin[m.at].doc.latest # NoVersion
              /\ \A p \in Plugins \ m.scan : m.rows[p] = Owed(p)
              /\ m.at \notin m.scan
        /\ pc[r] \in {"index", "write index"} => \A p \in Plugins : m.rows[p] = Owed(p)
        /\ pc[r] = "write index" => m.gen = index.gen

InHand == \A r \in Requests : Publishing(r) /\ Rowing(r)

Clean == \A r \in Requests : reply[r] \notin {"lost", "unavailable", "storageConflict"}

\* Once the index was written after a commit, the catalogue is current again.
CaughtUp ==
    Clean /\ (\A r \in Requests : pc[r] \notin AfterUpdate) =>
        \A p \in Plugins : index.rows[p] = Owed(p)

Known ==
    /\ TypeOK /\ Snapshot /\ Kept /\ LatestFollowsLists
    /\ Rooted /\ Openings

-----------------------------------------------------------------------------
(* A version that nobody uploads while its plugin is being removed. *)

\* How a publish gets to the steps before plugin.json.
LEMMA EarlySteps ==
    ASSUME TypeOK, NEW r \in Requests, Acts(r), pc'[r] \in Early
    PROVE  \/ call'[r].op \in PublishOps /\ pc'[r] = "check"
           \/ /\ call'[r] = call[r] /\ UNCHANGED plugin
              /\ pc[r] \in Early /\ pc'[r] # "check"
              /\ pc[r] = "check" => Check(r)
<1>0. pc \in [Requests -> Pcs]
    BY DEF TypeOK
<1> USE DEF Early
<1>a. CASE \E c \in Calls : Start(r, c)
    <2>1. PICK c \in Calls : Start(r, c)
        BY <1>a
    <2>2. call'[r] = c /\ pc'[r] = FirstStep(c)
        BY <2>1 DEF Start, TypeOK
    <2> QED
        BY <2>2 DEF FirstStep
<1>b. CASE Lost(r) \/ Refused(r) \/ Late(r)
    BY <1>0, <1>b DEF Lost, Refused, Late, End
<1>c. CASE Dropped(r)
    BY <1>0, <1>c DEF Dropped
<1>d. CASE Check(r) \/ Probe(r) \/ PutJar(r)
    BY <1>0, <1>d DEF Check, Probe, PutJar, Answer, End, Goto
<1>e. CASE PutManifest(r) \/ PutNotes(r)
    BY <1>0, <1>e DEF PutManifest, PutNotes, Answer, End, Goto
<1>f. CASE Load(r) \/ Update(r)
    BY <1>0, <1>f DEF Load, Update, AfterCommit, Retry, Answer, End, Goto
<1>g. CASE ListToPurge(r) \/ DeleteNext(r) \/ ListPlugins(r)
    BY <1>0, <1>g DEF ListToPurge, DeleteNext, ListPlugins, Goto
<1>h. CASE ReadState(r) \/ ReadManifest(r)
    BY <1>0, <1>h DEF ReadState, ReadManifest, Goto
<1>i. CASE ReadIndex(r) \/ WriteIndex(r)
    BY <1>0, <1>i DEF ReadIndex, WriteIndex, Retry, Answer, End, Goto
<1> QED
    BY <1>a, <1>b, <1>c, <1>d, <1>e, <1>f, <1>g, <1>h, <1>i DEF Acts, Step

\* New objects are those of the publish in progress.
LEMMA ObjectsAppear ==
    ASSUME TypeOK, NEW r \in Requests, Acts(r), NEW f \in Paths, files'[f] # NoBundle
    PROVE  \/ files[f] # NoBundle
           \/ /\ pc[r] \in Early \ {"check"}
              /\ f.plugin = call[r].plugin /\ f.version = call[r].version
<1>0. files \in [Paths -> Bundles \cup {NoBundle}]
    BY DEF TypeOK
<1>1. ASSUME NEW k, NEW p, NEW v, NEW b, Create(PathOf(k, p, v), b)
      PROVE  files[f] # NoBundle \/ (f.plugin = p /\ f.version = v)
    BY <1>0, <1>1 DEF Create, PathOf
<1>2. ASSUME NEW p, NEW v, NEW b, NEW a,
             Create(JarPath(p, v, a), b) \/ Create(ManifestPath(p, v), b)
      PROVE  files[f] # NoBundle \/ (f.plugin = p /\ f.version = v)
    BY <1>1, <1>2 DEF JarPath, ManifestPath
<1> USE DEF Early
<1>a. CASE \E c \in Calls : Start(r, c)
    BY <1>a DEF Start
<1>b. CASE Lost(r) \/ Refused(r) \/ Dropped(r)
    BY <1>b DEF Lost, Refused, Dropped
<1>c. CASE Late(r)
    <2>1. CASE pc[r] \in {"jar", "manifest", "notes"}
        BY <1>1, <1>2, <1>c, <2>1 DEF Late
    <2>2. CASE UNCHANGED files
        BY <2>2
    <2> QED
        BY <1>c, <2>1, <2>2 DEF Late
<1>d. CASE PutJar(r) \/ PutManifest(r) \/ PutNotes(r)
    BY <1>1, <1>2, <1>d DEF PutJar, PutManifest, PutNotes
<1>e. CASE Check(r) \/ Probe(r) \/ Load(r) \/ Update(r)
    BY <1>e DEF Check, Probe, Load, Update
<1>f. CASE DeleteNext(r)
    BY <1>0, <1>f DEF DeleteNext, Erase
<1>g. CASE ListToPurge(r) \/ ListPlugins(r) \/ ReadState(r)
    BY <1>g DEF ListToPurge, ListPlugins, ReadState
<1>h. CASE ReadManifest(r) \/ ReadIndex(r) \/ WriteIndex(r)
    BY <1>h DEF ReadManifest, ReadIndex, WriteIndex
<1> QED
    BY <1>a, <1>b, <1>c, <1>d, <1>e, <1>f, <1>g, <1>h DEF Acts, Step

LEMMA NothingDropped ==
    ASSUME TypeOK, ErrorsAreSeen', NEW r \in Requests
    PROVE  ~Dropped(r)
<1>1. Dropped(r) => Fault("dropped")
    BY DEF Dropped
<1> QED
    BY <1>1, FaultIsRecorded DEF ErrorsAreSeen

\* How a removal gets behind its deletions.
LEMMA PurgedSteps ==
    ASSUME TypeOK, Kept, ErrorsAreSeen', NEW r \in Requests, Acts(r),
           call'[r].op = "remove",
           pc'[r] \in HoldsRows \cup {"list"} \/ reply'[r] = "ok"
    PROVE  /\ call'[r] = call[r]
           /\ \/ pc[r] \in HoldsRows \cup {"list"}
              \/ pc[r] = "delete" /\ mem[r].todo = {} /\ UNCHANGED files
<1>0. /\ pc \in [Requests -> Pcs] /\ reply \in [Requests -> Replies]
      /\ reply[r] = "ok" => pc[r] = "done"
    BY DEF TypeOK, Kept
<1> USE DEF HoldsRows
<1>a. CASE \E c \in Calls : Start(r, c)
    <2>1. PICK c \in Calls : Start(r, c)
        BY <1>a
    <2>2. call'[r] = c /\ pc'[r] = FirstStep(c) /\ reply'[r] # "ok"
        BY <1>0, <2>1 DEF Start, TypeOK
    <2> QED
        BY <2>2 DEF FirstStep, PublishOps
<1>b. CASE Lost(r) \/ Refused(r) \/ Dropped(r)
    BY <1>0, <1>b, NothingDropped DEF Lost, Refused, RebuildFailed, End
<1>c. CASE Late(r)
    BY <1>0, <1>c DEF Late, End
<1>d. CASE Check(r) \/ Probe(r) \/ PutJar(r)
    BY <1>0, <1>d DEF Check, Probe, PutJar, Answer, End, Goto
<1>e. CASE PutManifest(r) \/ PutNotes(r)
    BY <1>0, <1>e DEF PutManifest, PutNotes, Answer, End, Goto
<1>f. CASE Load(r) \/ ListToPurge(r)
    BY <1>0, <1>f DEF Load, ListToPurge, Goto
<1>g. CASE Update(r)
    <2>1. Refusal(call[r], mem[r].seen) # "ok"
        BY DEF Refusal
    <2> QED
        BY <1>0, <1>g, <2>1 DEF Update, AfterCommit, Retry, Answer, End, Goto
<1>h. CASE DeleteNext(r)
    BY <1>0, <1>h DEF DeleteNext, Goto
<1>i. CASE ListPlugins(r) \/ ReadState(r) \/ ReadManifest(r)
    BY <1>0, <1>i DEF ListPlugins, ReadState, ReadManifest, Goto
<1>j. CASE ReadIndex(r) \/ WriteIndex(r)
    BY <1>0, <1>j DEF ReadIndex, WriteIndex, Retry, Answer, End, Goto
<1> QED
    BY <1>a, <1>b, <1>c, <1>d, <1>e, <1>f, <1>g, <1>h, <1>i, <1>j DEF Acts, Step

LEMMA OnlyRemovalsMark ==
    ASSUME NEW c \in Call, NEW d \in Doc, ~d.removed, Mutate(c, d).removed
    PROVE  c.op = "remove"
<1>0. c.op \in Ops /\ c.version \in Versions /\ c.bundle \in Bundles
    BY CallFields
<1>1. CASE c.op \in PublishOps
    <2> DEFINE e == [d EXCEPT !.versions[c.version] = c.bundle]
    <2>1. e \in Doc /\ e.removed = d.removed
        BY <1>0, EntryWritten
    <2>2. Mutate(c, d) = Recomputed(e)
        BY <1>1 DEF Mutate, PublishOps
    <2> QED
        BY <2>1, <2>2, RecomputedKeeps
<1>2. CASE c.op = "block"
    <2> DEFINE e == [d EXCEPT !.blocked = @ \cup {c.version}]
    <2>1. e \in Doc /\ e.removed = d.removed
        BY <1>0 DEF Doc
    <2>2. Mutate(c, d) = Recomputed(e)
        BY <1>2 DEF Mutate, PublishOps
    <2> QED
        BY <2>1, <2>2, RecomputedKeeps
<1>3. CASE c.op \notin PublishOps \cup {"block"}
    BY <1>3 DEF Mutate, PublishOps, Doc
<1> QED
    BY <1>1, <1>2, <1>3

\* A tombstone is written by a removal.
LEMMA OnlyRemovalsRemove ==
    ASSUME TypeOK, Snapshot, Next, NEW p \in Plugins,
           ~plugin[p].doc.removed, plugin'[p].doc.removed
    PROVE  \E q \in Active : call[q].op = "remove" /\ call[q].plugin = p
<1>1. PICK q \in Requests : Acts(q)
    BY SweepWritesNoState DEF Next, Acts
<1>2. pc[q] = "update" /\ Commit(q)
    BY <1>1, OnlyCommitsWrite
<1>3. p = call[q].plugin /\ call[q] \in Call /\ plugin[p].doc \in Doc
    BY <1>2, CommitEffect
<1>4. plugin'[p] = [gen |-> plugin[p].gen + 1, doc |-> Mutate(call[q], plugin[p].doc)]
    BY <1>2, <1>3, CommitEffect
<1>5. Mutate(call[q], plugin[p].doc).removed
    BY <1>4
<1>6. call[q].op = "remove"
    BY <1>3, <1>5, OnlyRemovalsMark
<1> QED
    BY <1>2, <1>3, <1>6 DEF Active

\* Nothing of the version comes back once its plugin is removed.
LEMMA NothingComesBack ==
    ASSUME TypeOK, NEW p, NEW v, Removals(p, v), Next, plugin[p].doc.removed,
           NEW f \in Browsable', f.plugin = p, f.version = v
    PROVE  f \in Browsable
<1> SUFFICES ASSUME files[f] = NoBundle
             PROVE  FALSE
    BY DEF Browsable
<1>0. f \in Paths /\ files'[f] # NoBundle
    BY DEF Browsable
<1>1. ASSUME NEW r \in Requests, Acts(r) PROVE FALSE
    <2>1. pc[r] \in Early \ {"check"} /\ call[r].plugin = p /\ call[r].version = v
        BY <1>0, <1>1, ObjectsAppear
    <2> QED
        BY <2>1 DEF Removals, Opening
<1>2. CASE Sweep \/ SweepLost
    <2>1. UNCHANGED files \/ \E g : files' = [files EXCEPT ![g] = NoBundle]
        BY <1>2 DEF Sweep, SweepList, SweepLoad, SweepDelete, SweepEnd, SweepLost, Erase
    <2> QED
        BY <1>0, <2>1 DEF TypeOK
<1> QED
    BY <1>1, <1>2 DEF Next, Acts

\* A removal strikes an object off its list only when it has deleted it.
LEMMA EmptyingGoesOn ==
    ASSUME TypeOK, ErrorsAreSeen', NEW p, NEW v,
           NEW r \in Requests, Emptying(r, p, v),
           Acts(r), pc'[r] = "delete", call'[r].plugin = p
    PROVE  \A f \in Browsable' : f.plugin = p /\ f.version = v => f \in mem'[r].todo
<1>0. /\ pc \in [Requests -> Pcs] /\ mem \in [Requests -> Mem] /\ mem[r] \in Mem
      /\ files \in [Paths -> Bundles \cup {NoBundle}]
    BY DEF TypeOK
<1>1. CASE ListToPurge(r)
    <2>1. /\ mem'[r].todo = {f \in Browsable : f.plugin = call[r].plugin}
          /\ UNCHANGED <<files, call>>
        BY <1>0, <1>1 DEF ListToPurge, Goto, Mem
    <2> QED
        BY <2>1 DEF Browsable
<1>2. CASE DeleteNext(r)
    <2>1. pc[r] = "delete" /\ UNCHANGED call
        BY <1>2 DEF DeleteNext, Goto
    <2>2. PICK f \in mem[r].todo :
             /\ files' = [files EXCEPT ![f] = NoBundle]
             /\ mem' = [mem EXCEPT ![r].todo = @ \ {f}]
        BY <1>0, <1>2 DEF DeleteNext, Goto, Erase
    <2>3. mem'[r].todo = mem[r].todo \ {f}
        BY <1>0, <2>2 DEF Mem
    <2>4. Browsable' \subseteq Browsable \ {f}
        BY <1>0, <2>2 DEF Browsable
    <2> QED
        BY <2>1, <2>3, <2>4 DEF Emptying
<1>3. CASE ~ListToPurge(r) /\ ~DeleteNext(r)
    <2>a. ~\E c \in Calls : Start(r, c)
        BY <1>0 DEF Start, FirstStep
    <2>b. ~(Lost(r) \/ Refused(r) \/ Late(r))
        BY <1>0 DEF Lost, Refused, Late, End
    <2>c. ~Dropped(r)
        BY NothingDropped
    <2>d. ~(Check(r) \/ Probe(r) \/ PutJar(r) \/ PutManifest(r) \/ PutNotes(r))
        BY <1>0 DEF Check, Probe, PutJar, PutManifest, PutNotes, Answer, End, Goto
    <2>e. ~(Load(r) \/ Update(r) \/ ListPlugins(r))
        BY <1>0 DEF Load, Update, AfterCommit, ListPlugins, Retry, Answer, End, Goto
    <2>f. ~(ReadState(r) \/ ReadManifest(r) \/ ReadIndex(r) \/ WriteIndex(r))
        BY <1>0 DEF ReadState, ReadManifest, ReadIndex, WriteIndex, Retry, Answer, End, Goto
    <2> QED
        BY <1>3, <2>a, <2>b, <2>c, <2>d, <2>e, <2>f DEF Acts, Step
<1> QED
    BY <1>1, <1>2, <1>3

LEMMA NextOpening ==
    ASSUME TypeOK, Snapshot, Absent, Next, NEW p \in Plugins, NEW v \in Versions,
           ~UploadMeetsRemoval(p, v), NEW r \in Requests, Opening(r, p, v)
    PROVE  Opening(r, p, v)'
<1> SUFFICES ASSUME call'[r].plugin = p, call'[r].version = v,
                    pc'[r] \in Early, pc'[r] # "check", plugin'[p].doc.removed
             PROVE  FALSE
    BY DEF Opening
<1>1. CASE Acts(r)
    <2>1. /\ call'[r] = call[r] /\ UNCHANGED plugin /\ pc[r] \in Early
          /\ pc[r] = "check" => Check(r)
        BY <1>1, EarlySteps
    <2>2. CASE pc[r] = "check"
        <3>1. plugin[call[r].plugin].gen = 0 \/ ~plugin[call[r].plugin].doc.removed
            BY <2>1, <2>2 DEF Check, Answer, End, Early, TypeOK
        <3> QED
            BY <2>1, <3>1 DEF Absent
    <2>3. CASE pc[r] # "check"
        BY <2>1, <2>3 DEF Opening
    <2> QED
        BY <2>2, <2>3
<1>2. CASE ~Acts(r)
    <2>1. pc'[r] = pc[r] /\ call'[r] = call[r]
        BY <1>2, OthersStay, SweepWritesNoState DEF Next, Acts
    <2>2. ~plugin[p].doc.removed
        BY <2>1 DEF Opening
    <2>3. PICK q \in Active : call[q].op = "remove" /\ call[q].plugin = p
        BY <2>2, OnlyRemovalsRemove
    <2>4. r \in Active /\ pc[r] \in {"probe", "jar", "manifest", "notes"}
        BY <2>1 DEF Active, Early
    <2> QED
        BY <2>1, <2>3, <2>4 DEF UploadMeetsRemoval, Removing
<1> QED
    BY <1>1, <1>2

LEMMA NextEmptying ==
    ASSUME TypeOK, Kept, Rooted, ErrorsAreSeen', Next,
           NEW p \in Plugins, NEW v \in Versions, Removals(p, v), NEW r \in Requests
    PROVE  Emptying(r, p, v)'
<1>0. Emptying(r, p, v) /\ DeletesOwn(r)
    BY DEF Removals, Rooted
<1> DEFINE purged == \/ pc[r] = "delete"
                     \/ /\ call[r].op = "remove"
                        /\ pc[r] \in HoldsRows \cup {"list"} \/ reply[r] = "ok"
<1>1. ASSUME purged, call[r].plugin = p
      PROVE  \A f \in Browsable' : f.plugin = p /\ f.version = v => f \in Browsable
    <2>1. plugin[p].doc.removed
        BY <1>0, <1>1 DEF Kept, Promise, PublishOps, AfterUpdate, HoldsRows, DeletesOwn
    <2> QED
        BY <2>1, NothingComesBack
<1>2. CASE Acts(r)
    <2>1. ASSUME pc'[r] = "delete", call'[r].plugin = p
          PROVE  \A f \in Browsable' : f.plugin = p /\ f.version = v => f \in mem'[r].todo
        BY <1>0, <1>2, <2>1, EmptyingGoesOn
    <2>2. ASSUME call'[r].op = "remove", call'[r].plugin = p,
                 pc'[r] \in HoldsRows \cup {"list"} \/ reply'[r] = "ok"
          PROVE  NothingOf(p, v)'
        <3>1. /\ call'[r] = call[r]
              /\ \/ pc[r] \in HoldsRows \cup {"list"}
                 \/ pc[r] = "delete" /\ mem[r].todo = {} /\ UNCHANGED files
            BY <1>2, <2>2, PurgedSteps
        <3>2. NothingOf(p, v)
            BY <1>0, <2>2, <3>1 DEF Emptying, NothingOf, Removing
        <3> QED
            BY <1>1, <2>2, <3>1, <3>2 DEF NothingOf
    <2> QED
        BY <2>1, <2>2 DEF Emptying, Removing
<1>3. CASE ~Acts(r)
    <2>1. pc'[r] = pc[r] /\ call'[r] = call[r] /\ mem'[r] = mem[r] /\ reply'[r] = reply[r]
        BY <1>3, OthersStay, SweepWritesNoState DEF Next, Acts
    <2> QED
        BY <1>0, <1>1, <2>1 DEF Emptying, NothingOf, Removing
<1> QED
    BY <1>2, <1>3

LEMMA NextAbsent ==
    ASSUME TypeOK, Snapshot, Absent, Next
    PROVE  Absent'
<1>1. ASSUME NEW p \in Plugins, plugin'[p].gen = 0
      PROVE  plugin'[p] = plugin[p]
    <2>1. plugin[p].gen \in Nat
        BY DEF TypeOK
    <2>2. plugin'[p] = plugin[p] \/ plugin'[p].gen = plugin[p].gen + 1
        BY StepGrows
    <2> QED
        BY <1>1, <2>1, <2>2
<1> QED
    BY <1>1 DEF Absent

LEMMA NextRooted ==
    ASSUME TypeOK, Snapshot, Rooted, [Next]_vars
    PROVE  Rooted'
<1>1. CASE UNCHANGED vars
    BY <1>1 DEF vars, Rooted, Absent, DeletesOwn, Early
<1>2. CASE Next
    <2>1. Absent'
        BY <1>2, NextAbsent DEF Rooted
    <2>2. ASSUME NEW r \in Requests
          PROVE  (pc[r] \in Early => call[r].op \in PublishOps)' /\ DeletesOwn(r)'
        <3>1. CASE Acts(r)
            <4>1. DeletesOwn(r)'
                BY <3>1, DeletionSteps DEF Rooted
            <4>2. pc'[r] \in Early => call'[r].op \in PublishOps
                BY <3>1, EarlySteps DEF Rooted
            <4> QED
                BY <4>1, <4>2 DEF Early
        <3>2. CASE ~Acts(r)
            <4>1. pc'[r] = pc[r] /\ call'[r] = call[r] /\ mem'[r] = mem[r]
                BY <1>2, <3>2, OthersStay, SweepWritesNoState DEF Next, Acts
            <4> QED
                BY <4>1 DEF Rooted, DeletesOwn, Early
        <3> QED
            BY <3>1, <3>2
    <2> QED
        BY <2>1, <2>2 DEF Rooted
<1> QED
    BY <1>1, <1>2

LEMMA NextRemovals ==
    ASSUME TypeOK, Snapshot, Kept, Rooted, NEW p \in Plugins, NEW v \in Versions,
           Undisturbed(p, v), Undisturbed(p, v)', Removals(p, v), [Next]_vars
    PROVE  Removals(p, v)'
<1> SUFFICES ASSUME NEW r \in Requests
             PROVE  Opening(r, p, v)' /\ Emptying(r, p, v)'
    BY DEF Removals
<1>1. CASE UNCHANGED vars
    <2>1. Browsable' = Browsable
        BY <1>1 DEF vars, Browsable
    <2>2. Opening(r, p, v) /\ Emptying(r, p, v)
        BY DEF Removals
    <2> QED
        BY <1>1, <2>1, <2>2 DEF vars, Opening, Emptying, NothingOf, Removing
<1>2. CASE Next
    BY <1>2, NextOpening, NextEmptying DEF Removals, Rooted, Undisturbed
<1> QED
    BY <1>1, <1>2

-----------------------------------------------------------------------------
(* One at a time. *)

LEMMA NothingElseRuns ==
    ASSUME OneAtATime, Apart, Busy < MaxInFlight
    PROVE  Active = {} /\ ~sweep.on /\ sweep.doomed = {}
<1>1. Cardinality({}) = 0
    BY FS_EmptySet
<1>2. ~sweep.on
    BY <1>1 DEF OneAtATime, Apart, Busy
<1>3. ASSUME NEW r \in Active PROVE FALSE
    <2>1. Active = {r}
        BY <1>3 DEF Apart, Active
    <2>2. Cardinality(Active) = 1
        BY <2>1, FS_Singleton
    <2> QED
        BY <1>2, <2>2 DEF OneAtATime, Busy
<1> QED
    BY <1>2, <1>3 DEF Apart

\* Only a request in progress takes a step, unless it is started.
LEMMA WhoActs ==
    ASSUME NEW r \in Requests, Acts(r)
    PROVE  (\E c \in Calls : Start(r, c)) \/ r \in Active
<1>a. CASE Lost(r) \/ Refused(r)
    BY <1>a DEF Lost, Refused
<1>b. CASE Dropped(r) \/ Late(r)
    BY <1>b DEF Dropped, Late, Active
<1>c. CASE Check(r) \/ Probe(r) \/ PutJar(r) \/ PutManifest(r) \/ PutNotes(r)
    BY <1>c DEF Check, Probe, PutJar, PutManifest, PutNotes, Active
<1>d. CASE Load(r) \/ Update(r) \/ ListToPurge(r) \/ DeleteNext(r)
    BY <1>d DEF Load, Update, ListToPurge, DeleteNext, Active
<1>e. CASE ListPlugins(r) \/ ReadState(r) \/ ReadManifest(r)
    BY <1>e DEF ListPlugins, ReadState, ReadManifest, Active
<1>f. CASE ReadIndex(r) \/ WriteIndex(r)
    BY <1>f DEF ReadIndex, WriteIndex, Active
<1> QED
    BY <1>a, <1>b, <1>c, <1>d, <1>e, <1>f DEF Acts, Step

\* While one request takes a step, the others wait or are answered, and there is
\* no cleanup.
LEMMA NobodyBeside ==
    ASSUME OneAtATime, TypeOK, Apart, NEW r \in Requests, Acts(r)
    PROVE  /\ \A q \in Requests \ {r} : pc[q] \in {"idle", "done"}
           /\ ~sweep.on /\ sweep.doomed = {} /\ UNCHANGED sweep
<1>1. UNCHANGED sweep
    BY RequestsLeaveTheSweep
<1>2. CASE \E c \in Calls : Start(r, c)
    <2>1. Busy < MaxInFlight
        BY <1>2 DEF Start
    <2> QED
        BY <1>1, <2>1, NothingElseRuns DEF Active
<1>3. CASE r \in Active
    BY <1>1, <1>3 DEF Apart, Active
<1> QED
    BY <1>2, <1>3, WhoActs

\* Only the look at one object's plugin.json dooms the object.
LEMMA OnlyLoadsDoom ==
    ASSUME TypeOK, Sweep \/ SweepLost
    PROVE  SweepLoad \/ sweep'.doomed = {}
<1>0. sweep \in [on : BOOLEAN, todo : SUBSET Paths, doomed : SUBSET Paths]
    BY DEF TypeOK
<1>1. CASE SweepList
    <2>1. sweep' = [NoSweep EXCEPT !.on = TRUE, !.todo = Browsable]
        BY <1>1 DEF SweepList
    <2> QED
        BY <2>1 DEF NoSweep
<1>2. CASE SweepDelete
    BY <1>0, <1>2 DEF SweepDelete
<1>3. CASE SweepEnd
    BY <1>3 DEF SweepEnd, NoSweep
<1>4. CASE SweepLost
    <2>1. sweep' = NoSweep \/ sweep' = [sweep EXCEPT !.doomed = {}]
        BY <1>4 DEF SweepLost
    <2> QED
        BY <1>0, <2>1 DEF NoSweep
<1> QED
    BY <1>1, <1>2, <1>3, <1>4 DEF Sweep

LEMMA SweepsRunAlone ==
    ASSUME OneAtATime, TypeOK, Apart, Sweep \/ SweepLost
    PROVE  /\ Active = {} /\ UNCHANGED <<plugin, index, pc, call, mem, reply>>
           /\ sweep'.doomed # {} => sweep'.on
<1>0. sweep \in [on : BOOLEAN, todo : SUBSET Paths, doomed : SUBSET Paths]
    BY DEF TypeOK
<1>1. UNCHANGED <<plugin, index, pc, call, mem, reply>>
    BY SweepWritesNoState
<1>2. Active = {}
    <2>1. CASE SweepList
        BY <2>1, NothingElseRuns DEF SweepList
    <2>2. CASE sweep.on
        BY <2>2 DEF Apart
    <2>3. CASE SweepDelete
        BY <2>3 DEF SweepDelete, Apart
    <2> QED
        BY <2>1, <2>2, <2>3 DEF Sweep, SweepLoad, SweepEnd, SweepLost
<1>3. SweepLoad => sweep'.on
    BY <1>0 DEF SweepLoad
<1> QED
    BY <1>1, <1>2, <1>3, OnlyLoadsDoom

LEMMA NextApart ==
    ASSUME OneAtATime, TypeOK, Apart, [Next]_vars
    PROVE  Apart'
<1>1. CASE UNCHANGED vars
    BY <1>1 DEF vars, Apart, Active
<1>2. CASE Sweep \/ SweepLost
    BY <1>2, SweepsRunAlone DEF Apart, Active
<1>3. ASSUME NEW r \in Requests, Acts(r)
      PROVE  Apart'
    <2>1. \A q \in Requests \ {r} : pc'[q] \in {"idle", "done"}
        BY <1>3, NobodyBeside, OthersStay
    <2>2. ~sweep'.on /\ sweep'.doomed = {}
        BY <1>3, NobodyBeside
    <2> QED
        BY <2>1, <2>2 DEF Apart, Active
<1> QED
    BY <1>1, <1>2, <1>3 DEF Next, Acts

-----------------------------------------------------------------------------
(* The store between requests. *)

LEMMA ManifestPathIs ==
    ASSUME NEW p \in Plugins, NEW v \in Versions
    PROVE  /\ ManifestPath(p, v) \in Paths
           /\ ManifestPath(p, v).plugin = p /\ ManifestPath(p, v).version = v
           /\ ManifestPath(p, v).kind = "manifest"
BY DEF ManifestPath, PathOf, Paths, Kinds

\* A manifest only goes with a plugin that was removed, or with a version that
\* is not listed.
LEMMA ManifestsStay ==
    ASSUME OneAtATime, Known, Apart, Sheet, Next,
           NEW p \in Plugins, NEW v \in Versions, ~plugin[p].doc.removed,
           files[ManifestPath(p, v)] # NoBundle,
           v \in Listed(plugin[p].doc) \/ Active # {}
    PROVE  files'[ManifestPath(p, v)] = files[ManifestPath(p, v)]
<1> DEFINE f == ManifestPath(p, v)
<1>0. TypeOK
    BY DEF Known
<1>1. f \in Paths /\ f.plugin = p /\ f.version = v
    BY ManifestPathIs
<1>2. ASSUME NEW r \in Requests, Acts(r)
      PROVE  files'[f] = files[f]
    <2>1. SUFFICES ASSUME pc[r] = "delete", f \in mem[r].todo
                   PROVE  FALSE
        BY <1>0, <1>1, <1>2, ObjectsStay
    <2>2. call[r].op = "remove" /\ f.plugin = call[r].plugin
        BY <2>1 DEF Known, Rooted, DeletesOwn
    <2>3. plugin[call[r].plugin].doc.removed
        BY <2>1, <2>2 DEF Known, Kept, AfterUpdate, Promise, PublishOps
    <2> QED
        BY <1>1, <2>2, <2>3
<1>3. CASE Sweep \/ SweepLost
    <2>1. v \in Listed(plugin[p].doc)
        BY <1>0, <1>3, SweepsRunAlone
    <2>2. CASE SweepDelete
        <3>1. PICK g \in sweep.doomed : files' = [files EXCEPT ![g] = NoBundle]
            BY <2>2 DEF SweepDelete, Erase
        <3>2. f # g
            BY <1>1, <2>1, <3>1 DEF Sheet, DoomedAreOrphans
        <3> QED
            BY <1>0, <1>1, <3>1, <3>2 DEF TypeOK
    <2> QED
        BY <1>3, <2>2 DEF Sweep, SweepList, SweepLoad, SweepEnd, SweepLost
<1> QED
    BY <1>2, <1>3 DEF Next, Acts

LEMMA CompleteStays ==
    ASSUME OneAtATime, Known, Apart, Sheet, InHand, Next
    PROVE  Complete'
<1> SUFFICES ASSUME NEW p \in Plugins, NEW v \in Versions,
                    v \in Listed(plugin'[p].doc), ~plugin'[p].doc.removed
             PROVE  files'[ManifestPath(p, v)] # NoBundle
    BY DEF Complete
<1>0. TypeOK /\ Snapshot /\ Kept
    BY DEF Known
<1>1. ~plugin[p].doc.removed
    BY <1>0, StepGrows DEF Grows
<1>2. CASE v \in Listed(plugin[p].doc)
    BY <1>0, <1>1, <1>2, ManifestsStay DEF Sheet, Complete
<1>3. CASE v \notin Listed(plugin[p].doc)
    <2>1. plugin' # plugin
        BY <1>3
    <2>2. PICK r \in Requests : Acts(r)
        BY <2>1, SweepWritesNoState DEF Next, Acts
    <2>3. pc[r] = "update" /\ Commit(r)
        BY <2>1, <2>2, OnlyCommitsWrite
    <2>4. p = call[r].plugin
        BY <1>0, <1>3, <2>3, CommitEffect
    <2>5. /\ call[r] \in Call /\ plugin[p].doc \in Doc
          /\ plugin'[p].doc = Mutate(call[r], plugin[p].doc)
        <3>1. /\ call[r] \in Call /\ plugin[p].doc \in Doc
              /\ plugin'[p] = [gen |-> plugin[p].gen + 1,
                               doc |-> Mutate(call[r], plugin[p].doc)]
            BY <1>0, <2>3, <2>4, CommitEffect
        <3> QED
            BY <3>1
    <2>6. plugin'[p].doc.versions[v] # plugin[p].doc.versions[v]
        BY <1>3 DEF Listed
    <2>7. call[r].op \in PublishOps /\ v = call[r].version
        BY <2>5, <2>6, MutateEntries
    <2>8. files[ManifestPath(p, v)] # NoBundle
        BY <2>3, <2>4, <2>7 DEF InHand, Publishing
    <2>9. r \in Active
        BY <2>3 DEF Active
    <2> QED
        BY <1>0, <1>1, <2>8, <2>9, ManifestsStay
<1> QED
    BY <1>2, <1>3

LEMMA NextSheet ==
    ASSUME OneAtATime, Known, Apart, Sheet, InHand, [Next]_vars
    PROVE  Sheet'
<1>0. TypeOK /\ Snapshot /\ Kept
    BY DEF Known
<1>1. CASE UNCHANGED vars
    BY <1>1 DEF vars, Sheet, Complete, DoomedAreOrphans
<1>2. CASE Next
    <2>2. Complete'
        BY <1>2, CompleteStays
    <2>3. DoomedAreOrphans'
        <3>1. CASE Sweep \/ SweepLost
            <4>1. UNCHANGED plugin
                BY <3>1, SweepWritesNoState
            <4>2. CASE SweepLoad
                <5>1. PICK f \in sweep.todo : sweep'.doomed = IF Orphan(f) THEN {f} ELSE {}
                    BY <1>0, <4>2 DEF SweepLoad, TypeOK
                <5>2. f.plugin \in Plugins
                    BY <1>0 DEF TypeOK, Paths
                <5>3. Orphan(f) => f.version \notin Listed(plugin[f.plugin].doc)
                    BY <5>2 DEF Orphan, Known, Rooted, Absent
                <5> QED
                    BY <4>1, <5>1, <5>3 DEF DoomedAreOrphans
            <4>3. CASE ~SweepLoad
                BY <1>0, <3>1, <4>3, OnlyLoadsDoom DEF DoomedAreOrphans
            <4> QED
                BY <4>2, <4>3
        <3>2. ASSUME NEW r \in Requests, Acts(r)
              PROVE  DoomedAreOrphans'
            BY <1>0, <3>2, NobodyBeside DEF DoomedAreOrphans
        <3> QED
            BY <1>2, <3>1, <3>2 DEF Next, Acts
    <2> QED
        BY <2>2, <2>3 DEF Sheet
<1> QED
    BY <1>1, <1>2

\* With every listed version complete, the row of a plugin is given by its
\* plugin.json alone.
LEMMA RowIsOwed ==
    ASSUME TypeOK, LatestFollowsLists, Complete, NEW p \in Plugins
    PROVE  /\ Row(p) = Owed(p)
           /\ plugin[p].doc.latest # NoVersion /\ ~plugin[p].doc.removed =>
                 files[ManifestPath(p, plugin[p].doc.latest)] # NoBundle
<1> DEFINE d == plugin[p].doc
<1>1. ASSUME d.latest # NoVersion
      PROVE  d.latest \in Listed(d)
    <2>1. Listed(d) \in SUBSET Versions
        BY DEF Listed
    <2> QED
        BY <1>1, <2>1, LatestIsListed DEF LatestFollowsLists
<1>2. ASSUME d.latest # NoVersion, ~d.removed
      PROVE  files[ManifestPath(p, d.latest)] # NoBundle
    BY <1>1, <1>2 DEF Complete, Listed
<1> QED
    BY <1>2 DEF Row, Owed

-----------------------------------------------------------------------------
(* The request in progress: publishing. *)

LEMMA CommitMovesOn ==
    ASSUME TypeOK, NEW r \in Requests, Acts(r), ~UNCHANGED plugin
    PROVE  /\ pc[r] = "update" /\ Commit(r) /\ call'[r] = call[r]
           /\ UNCHANGED <<files, index>>
           /\ \/ pc'[r] = AfterCommit(call[r]) /\ reply'[r] = reply[r]
              \/ pc'[r] = "done" /\ reply'[r] = "ok" /\ call[r].op = "advise"
              \/ pc'[r] = "done" /\ reply'[r] = "unavailable"
<1>0. pc \in [Requests -> Pcs] /\ reply \in [Requests -> Replies]
    BY DEF TypeOK
<1>1. pc[r] = "update" /\ Commit(r)
    BY OnlyCommitsWrite
<1>2. CASE Update(r)
    BY <1>0, <1>1, <1>2 DEF Update, Commit, Answer, End, Goto
<1>3. CASE Late(r)
    BY <1>0, <1>1, <1>3 DEF Late, End
<1>4. CASE ~Update(r) /\ ~Late(r)
    <2>1. (\E c \in Calls : Start(r, c)) \/ Lost(r) \/ Refused(r) \/ Dropped(r) => UNCHANGED plugin
        BY DEF Start, Lost, Refused, Dropped
    <2>2. Check(r) \/ Probe(r) \/ PutJar(r) \/ PutManifest(r) \/ PutNotes(r) \/ Load(r)
             => UNCHANGED plugin
        BY DEF Check, Probe, PutJar, PutManifest, PutNotes, Load
    <2>3. ListToPurge(r) \/ DeleteNext(r) \/ ListPlugins(r) \/ ReadState(r)
             => UNCHANGED plugin
        BY DEF ListToPurge, DeleteNext, ListPlugins, ReadState
    <2>4. ReadManifest(r) \/ ReadIndex(r) \/ WriteIndex(r) => UNCHANGED plugin
        BY DEF ReadManifest, ReadIndex, WriteIndex
    <2> QED
        BY <1>4, <2>1, <2>2, <2>3, <2>4 DEF Acts, Step
<1> QED
    BY <1>1, <1>2, <1>3, <1>4

LEMMA NextPublishing ==
    ASSUME OneAtATime, Known, Apart, Sheet, InHand, Next, NEW r \in Requests, Acts(r)
    PROVE  Publishing(r)'
<1> DEFINE c == call[r]
           f == ManifestPath(c.plugin, c.version)
<1>0. TypeOK /\ Publishing(r)
    BY DEF Known, InHand
<1>1. c \in Call /\ c.plugin \in Plugins /\ c.version \in Versions /\ c.bundle \in Bundles
    BY <1>0, CallFields DEF TypeOK
<1>3. ASSUME pc'[r] \in {"notes", "load", "update"}, call'[r].op \in PublishOps
      PROVE  /\ ~plugin'[call'[r].plugin].doc.removed
             /\ files'[ManifestPath(call'[r].plugin, call'[r].version)] # NoBundle
    <2>1. /\ call'[r] = c
          /\ \/ pc[r] \in {"notes", "load", "update"}
             \/ PutManifest(r) /\ files' # files
        BY <1>0, <1>3, PublishSteps
    <2>2. UNCHANGED plugin
        BY <1>0, <1>3, CommitMovesOn DEF AfterCommit
    <2>3. CASE pc[r] \in {"notes", "load", "update"}
        <3>1. ~plugin[c.plugin].doc.removed /\ files[f] # NoBundle
            BY <1>0, <1>3, <2>1, <2>3 DEF Publishing
        <3>2. Active # {}
            BY <2>3 DEF Active
        <3>3. files'[f] = files[f]
            BY <1>1, <3>1, <3>2, ManifestsStay
        <3> QED
            BY <2>1, <2>2, <3>1, <3>3
    <2>4. CASE PutManifest(r) /\ files' # files
        <3>1. pc[r] = "manifest" /\ files' = [files EXCEPT ![f] = c.bundle]
            BY <2>4 DEF PutManifest, Create
        <3>2. ~plugin[c.plugin].doc.removed
            BY <1>1, <3>1 DEF Known, Openings, Opening, Early
        <3>3. f \in Paths /\ c.bundle # NoBundle
            BY <1>1, ManifestPathIs, DataAssumption
        <3>4. files'[f] # NoBundle
            BY <1>0, <3>1, <3>3 DEF TypeOK
        <3> QED
            BY <2>1, <2>2, <3>2, <3>4
    <2> QED
        BY <2>1, <2>3, <2>4
<1> QED
    BY <1>3 DEF Publishing

-----------------------------------------------------------------------------
(* The request in progress: the rows of the index. *)

LEMMA NoListingNoRow ==
    ASSUME Absent, TypeOK, LatestFollowsLists, NEW p \in Plugins, ~(plugin[p].gen > 0)
    PROVE  Owed(p) = NoVersion
<1>1. plugin[p].gen = 0
    BY DEF TypeOK
<1>2. Listed(plugin[p].doc) = {}
    BY <1>1 DEF Absent
<1>3. plugin[p].doc.latest = NoVersion
    BY <1>2 DEF LatestFollowsLists, LatestInstallable
<1> QED
    BY <1>3 DEF Owed

LEMMA RowingSteps ==
    ASSUME OneAtATime, Known, Sheet, NEW r \in Requests, Rowing(r),
           ListPlugins(r) \/ ReadState(r) \/ ReadManifest(r) \/ ReadIndex(r)
    PROVE  Rowing(r)'
<1>0. /\ pc \in [Requests -> Pcs] /\ mem \in [Requests -> Mem] /\ mem[r] \in Mem
      /\ TypeOK /\ LatestFollowsLists
    BY DEF Known, TypeOK
<1>1. mem[r].rows \in [Plugins -> Versions \cup {NoVersion}] /\ mem[r].scan \subseteq Plugins
    BY <1>0 DEF Mem, Rows
<1>2. UNCHANGED <<plugin, index>> /\ \A p : Owed(p)' = Owed(p)
    BY DEF ListPlugins, ReadState, ReadManifest, ReadIndex, Owed
<1>3. CASE ListPlugins(r)
    <2>1. /\ pc'[r] = "row"
          /\ mem'[r] = [Idle EXCEPT !.scan = {p \in Plugins : plugin[p].gen > 0}]
        BY <1>0, <1>3 DEF ListPlugins, Goto
    <2>2. /\ mem'[r].rows = NoRows
          /\ mem'[r].scan = {p \in Plugins : plugin[p].gen > 0}
        BY <2>1 DEF Idle
    <2>3. \A p \in Plugins \ mem'[r].scan : mem'[r].rows[p] = Owed(p)
        BY <1>0, <2>2, NoListingNoRow DEF NoRows, Known, Rooted
    <2> QED
        BY <1>2, <2>1, <2>3 DEF Rowing
<1>4. CASE ReadState(r) /\ mem[r].scan = {}
    <2>1. pc[r] = "row" /\ pc'[r] = "index" /\ mem' = mem
        BY <1>0, <1>4 DEF ReadState, Goto
    <2>2. \A p \in Plugins : mem[r].rows[p] = Owed(p)
        BY <1>4, <2>1 DEF Rowing
    <2> QED
        BY <1>2, <2>1, <2>2 DEF Rowing
<1>5. CASE ReadState(r) /\ mem[r].scan # {}
    <2> DEFINE skipped(p) == plugin[p].doc.removed \/ plugin[p].doc.latest = NoVersion
               row(p) == IF skipped(p) THEN NoVersion ELSE plugin[p].doc.latest
    <2>1. PICK p \in mem[r].scan :
             /\ mem' = [mem EXCEPT ![r].scan = @ \ {p},
                               ![r].at = IF skipped(p) THEN NoPlugin ELSE p,
                               ![r].rows[p] = row(p)]
             /\ pc' = [pc EXCEPT ![r] = IF skipped(p) THEN "row" ELSE "row manifest"]
        BY <1>5 DEF ReadState, Goto
    <2>2. row(p) = Owed(p) /\ p \in Plugins
        BY <1>1 DEF Owed
    <2> HIDE DEF row, skipped
    <2>3. /\ mem'[r].scan = mem[r].scan \ {p}
          /\ mem'[r].at = IF skipped(p) THEN NoPlugin ELSE p
          /\ mem'[r].rows = [mem[r].rows EXCEPT ![p] = row(p)]
        BY <1>0, <2>1 DEF Mem
    <2>4. \A q \in Plugins \ mem[r].scan : mem[r].rows[q] = Owed(q)
        BY <1>5 DEF ReadState, Rowing
    <2>5. \A q \in Plugins \ mem'[r].scan : mem'[r].rows[q] = Owed(q)
        BY <1>1, <2>2, <2>3, <2>4
    <2>6. CASE skipped(p)
        <3>1. pc'[r] = "row"
            BY <1>0, <2>1, <2>6
        <3> QED
            BY <1>2, <2>5, <3>1 DEF Rowing
    <2>7. CASE ~skipped(p)
        <3>1. pc'[r] = "row manifest" /\ mem'[r].at = p /\ p \notin mem'[r].scan
            BY <1>0, <2>1, <2>3, <2>7
        <3>2. ~plugin[p].doc.removed /\ plugin[p].doc.latest # NoVersion
            BY <2>7 DEF skipped
        <3> QED
            BY <1>2, <2>2, <2>5, <3>1, <3>2 DEF Rowing
    <2> QED
        BY <2>6, <2>7
<1>6. CASE ReadManifest(r)
    <2> DEFINE p == mem[r].at
               found == files[ManifestPath(p, mem[r].rows[p])] # NoBundle
    <2>1. /\ pc[r] = "row manifest" /\ pc'[r] = "row"
          /\ mem' = [mem EXCEPT ![r].at = NoPlugin,
                           ![r].rows[p] = IF found THEN @ ELSE NoVersion]
        BY <1>0, <1>6 DEF ReadManifest, Goto
    <2>2. /\ p \in Plugins /\ ~plugin[p].doc.removed
          /\ plugin[p].doc.latest # NoVersion /\ p \notin mem[r].scan
          /\ \A q \in Plugins \ mem[r].scan : mem[r].rows[q] = Owed(q)
        BY <2>1 DEF Rowing
    <2>3. mem[r].rows[p] = plugin[p].doc.latest
        BY <2>2 DEF Owed
    <2>4. found
        BY <1>0, <2>2, <2>3, RowIsOwed DEF Sheet
    <2> HIDE DEF found, p
    <2>5. mem'[r].scan = mem[r].scan /\ mem'[r].rows = mem[r].rows
        BY <1>0, <1>1, <2>1, <2>2, <2>4 DEF Mem
    <2> QED
        BY <1>2, <2>1, <2>2, <2>5 DEF Rowing
<1>7. CASE ReadIndex(r)
    <2>1. /\ pc[r] = "index" /\ pc'[r] = "write index"
          /\ mem'[r].rows = mem[r].rows /\ mem'[r].gen = index.gen
        BY <1>0, <1>7 DEF ReadIndex, Goto, Mem
    <2> QED
        BY <1>2, <2>1 DEF Rowing
<1> QED
    BY <1>3, <1>4, <1>5, <1>6, <1>7

LEMMA NextRowing ==
    ASSUME OneAtATime, Known, Sheet, NEW r \in Requests, Rowing(r), Acts(r)
    PROVE  Rowing(r)'
<1> SUFFICES ASSUME pc'[r] \in HoldsRows
             PROVE  ListPlugins(r) \/ ReadState(r) \/ ReadManifest(r) \/ ReadIndex(r)
    BY RowingSteps DEF Rowing, HoldsRows
<1>0. pc \in [Requests -> Pcs]
    BY DEF Known, TypeOK
<1> USE DEF HoldsRows
<1>a. ~\E c \in Calls : Start(r, c)
    BY <1>0 DEF Start, FirstStep
<1>b. ~(Lost(r) \/ Refused(r) \/ Late(r))
    BY <1>0 DEF Lost, Refused, Late, End
<1>c. ~Dropped(r)
    BY DEF Dropped, Fault, OneAtATime
<1>d. ~(Check(r) \/ Probe(r) \/ PutJar(r) \/ PutManifest(r) \/ PutNotes(r))
    BY <1>0 DEF Check, Probe, PutJar, PutManifest, PutNotes, Answer, End, Goto
<1>e. ~(Load(r) \/ Update(r) \/ ListToPurge(r) \/ DeleteNext(r))
    BY <1>0 DEF Load, Update, AfterCommit, ListToPurge, DeleteNext, Retry, Answer, End, Goto
<1>f. ~WriteIndex(r)
    <2>1. WriteIndex(r) => CommitIndex(r) /\ Answer(r, "ok")
        BY DEF WriteIndex, Rowing
    <2> QED
        BY <1>0, <2>1 DEF Answer, End
<1> QED
    BY <1>a, <1>b, <1>c, <1>d, <1>e, <1>f DEF Acts, Step

-----------------------------------------------------------------------------
(* The request in progress, and the others. *)

LEMMA OthersKeep ==
    ASSUME NEW q \in Requests, pc'[q] \in {"idle", "done"}
    PROVE  Publishing(q)' /\ Rowing(q)'
BY DEF Publishing, Rowing

LEMMA NextInHand ==
    ASSUME OneAtATime, Known, Apart, Sheet, InHand, [Next]_vars
    PROVE  InHand'
<1>0. TypeOK
    BY DEF Known
<1>1. CASE UNCHANGED vars
    <2> SUFFICES ASSUME NEW r \in Requests
                 PROVE  Publishing(r)' /\ Rowing(r)'
        BY DEF InHand
    <2>1. Publishing(r)'
        BY <1>1 DEF vars, InHand, Publishing
    <2>3. Rowing(r)'
        BY <1>1 DEF vars, InHand, Rowing, Owed
    <2> QED
        BY <2>1, <2>3
<1>2. CASE Next
    <2>1. CASE Sweep \/ SweepLost
        <3>1. /\ Active = {} /\ UNCHANGED <<pc, call, reply>>
            BY <1>0, <2>1, SweepsRunAlone
        <3>2. \A q \in Requests : pc[q] \in {"idle", "done"}
            BY <3>1 DEF Active
        <3> QED
            BY <3>1, <3>2, OthersKeep DEF InHand
    <2>2. ASSUME NEW r \in Requests, Acts(r)
          PROVE  InHand'
        <3>1. Publishing(r)' /\ Rowing(r)'
            BY <1>2, <2>2, NextPublishing, NextRowing DEF InHand
        <3>2. ASSUME NEW q \in Requests \ {r}
              PROVE  Publishing(q)' /\ Rowing(q)'
            BY <1>0, <2>2, NobodyBeside, OthersStay, OthersKeep
        <3> QED
            BY <3>1, <3>2 DEF InHand
    <2> QED
        BY <1>2, <2>1, <2>2 DEF Next, Acts
<1> QED
    BY <1>1, <1>2

-----------------------------------------------------------------------------
(* The catalogue. *)

\* Behind plugin.json a request ends well only with the write of the index.
LEMMA IndexIsLast ==
    ASSUME OneAtATime, TypeOK, NEW r \in Requests, Rowing(r), Acts(r),
           pc[r] \in AfterUpdate, pc'[r] \notin AfterUpdate,
           reply'[r] \notin {"lost", "unavailable", "storageConflict"}
    PROVE  pc[r] = "write index" /\ UNCHANGED plugin /\ index'.rows = mem[r].rows
<1>0. pc \in [Requests -> Pcs] /\ reply \in [Requests -> Replies]
    BY DEF TypeOK
<1> USE DEF AfterUpdate
<1>a. CASE \E c \in Calls : Start(r, c)
    BY <1>a DEF Start
<1>b. CASE Lost(r)
    BY <1>0, <1>b DEF Lost, End
<1>c. CASE Refused(r) \/ Dropped(r)
    BY <1>c DEF Refused, Dropped, Fault, OneAtATime
<1>d. CASE Late(r)
    BY <1>0, <1>d, CommittedRows DEF Late, End
<1>e. CASE Check(r) \/ Probe(r) \/ PutJar(r) \/ PutManifest(r) \/ PutNotes(r)
    BY <1>e DEF Check, Probe, PutJar, PutManifest, PutNotes
<1>f. CASE Load(r) \/ Update(r)
    BY <1>f DEF Load, Update
<1>g. CASE ListToPurge(r) \/ DeleteNext(r) \/ ListPlugins(r)
    BY <1>0, <1>g DEF ListToPurge, DeleteNext, ListPlugins, Goto
<1>h. CASE ReadState(r) \/ ReadManifest(r) \/ ReadIndex(r)
    BY <1>0, <1>h DEF ReadState, ReadManifest, ReadIndex, Goto
<1>i. CASE WriteIndex(r)
    <2>1. CommitIndex(r) /\ UNCHANGED plugin /\ pc[r] = "write index"
        BY <1>i DEF WriteIndex, Rowing
    <2> QED
        BY <2>1, CommittedRows
<1> QED
    BY <1>a, <1>b, <1>c, <1>d, <1>e, <1>f, <1>g, <1>h, <1>i DEF Acts, Step

\* An advisory changes no row.
LEMMA AdvisedOwesTheSame ==
    ASSUME TypeOK, Snapshot, NEW r \in Requests, pc[r] = "update", Commit(r),
           call[r].op = "advise", NEW p \in Plugins
    PROVE  Owed(p)' = Owed(p)
<1> DEFINE q == call[r].plugin
           d == plugin[q].doc
<1>1. /\ d \in Doc
      /\ plugin'[q] = [gen |-> plugin[q].gen + 1, doc |-> Mutate(call[r], d)]
      /\ \A o \in Plugins \ {q} : plugin'[o] = plugin[o]
    BY CommitEffect
<1>2. Mutate(call[r], d) = [d EXCEPT !.advised = @ \cup {call[r].version}]
    BY DEF Mutate, PublishOps
<1>3. Mutate(call[r], d).latest = d.latest /\ Mutate(call[r], d).removed = d.removed
    BY <1>1, <1>2 DEF Doc
<1> QED
    BY <1>1, <1>3 DEF Owed

LEMMA NextCaughtUp ==
    ASSUME OneAtATime, Known, Apart, InHand, CaughtUp, [Next]_vars
    PROVE  CaughtUp'
<1> SUFFICES ASSUME Clean', \A q \in Requests : pc'[q] \notin AfterUpdate, NEW p \in Plugins
             PROVE  index'.rows[p] = Owed(p)'
    BY DEF CaughtUp
<1>0. TypeOK /\ Snapshot /\ Kept
    BY DEF Known
<1>1. ASSUME UNCHANGED <<plugin, index, pc, reply>>
      PROVE  index'.rows[p] = Owed(p)'
    <2>1. Clean /\ \A q \in Requests : pc[q] \notin AfterUpdate
        BY <1>1 DEF Clean
    <2>2. Owed(p)' = Owed(p)
        BY <1>1 DEF Owed
    <2> QED
        BY <1>1, <2>1, <2>2 DEF CaughtUp
<1>2. ASSUME NEW r \in Requests, Acts(r)
      PROVE  index'.rows[p] = Owed(p)'
    <2>1. CASE pc[r] \in AfterUpdate
        <3>1. pc[r] = "write index" /\ UNCHANGED plugin /\ index'.rows = mem[r].rows
            BY <1>0, <1>2, <2>1, IndexIsLast DEF Clean, InHand
        <3>2. mem[r].rows[p] = Owed(p)
            BY <3>1 DEF InHand, Rowing
        <3> QED
            BY <3>1, <3>2 DEF Owed
    <2>2. CASE pc[r] \notin AfterUpdate
        <3>1. \A q \in Requests : pc[q] \notin AfterUpdate
            BY <1>0, <1>2, <2>2, OthersStay
        <3>2. Clean
            <4>1. reply[r] = ""
                <5>1. pc[r] # "done"
                    BY <1>2, WhoActs DEF Start, Active
                <5> QED
                    BY <1>0, <5>1 DEF Kept
            <4> QED
                BY <1>0, <1>2, <4>1, OthersStay DEF Clean
        <3>3. index.rows[p] = Owed(p)
            BY <3>1, <3>2 DEF CaughtUp
        <3>4. UNCHANGED index
            BY <1>2, <2>2, OnlyRowsAreWritten DEF AfterUpdate
        <3>5. CASE UNCHANGED plugin
            BY <3>3, <3>4, <3>5 DEF Owed
        <3>6. CASE ~UNCHANGED plugin
            <4>1. pc[r] = "update" /\ Commit(r) /\ call[r].op = "advise"
                BY <1>0, <1>2, <3>6, CommitMovesOn DEF Clean, AfterCommit, AfterUpdate
            <4>2. Owed(p)' = Owed(p)
                BY <1>0, <4>1, AdvisedOwesTheSame
            <4> QED
                BY <3>3, <3>4, <4>2
        <3> QED
            BY <3>5, <3>6
    <2> QED
        BY <2>1, <2>2
<1>3. CASE UNCHANGED vars \/ Sweep \/ SweepLost
    BY <1>1, <1>3, SweepWritesNoState DEF vars
<1> QED
    BY <1>2, <1>3 DEF Next, Acts

-----------------------------------------------------------------------------
(* The first state. *)

LEMMA ShelfDocIs ==
    ASSUME NEW p
    PROVE  /\ ShelfDoc(p).versions = [v \in Versions |-> Shelved(p, v)]
           /\ ~ShelfDoc(p).removed
<1> DEFINE d == [EmptyDoc EXCEPT !.versions = [v \in Versions |-> Shelved(p, v)]]
<1>1. d \in Doc
    BY EmptyDocType, ShelvedType DEF Doc
<1>2. d.versions = [v \in Versions |-> Shelved(p, v)] /\ ~d.removed
    BY DEF EmptyDoc
<1> QED
    BY <1>1, <1>2, RecomputedKeeps DEF ShelfDoc

LEMMA InitSheet == Init => Rooted /\ Openings /\ Apart /\ Sheet /\ InHand /\ CaughtUp
<1> SUFFICES ASSUME Init PROVE Rooted /\ Openings /\ Apart /\ Sheet /\ InHand /\ CaughtUp
    OBVIOUS
<1>1. Apart
    BY DEF Init, Apart, Active, NoSweep
<1>2. ASSUME NEW p \in Plugins
      PROVE  /\ plugin[p].gen = 0 => ~OnShelf(p)
             /\ plugin[p].doc = ShelfDoc(p)
             /\ index.rows[p] = ShelfDoc(p).latest
    <2>1. plugin = [q \in Plugins |->
                      [gen |-> IF OnShelf(q) THEN 1 ELSE 0, doc |-> ShelfDoc(q)]]
        BY DEF Init
    <2>2. index = [gen |-> IF Shelf = {} THEN 0 ELSE 1,
                   rows |-> [q \in Plugins |-> ShelfDoc(q).latest]]
        BY DEF Init
    <2>3. plugin[p] = [gen |-> IF OnShelf(p) THEN 1 ELSE 0, doc |-> ShelfDoc(p)]
        BY <2>1, <1>2
    <2>4. index.rows = [q \in Plugins |-> ShelfDoc(q).latest]
        BY <2>2
    <2> QED
        BY <1>2, <2>3, <2>4
<1>3. Absent
    <2> SUFFICES ASSUME NEW p \in Plugins, plugin[p].gen = 0
                 PROVE  Listed(plugin[p].doc) = {} /\ ~plugin[p].doc.removed
        BY DEF Absent
    <2>1. \A v \in Versions : Shelved(p, v) = NoBundle
        BY <1>2 DEF Shelved, OnShelf
    <2>2. /\ plugin[p].doc.versions = [v \in Versions |-> Shelved(p, v)]
          /\ ~plugin[p].doc.removed
        BY <1>2, ShelfDocIs
    <2>3. \A v \in Versions : plugin[p].doc.versions[v] = NoBundle
        BY <2>1, <2>2
    <2> QED
        BY <2>2, <2>3 DEF Listed
<1>4. Complete
    <2> SUFFICES ASSUME NEW p \in Plugins, NEW v \in Versions,
                        v \in Listed(plugin[p].doc), ~plugin[p].doc.removed
                 PROVE  files[ManifestPath(p, v)] # NoBundle
        BY DEF Complete
    <2>1. ListedIsComplete
        BY InitInOrder DEF PublishesInOrder
    <2> QED
        BY <2>1 DEF ListedIsComplete, Listed
<1>5. DoomedAreOrphans
    BY DEF Init, NoSweep, DoomedAreOrphans
<1>6. InHand
    BY DEF Init, InHand, Publishing, Rowing
<1>7. CaughtUp
    BY <1>2, ShelfDocIs DEF CaughtUp, Owed
<1>8. Rooted /\ Openings
    BY <1>3 DEF Init, Rooted, Openings, Opening, DeletesOwn, Early
<1> QED
    BY <1>1, <1>4, <1>5, <1>6, <1>7, <1>8 DEF Sheet

LEMMA RootedStays == Spec => []Rooted
<1>1. TypeOK /\ Snapshot /\ Rooted /\ [Next]_vars => Rooted'
    BY NextRooted
<1> QED
    BY InitSheet, TypeCorrect, SnapshotIsCurrent, <1>1, PTL DEF Spec

LEMMA KeptStays == Spec => []Kept
<1>1. TypeOK /\ Snapshot /\ Kept /\ [Next]_vars => Kept'
    BY NextKept
<1> QED
    BY InitKept, TypeCorrect, SnapshotIsCurrent, <1>1, PTL DEF Spec

LEMMA RemovalsStay ==
    ASSUME NEW p \in Plugins, NEW v \in Versions
    PROVE  Spec => ([]Undisturbed(p, v) => []Removals(p, v))
<1>1. Init => Removals(p, v)
    BY DEF Init, Removals, Opening, Emptying, Early, HoldsRows
<1>2. TypeOK /\ Snapshot /\ Kept /\ Rooted /\ Undisturbed(p, v)
        /\ Undisturbed(p, v)' /\ Removals(p, v) /\ [Next]_vars => Removals(p, v)'
    BY NextRemovals
<1> QED
    BY TypeCorrect, SnapshotIsCurrent, KeptStays, RootedStays, <1>1, <1>2, PTL DEF Spec

LEMMA NextOpenings ==
    ASSUME TypeOK, Snapshot, Rooted, Apart, Openings, [Next]_vars
    PROVE  Openings'
<1>1. ASSUME NEW p \in Plugins, NEW v \in Versions
      PROVE  ~UploadMeetsRemoval(p, v)
    <2> SUFFICES ASSUME NEW r \in Active, Removing(r, p),
                        pc[r] \in {"probe", "jar", "manifest", "notes"}
                 PROVE  FALSE
        BY DEF UploadMeetsRemoval, Apart, Active
    <2> QED
        BY DEF Rooted, Removing, PublishOps, Early, Active
<1>2. CASE UNCHANGED vars
    BY <1>2 DEF vars, Openings, Opening
<1>3. CASE Next
    BY <1>1, <1>3, NextOpening DEF Openings, Rooted
<1> QED
    BY <1>2, <1>3

LEMMA OneAtATimeStays ==
    ASSUME OneAtATime
    PROVE  Spec => [](Known /\ Apart /\ Sheet /\ InHand /\ CaughtUp)
<1>1. Spec => []Apart
    <2>1. TypeOK /\ Apart /\ [Next]_vars => Apart'
        BY NextApart
    <2> QED
        BY InitSheet, TypeCorrect, <2>1, PTL DEF Spec
<1>2. Spec => []Openings
    <2>1. TypeOK /\ Snapshot /\ Rooted /\ Apart /\ Openings /\ [Next]_vars => Openings'
        BY NextOpenings
    <2> QED
        BY InitSheet, TypeCorrect, SnapshotIsCurrent, RootedStays, <1>1, <2>1, PTL DEF Spec
<1>3. Spec => []Known
    <2>1. TypeOK /\ Snapshot /\ Kept /\ LatestFollowsLists /\ Rooted /\ Openings => Known
        BY DEF Known
    <2> QED
        BY TypeCorrect, SnapshotIsCurrent, LatestIsRecomputed, KeptStays, RootedStays,
           <1>2, <2>1, PTL
<1>4. Known /\ Apart /\ Sheet /\ InHand /\ CaughtUp /\ [Next]_vars
         => (Sheet /\ InHand /\ CaughtUp)'
    BY NextSheet, NextInHand, NextCaughtUp
<1> QED
    BY InitSheet, <1>1, <1>3, <1>4, PTL DEF Spec

-----------------------------------------------------------------------------
(* The theorems. *)

\* A removal that was answered with success is final for every version that no
\* publish was uploading while the plugin was being removed: nothing of it is left
\* below plugins/ and nothing comes back, whatever else runs at the same time
\* (publishes of other versions, or of this one further on; blocks; a second
\* removal; the cleanup), after publishes and removals that were interrupted, and
\* with any store errors but those a handler drops (RemovePlugin, cleanupOrphans).
THEOREM RemovalsAreFinal == Spec => RemovalIsFinal
<1>1. ASSUME NEW p \in Plugins, NEW v \in Versions
      PROVE  Spec => ([](~UploadMeetsRemoval(p, v) /\ ErrorsAreSeen)
                         => []RemovedFromPlugins(p, v))
    <2>1. Removals(p, v) => RemovedFromPlugins(p, v)
        BY DEF Removals, Emptying, NothingOf, RemovedFromPlugins
    <2>2. ~UploadMeetsRemoval(p, v) /\ ErrorsAreSeen => Undisturbed(p, v)
        BY DEF Undisturbed
    <2> QED
        BY RemovalsStay, <2>1, <2>2, PTL
<1> QED
    BY <1>1 DEF RemovalIsFinal

\* With requests one at a time, whoever writes index.json writes the rows of the
\* plugin states at that moment (rebuildIndex).
THEOREM IndexIsWrittenExactly ==
    ASSUME OneAtATime
    PROVE  Spec => IndexWritesAreExact
<1>1. Known /\ Sheet /\ InHand /\ [Next]_vars =>
         [index' # index => \A p \in Plugins : index'.rows[p] = Row(p)]_vars
    <2> SUFFICES ASSUME Known, Sheet, InHand, Next, index' # index, NEW p \in Plugins
                 PROVE  index'.rows[p] = Row(p)
        OBVIOUS
    <2>1. PICK r \in Requests : Acts(r)
        BY SweepWritesNoState DEF Next, Acts
    <2>2. pc[r] = "write index" /\ index'.rows = mem[r].rows
        BY <2>1, OnlyRowsAreWritten
    <2>3. mem[r].rows[p] = Owed(p)
        BY <2>2 DEF InHand, Rowing
    <2> QED
        BY <2>2, <2>3, RowIsOwed DEF Known, Sheet
<1> QED
    BY OneAtATimeStays, <1>1, PTL DEF Spec, IndexWritesAreExact

\* With requests one at a time, and as long as none of them was cut short, the
\* catalogue between requests is the one the plugin states give.
THEOREM CatalogueFollows ==
    ASSUME OneAtATime
    PROVE  Spec => []CatalogueIsCurrent
<1>1. Known /\ Sheet /\ CaughtUp => CatalogueIsCurrent
    <2> SUFFICES ASSUME Known, Sheet, CaughtUp, Active = {}, Clean, NEW p \in Plugins
                 PROVE  index.rows[p] = Row(p)
        BY DEF CatalogueIsCurrent, Clean
    <2>1. \A r \in Requests : pc[r] \notin AfterUpdate
        BY DEF Active, AfterUpdate
    <2> QED
        BY <2>1, RowIsOwed DEF CaughtUp, Known, Sheet
<1> QED
    BY OneAtATimeStays, <1>1, PTL

=============================================================================
