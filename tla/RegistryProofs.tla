---------------------------- MODULE RegistryProofs ----------------------------
(***************************************************************************)
(* Theorems about Registry, types and safety: for every set of plugins,     *)
(* versions, jars, requests and calls, with all the faults, and (except     *)
(* where a theorem says ~Sweeping) with the orphan cleanup running.         *)
(*                                                                         *)
(* The argument: a document in hand is never newer than the stored one and  *)
(* equals it when the generations agree (Snapshot), so a commit changes the *)
(* current document by Mutate, which only adds (Grows).  What was once true *)
(* of a document because something is in it therefore stays true.           *)
(***************************************************************************)
EXTENDS Registry, SequenceTheorems, TLAPS

-----------------------------------------------------------------------------
(* What the document operators return.                                      *)

LEMMA LatestType ==
    ASSUME NEW listed \in SUBSET Versions, NEW blocked
    PROVE  LatestInstallable(listed, blocked) \in Versions \cup {NoVersion}
BY VersionsAssumption DEF LatestInstallable

LEMMA EmptyDocType == EmptyDoc \in Doc
BY DEF EmptyDoc, Doc

LEMMA RecomputedType ==
    ASSUME NEW d \in Doc
    PROVE  Recomputed(d) \in Doc
<1>1. Listed(d) \in SUBSET Versions
    BY DEF Listed
<1>2. LatestInstallable(Listed(d), d.blocked) \in Versions \cup {NoVersion}
    BY <1>1, LatestType
<1> QED
    BY <1>2 DEF Recomputed, Doc

LEMMA CallFields ==
    ASSUME NEW c \in Call
    PROVE  /\ c.op \in Ops
           /\ c.plugin \in Plugins
           /\ c.version \in Versions
           /\ c.bundle \in Bundles
BY DEF Call

LEMMA MutateType ==
    ASSUME NEW c \in Call, NEW d \in Doc
    PROVE  Mutate(c, d) \in Doc
<1>1. CASE c.op \in PublishOps
    <2>1. [d EXCEPT !.versions[c.version] = c.bundle] \in Doc
        BY CallFields DEF Doc
    <2> QED
        BY <1>1, <2>1, RecomputedType DEF Mutate, PublishOps
<1>2. CASE c.op = "block"
    <2>1. [d EXCEPT !.blocked = @ \cup {c.version}] \in Doc
        BY CallFields DEF Doc
    <2> QED
        BY <1>2, <2>1, RecomputedType DEF Mutate, PublishOps
<1>3. CASE c.op \notin PublishOps \cup {"block"}
    BY <1>3, CallFields DEF Mutate, PublishOps, Doc
<1> QED
    BY <1>1, <1>2, <1>3

LEMMA RefusalType ==
    ASSUME NEW c, NEW s
    PROVE  Refusal(c, s) \in Replies
BY DEF Refusal, Replies

LEMMA IdleType == Idle \in Mem
BY EmptyDocType, BoundAssumption DEF Idle, Mem, NoRows, Rows

LEMMA PathTypes ==
    ASSUME NEW p \in Plugins, NEW v \in Versions, NEW b \in Bundles
    PROVE  /\ ManifestPath(p, v) \in Paths
           /\ JarPath(p, v, b) \in Paths
           /\ PathOf("notes", p, v) \in Paths
BY DEF ManifestPath, JarPath, PathOf, Access, Paths, Kinds

LEMMA ShelvedType ==
    ASSUME NEW p, NEW v
    PROVE  Shelved(p, v) \in Bundles \cup {NoBundle}
BY ShelfAssumption DEF Shelved

LEMMA ShelfDocType ==
    ASSUME NEW p
    PROVE  ShelfDoc(p) \in Doc
<1>1. [EmptyDoc EXCEPT !.versions = [v \in Versions |-> Shelved(p, v)]] \in Doc
    BY EmptyDocType, ShelvedType DEF Doc
<1> QED
    BY <1>1, RecomputedType DEF ShelfDoc

-----------------------------------------------------------------------------
(* Type correctness.                                                        *)

LEMMA InitTypeOK == Init => TypeOK
<1> SUFFICES ASSUME Init PROVE TypeOK
    OBVIOUS
<1>1. plugin \in [Plugins -> [gen : Nat, doc : Doc]]
    BY ShelfDocType DEF Init
<1>2. files \in [Paths -> Bundles \cup {NoBundle}]
    <2>1. \A f \in Paths : Shelved(f.plugin, f.version) \in Bundles \cup {NoBundle}
        BY ShelvedType
    <2> QED
        BY <2>1 DEF Init
<1>3. index \in [gen : Nat, rows : Rows]
    <2>1. \A p \in Plugins : ShelfDoc(p).latest \in Versions \cup {NoVersion}
        BY ShelfDocType DEF Doc
    <2> QED
        BY <2>1 DEF Init, Rows
<1>4. call \in [Requests -> Call]
    BY DataAssumption DEF Init
<1>5. mem \in [Requests -> Mem]
    BY IdleType DEF Init
<1>6. sweep \in [on : BOOLEAN, todo : SUBSET Paths, doomed : SUBSET Paths]
    BY DEF Init, NoSweep
<1>7. faults \in Seq(FaultKinds)
    BY EmptySeq DEF Init
<1> QED
    BY <1>1, <1>2, <1>3, <1>4, <1>5, <1>6, <1>7 DEF Init, TypeOK, Pcs, Replies

\* Ending a request, and moving it on, are typed whatever else happens.
LEMMA EndType ==
    ASSUME TypeOK, NEW r \in Requests, NEW code \in Replies, End(r, code)
    PROVE  /\ pc' \in [Requests -> Pcs]
           /\ call' \in [Requests -> Call]
           /\ mem' \in [Requests -> Mem]
           /\ reply' \in [Requests -> Replies]
           /\ sweep' \in [on : BOOLEAN, todo : SUBSET Paths, doomed : SUBSET Paths]
BY IdleType DEF TypeOK, End, Pcs

\* A fault is put at the end of the record.
LEMMA FaultIsRecorded ==
    ASSUME TypeOK, NEW kind, Fault(kind)
    PROVE  /\ faults' \in Seq(FaultKinds) /\ faults' # <<>>
           /\ \E i \in DOMAIN faults' : faults'[i] = kind
<1>1. /\ faults \in Seq(FaultKinds) /\ kind \in FaultKinds
      /\ faults' = Append(faults, kind)
    BY DEF TypeOK, Fault
<1>2. /\ Len(faults) \in Nat /\ Len(faults') = Len(faults) + 1
      /\ faults'[Len(faults) + 1] = kind
    BY <1>1
<1>3. Len(faults) + 1 \in DOMAIN faults'
    BY <1>1, <1>2
<1> QED
    BY <1>1, <1>2, <1>3

LEMMA GotoType ==
    ASSUME TypeOK, NEW r \in Requests, NEW there \in Pcs, Goto(r, there)
    PROVE  /\ pc' \in [Requests -> Pcs]
           /\ call' \in [Requests -> Call]
           /\ reply' \in [Requests -> Replies]
           /\ sweep' \in [on : BOOLEAN, todo : SUBSET Paths, doomed : SUBSET Paths]
           /\ faults' \in Seq(FaultKinds)
BY DEF TypeOK, Goto

LEMMA CreateType ==
    ASSUME TypeOK, NEW f \in Paths, NEW b \in Bundles, Create(f, b)
    PROVE  files' \in [Paths -> Bundles \cup {NoBundle}]
BY DEF TypeOK, Create

LEMMA CommitType ==
    ASSUME TypeOK, NEW r \in Requests, Commit(r)
    PROVE  plugin' \in [Plugins -> [gen : Nat, doc : Doc]]
<1>1. call[r] \in Call /\ mem[r] \in Mem
    BY DEF TypeOK
<1>2. mem[r].seen.gen \in Nat /\ mem[r].seen.doc \in Doc
    BY <1>1 DEF Mem
<1>3. Mutate(call[r], mem[r].seen.doc) \in Doc
    BY <1>1, <1>2, MutateType
<1> DEFINE new == [gen |-> mem[r].seen.gen + 1,
                   doc |-> Mutate(call[r], mem[r].seen.doc)]
<1>4. new \in [gen : Nat, doc : Doc]
    BY <1>2, <1>3
<1>5. plugin' = [plugin EXCEPT ![call[r].plugin] = new]
    BY DEF Commit
<1> QED
    BY <1>4, <1>5 DEF TypeOK

LEMMA CommitIndexType ==
    ASSUME TypeOK, NEW r \in Requests, CommitIndex(r)
    PROVE  index' \in [gen : Nat, rows : Rows]
<1>1. mem[r] \in Mem
    BY DEF TypeOK
<1> QED
    BY <1>1 DEF TypeOK, CommitIndex, Mem

LEMMA RetryType ==
    ASSUME TypeOK, NEW r \in Requests, NEW from \in Pcs, NEW code \in Replies,
           Retry(r, from, code)
    PROVE  /\ pc' \in [Requests -> Pcs]
           /\ call' \in [Requests -> Call]
           /\ mem' \in [Requests -> Mem]
           /\ reply' \in [Requests -> Replies]
           /\ sweep' \in [on : BOOLEAN, todo : SUBSET Paths, doomed : SUBSET Paths]
           /\ faults' \in Seq(FaultKinds)
<1>1. CASE mem[r].tries + 1 = MaxAttempts
    <2>1. End(r, code) /\ UNCHANGED faults
        BY <1>1 DEF Retry, Answer
    <2> QED
        BY <2>1, EndType DEF TypeOK
<1>2. CASE mem[r].tries + 1 # MaxAttempts
    <2>1. Goto(r, from) /\ mem' = [mem EXCEPT ![r].tries = @ + 1]
        BY <1>2 DEF Retry
    <2>2. mem[r] \in Mem
        BY DEF TypeOK
    <2>3. mem[r].tries + 1 \in 0 .. MaxAttempts - 1
        BY <1>2, <2>2, BoundAssumption DEF Mem
    <2>4. mem' \in [Requests -> Mem]
        BY <2>1, <2>2, <2>3 DEF TypeOK, Mem
    <2> QED
        BY <2>1, <2>4, GotoType
<1> QED
    BY <1>1, <1>2

LEMMA RebuildFailedType ==
    ASSUME NEW c, NEW code \in Replies
    PROVE  RebuildFailed(c, code) \in Replies
BY DEF RebuildFailed, Replies

LEMMA StepTypeOK ==
    ASSUME TypeOK, NEW r \in Requests, Step(r)
    PROVE  TypeOK'
<1>1. /\ call[r] \in Call
      /\ mem[r] \in Mem
      /\ plugin \in [Plugins -> [gen : Nat, doc : Doc]]
      /\ files \in [Paths -> Bundles \cup {NoBundle}]
      /\ index \in [gen : Nat, rows : Rows]
    BY DEF TypeOK
<1>2. /\ call[r].plugin \in Plugins
      /\ call[r].version \in Versions
      /\ call[r].bundle \in Bundles
    BY <1>1, CallFields
<1>3. /\ JarPath(call[r].plugin, call[r].version, call[r].bundle) \in Paths
      /\ ManifestPath(call[r].plugin, call[r].version) \in Paths
      /\ PathOf("notes", call[r].plugin, call[r].version) \in Paths
    BY <1>2, PathTypes
<1> USE DEF Answer
<1>a. CASE Check(r)
    <2>1. \/ Answer(r, "conflict")
          \/ Answer(r, "notFound")
          \/ \E there \in {"jar", "probe"} : Goto(r, there) /\ UNCHANGED mem
        BY <1>a DEF Check
    <2>2. UNCHANGED <<plugin, files, index>>
        BY <1>a DEF Check
    <2>3. {"jar", "probe"} \subseteq Pcs /\ {"conflict", "notFound"} \subseteq Replies
        BY DEF Pcs, Replies
    <2> QED
        BY <2>1, <2>2, <2>3, EndType, GotoType DEF TypeOK
<1>b. CASE Probe(r)
    <2>1. \/ Answer(r, "conflict")
          \/ Goto(r, "jar") /\ UNCHANGED mem
        BY <1>b DEF Probe
    <2>2. UNCHANGED <<plugin, files, index>>
        BY <1>b DEF Probe
    <2>3. "jar" \in Pcs /\ "conflict" \in Replies
        BY DEF Pcs, Replies
    <2> QED
        BY <2>1, <2>2, <2>3, EndType, GotoType DEF TypeOK
<1>c. CASE PutJar(r)
    <2>1. files' \in [Paths -> Bundles \cup {NoBundle}]
        BY <1>c, <1>1, <1>2, <1>3, CreateType DEF PutJar
    <2>2. Goto(r, "manifest") /\ UNCHANGED <<plugin, index, mem>>
        BY <1>c DEF PutJar
    <2>3. "manifest" \in Pcs
        BY DEF Pcs
    <2> QED
        BY <2>1, <2>2, <2>3, GotoType DEF TypeOK
<1>d. CASE PutManifest(r) \/ PutNotes(r)
    <2>1. files' \in [Paths -> Bundles \cup {NoBundle}]
        BY <1>d, <1>1, <1>2, <1>3, CreateType DEF PutManifest, PutNotes
    <2>2. \/ Answer(r, "storageConflict")
          \/ \E there \in {"notes", "load"} : Goto(r, there) /\ UNCHANGED mem
        BY <1>d DEF PutManifest, PutNotes
    <2>3. UNCHANGED <<plugin, index>>
        BY <1>d DEF PutManifest, PutNotes
    <2>4. {"notes", "load"} \subseteq Pcs /\ "storageConflict" \in Replies
        BY DEF Pcs, Replies
    <2> QED
        BY <2>1, <2>2, <2>3, <2>4, EndType, GotoType DEF TypeOK
<1>e. CASE Load(r)
    <2>1. mem' \in [Requests -> Mem]
        BY <1>e, <1>1, <1>2 DEF Load, TypeOK, Mem
    <2>2. Goto(r, "update") /\ UNCHANGED <<plugin, files, index>>
        BY <1>e DEF Load
    <2>3. "update" \in Pcs
        BY DEF Pcs
    <2> QED
        BY <2>1, <2>2, <2>3, GotoType DEF TypeOK
<1>f. CASE Update(r)
    <2>0. UNCHANGED <<files, index>>
        BY <1>f DEF Update
    <2>1. CASE Answer(r, Refusal(call[r], mem[r].seen)) /\ UNCHANGED plugin
        BY <2>0, <2>1, RefusalType, EndType DEF TypeOK
    <2>2. CASE Commit(r) /\ Answer(r, "ok")
        <3>1. "ok" \in Replies
            BY DEF Replies
        <3> QED
            BY <2>0, <2>2, <3>1, CommitType, EndType DEF TypeOK
    <2>3. CASE /\ Commit(r)
               /\ Goto(r, AfterCommit(call[r]))
               /\ mem' = [mem EXCEPT ![r] = Idle]
        <3>1. AfterCommit(call[r]) \in Pcs
            BY DEF AfterCommit, Pcs
        <3> QED
            BY <2>0, <2>3, <3>1, CommitType, GotoType, IdleType DEF TypeOK
    <2>4. CASE Retry(r, "load", "storageConflict") /\ UNCHANGED plugin
        <3>1. "load" \in Pcs /\ "storageConflict" \in Replies
            BY DEF Pcs, Replies
        <3> QED
            BY <2>0, <2>4, <3>1, RetryType DEF TypeOK
    <2> QED
        BY <1>f, <2>1, <2>2, <2>3, <2>4 DEF Update
<1>g. CASE ListToPurge(r)
    <2>1. mem' \in [Requests -> Mem]
        BY <1>g, <1>1 DEF ListToPurge, TypeOK, Mem, Browsable
    <2>2. Goto(r, "delete") /\ UNCHANGED <<plugin, files, index>>
        BY <1>g DEF ListToPurge
    <2>3. "delete" \in Pcs
        BY DEF Pcs
    <2> QED
        BY <2>1, <2>2, <2>3, GotoType DEF TypeOK
<1>h. CASE DeleteNext(r)
    <2>1. \E there \in {"delete", "list"} : Goto(r, there)
        BY <1>h DEF DeleteNext
    <2>2. mem' \in [Requests -> Mem]
        <3>1. ASSUME NEW f \in mem[r].todo
              PROVE  [mem[r] EXCEPT !.todo = @ \ {f}] \in Mem
            BY <1>1 DEF Mem
        <3> QED
            BY <1>h, <3>1 DEF DeleteNext, TypeOK
    <2>3. files' \in [Paths -> Bundles \cup {NoBundle}]
        BY <1>h, <1>1 DEF DeleteNext, Erase
    <2>4. UNCHANGED <<plugin, index>>
        BY <1>h DEF DeleteNext
    <2>5. {"delete", "list"} \subseteq Pcs
        BY DEF Pcs
    <2> QED
        BY <2>1, <2>2, <2>3, <2>4, <2>5, GotoType DEF TypeOK
<1>i. CASE ListPlugins(r)
    <2>1. [Idle EXCEPT !.scan = {p \in Plugins : plugin[p].gen > 0}] \in Mem
        BY IdleType DEF Mem
    <2>2. mem' \in [Requests -> Mem]
        BY <1>i, <2>1 DEF ListPlugins, TypeOK
    <2>3. Goto(r, "row") /\ UNCHANGED <<plugin, files, index>>
        BY <1>i DEF ListPlugins
    <2>4. "row" \in Pcs
        BY DEF Pcs
    <2> QED
        BY <2>2, <2>3, <2>4, GotoType DEF TypeOK
<1>j. CASE ReadState(r)
    <2>1. \E there \in {"row", "row manifest", "index"} : Goto(r, there)
        BY <1>j DEF ReadState
    <2>2. UNCHANGED <<plugin, files, index>>
        BY <1>j DEF ReadState
    <2>3. mem' \in [Requests -> Mem]
        <3>1. CASE UNCHANGED mem
            BY <3>1 DEF TypeOK
        <3>2. ASSUME NEW p \in mem[r].scan,
                     NEW at \in {NoPlugin, p},
                     NEW row \in {NoVersion, plugin[p].doc.latest},
                     mem' = [mem EXCEPT ![r].scan = @ \ {p}, ![r].at = at,
                                        ![r].rows[p] = row]
              PROVE  mem' \in [Requests -> Mem]
            <4>1. p \in Plugins
                BY <1>1, <3>2 DEF Mem
            <4>2. row \in Versions \cup {NoVersion}
                BY <1>1, <4>1 DEF Doc
            <4>3. mem[r].rows \in Rows /\ [mem[r].rows EXCEPT ![p] = row] \in Rows
                BY <1>1, <4>1, <4>2 DEF Mem, Rows
            <4>4. [mem[r] EXCEPT !.scan = @ \ {p}, !.at = at,
                                 !.rows = [mem[r].rows EXCEPT ![p] = row]] \in Mem
                BY <1>1, <4>1, <4>3 DEF Mem
            <4> QED
                BY <3>2, <4>4 DEF TypeOK
        <3>3. \/ UNCHANGED mem
              \/ \E p \in mem[r].scan :
                    \E at \in {NoPlugin, p},
                       row \in {NoVersion, plugin[p].doc.latest} :
                       mem' = [mem EXCEPT ![r].scan = @ \ {p}, ![r].at = at,
                                          ![r].rows[p] = row]
            BY <1>j DEF ReadState
        <3> QED
            BY <3>1, <3>2, <3>3
    <2>4. {"row", "row manifest", "index"} \subseteq Pcs
        BY DEF Pcs
    <2> QED
        BY <2>1, <2>2, <2>3, <2>4, GotoType DEF TypeOK
<1>k. CASE ReadManifest(r)
    <2>1. mem' \in [Requests -> Mem]
        <3> DEFINE p == mem[r].at
                   row == IF files[ManifestPath(p, mem[r].rows[p])] # NoBundle
                          THEN mem[r].rows[p] ELSE NoVersion
        <3>1. mem' = [mem EXCEPT ![r].at = NoPlugin, ![r].rows[p] = row]
            BY <1>k DEF ReadManifest
        <3>2. [mem[r].rows EXCEPT ![p] = row] \in Rows
            BY <1>1 DEF Mem, Rows
        <3>3. [mem[r] EXCEPT !.at = NoPlugin,
                             !.rows = [mem[r].rows EXCEPT ![p] = row]] \in Mem
            BY <1>1, <3>2 DEF Mem
        <3> QED
            BY <3>1, <3>3 DEF TypeOK
    <2>2. Goto(r, "row") /\ UNCHANGED <<plugin, files, index>>
        BY <1>k DEF ReadManifest
    <2>3. "row" \in Pcs
        BY DEF Pcs
    <2> QED
        BY <2>1, <2>2, <2>3, GotoType DEF TypeOK
<1>l. CASE ReadIndex(r)
    <2>1. mem' \in [Requests -> Mem]
        BY <1>l, <1>1 DEF ReadIndex, TypeOK, Mem
    <2>2. Goto(r, "write index") /\ UNCHANGED <<plugin, files, index>>
        BY <1>l DEF ReadIndex
    <2>3. "write index" \in Pcs
        BY DEF Pcs
    <2> QED
        BY <2>1, <2>2, <2>3, GotoType DEF TypeOK
<1>m. CASE WriteIndex(r)
    <2>0. UNCHANGED <<plugin, files>>
        BY <1>m DEF WriteIndex
    <2>1. {"ok", "storageConflict"} \subseteq Replies /\ "index" \in Pcs
        BY DEF Replies, Pcs
    <2>2. CASE CommitIndex(r) /\ Answer(r, "ok")
        BY <2>0, <2>1, <2>2, CommitIndexType, EndType DEF TypeOK
    <2>3. CASE /\ Retry(r, "index", RebuildFailed(call[r], "storageConflict"))
               /\ UNCHANGED index
        <3>1. RebuildFailed(call[r], "storageConflict") \in Replies
            BY <2>1, RebuildFailedType
        <3> QED
            BY <2>0, <2>1, <2>3, <3>1, RetryType DEF TypeOK
    <2> QED
        BY <1>m, <2>2, <2>3 DEF WriteIndex
<1> QED
    BY <1>a, <1>b, <1>c, <1>d, <1>e, <1>f, <1>g, <1>h, <1>i, <1>j, <1>k, <1>l, <1>m
       DEF Step

LEMMA StartTypeOK ==
    ASSUME TypeOK, NEW r \in Requests, NEW c \in Calls, Start(r, c)
    PROVE  TypeOK'
<1>1. c \in Call
    BY DataAssumption
<1>2. FirstStep(c) \in Pcs
    BY DEF FirstStep, Pcs
<1> QED
    BY <1>1, <1>2 DEF Start, TypeOK

LEMMA FaultTypeOK ==
    ASSUME TypeOK, NEW r \in Requests,
           Lost(r) \/ Refused(r) \/ Dropped(r) \/ Late(r)
    PROVE  TypeOK'
<1>1. /\ call[r] \in Call
      /\ mem[r] \in Mem
      /\ files \in [Paths -> Bundles \cup {NoBundle}]
    BY DEF TypeOK
<1>2. /\ call[r].plugin \in Plugins
      /\ call[r].version \in Versions
      /\ call[r].bundle \in Bundles
    BY <1>1, CallFields
<1>3. /\ JarPath(call[r].plugin, call[r].version, call[r].bundle) \in Paths
      /\ ManifestPath(call[r].plugin, call[r].version) \in Paths
      /\ PathOf("notes", call[r].plugin, call[r].version) \in Paths
    BY <1>2, PathTypes
<1>4. {"lost", "unavailable"} \subseteq Replies
    BY DEF Replies
<1>5. RebuildFailed(call[r], "unavailable") \in Replies
    BY <1>4, RebuildFailedType
<1>6. faults' \in Seq(FaultKinds)
    <2>1. ASSUME NEW kind, Fault(kind) PROVE faults' \in Seq(FaultKinds)
        BY <2>1, FaultIsRecorded
    <2> QED
        BY <2>1 DEF Lost, Refused, Dropped, Late
<1>a. CASE Lost(r)
    <2>1. End(r, "lost") /\ UNCHANGED <<plugin, files, index>>
        BY <1>a DEF Lost
    <2> QED
        BY <1>4, <1>6, <2>1, EndType DEF TypeOK
<1>b. CASE Refused(r)
    <2>1. \/ End(r, RebuildFailed(call[r], "unavailable"))
          \/ End(r, "unavailable")
        BY <1>b DEF Refused
    <2>2. UNCHANGED <<plugin, files, index>>
        BY <1>b DEF Refused
    <2> QED
        BY <1>4, <1>5, <1>6, <2>1, <2>2, EndType DEF TypeOK
<1>c. CASE Dropped(r)
    <2>1. UNCHANGED <<plugin, files, index, call, reply, sweep>>
        BY <1>c DEF Dropped
    <2>2. pc' \in [Requests -> Pcs]
        BY <1>c DEF Dropped, TypeOK, Pcs
    <2>3. mem' \in [Requests -> Mem]
        <3>1. CASE UNCHANGED mem
            BY <3>1 DEF TypeOK
        <3>2. ASSUME NEW f, mem' = [mem EXCEPT ![r].todo = @ \ {f}]
              PROVE  mem' \in [Requests -> Mem]
            BY <1>1, <3>2 DEF TypeOK, Mem
        <3>3. ASSUME NEW p, mem' = [mem EXCEPT ![r].scan = @ \ {p}]
              PROVE  mem' \in [Requests -> Mem]
            BY <1>1, <3>3 DEF TypeOK, Mem
        <3>4. CASE mem' = [mem EXCEPT ![r].rows[mem[r].at] = NoVersion,
                                      ![r].at = NoPlugin]
            <4>1. [mem[r].rows EXCEPT ![mem[r].at] = NoVersion] \in Rows
                BY <1>1 DEF Mem, Rows
            <4>2. [mem[r] EXCEPT !.rows = [mem[r].rows EXCEPT
                                             ![mem[r].at] = NoVersion],
                                 !.at = NoPlugin] \in Mem
                BY <1>1, <4>1 DEF Mem
            <4> QED
                BY <3>4, <4>2 DEF TypeOK
        <3> QED
            BY <1>c, <3>1, <3>2, <3>3, <3>4 DEF Dropped
    <2> QED
        BY <1>6, <2>1, <2>2, <2>3 DEF TypeOK
<1>d. CASE Late(r)
    <2>1. files' \in [Paths -> Bundles \cup {NoBundle}]
        BY <1>d, <1>1, <1>2, <1>3, CreateType DEF Late
    <2>2. plugin' \in [Plugins -> [gen : Nat, doc : Doc]]
        BY <1>d, CommitType DEF Late, TypeOK
    <2>3. index' \in [gen : Nat, rows : Rows]
        BY <1>d, CommitIndexType DEF Late, TypeOK
    <2>4. \/ End(r, RebuildFailed(call[r], "unavailable"))
          \/ End(r, "unavailable")
        BY <1>d DEF Late
    <2> QED
        BY <1>4, <1>5, <1>6, <2>1, <2>2, <2>3, <2>4, EndType DEF TypeOK
<1> QED
    BY <1>a, <1>b, <1>c, <1>d

LEMMA SweepTypeOK ==
    ASSUME TypeOK, Sweep \/ SweepLost
    PROVE  TypeOK'
<1>1. /\ sweep.on \in BOOLEAN
      /\ sweep.todo \subseteq Paths
      /\ sweep.doomed \subseteq Paths
    BY DEF TypeOK
<1>a. CASE SweepList
    <2>1. Browsable \subseteq Paths
        BY DEF Browsable
    <2> QED
        BY <1>a, <2>1 DEF SweepList, NoSweep, TypeOK
<1>b. CASE SweepLoad
    <2>1. PICK f \in sweep.todo :
             sweep' = [sweep EXCEPT !.todo = @ \ {f},
                                    !.doomed = IF Orphan(f) THEN {f} ELSE {}]
        BY <1>b DEF SweepLoad
    <2>2. sweep' \in [on : BOOLEAN, todo : SUBSET Paths, doomed : SUBSET Paths]
        BY <1>1, <2>1 DEF TypeOK
    <2> QED
        BY <1>b, <2>2 DEF SweepLoad, TypeOK
<1>c. CASE SweepDelete
    BY <1>c, <1>1 DEF SweepDelete, Erase, TypeOK
<1>d. CASE SweepEnd
    BY <1>d DEF SweepEnd, NoSweep, TypeOK
<1>e. CASE SweepLost
    <2>1. sweep' = NoSweep \/ sweep' = [sweep EXCEPT !.doomed = {}]
        BY <1>e DEF SweepLost
    <2>2. sweep' \in [on : BOOLEAN, todo : SUBSET Paths, doomed : SUBSET Paths]
        <3>1. CASE sweep' = NoSweep
            BY <3>1 DEF NoSweep
        <3>2. CASE sweep' = [sweep EXCEPT !.doomed = {}]
            BY <3>2 DEF TypeOK
        <3> QED
            BY <2>1, <3>1, <3>2
    <2>3. faults' \in Seq(FaultKinds)
        BY <1>e, FaultIsRecorded DEF SweepLost
    <2> QED
        BY <1>e, <2>2, <2>3 DEF SweepLost, TypeOK
<1> QED
    BY <1>a, <1>b, <1>c, <1>d, <1>e DEF Sweep

\* Every reachable state is well typed: in particular no update is attempted
\* more than MaxAttempts times.
THEOREM TypeCorrect == Spec => []TypeOK
<1>1. TypeOK /\ [Next]_vars => TypeOK'
    <2> SUFFICES ASSUME TypeOK, [Next]_vars PROVE TypeOK'
        OBVIOUS
    <2>1. CASE UNCHANGED vars
        BY <2>1 DEF vars, TypeOK
    <2>2. CASE Next
        BY <2>2, StartTypeOK, StepTypeOK, FaultTypeOK, SweepTypeOK DEF Next
    <2> QED
        BY <2>1, <2>2
<1> QED
    BY InitTypeOK, <1>1, PTL DEF Spec


-----------------------------------------------------------------------------
(* The inductive invariants. *)

\* What a request has read is the document of the generation it has read.
Snapshot ==
    \A r \in Requests :
        pc[r] = "update" =>
            LET s == mem[r].seen
                now == plugin[call[r].plugin]
            IN  /\ s.gen <= now.gen
                /\ s.gen = now.gen => s = now

\* Where a request is once plugin.json holds its change.
AfterUpdate == {"purge", "delete", "list", "row", "row manifest", "index",
                "write index"}

\* What a request that is answered with success has put into plugin.json.
Promise(c, d) ==
    CASE c.op \in PublishOps -> c.version \in Listed(d)
      [] c.op = "block"      -> c.version \in d.blocked
      [] c.op = "advise"     -> c.version \in d.advised
      [] c.op = "remove"     -> d.removed
      [] OTHER               -> TRUE

Kept ==
    \A r \in Requests :
        /\ pc[r] \in AfterUpdate \/ reply[r] = "ok" =>
              Promise(call[r], plugin[call[r].plugin].doc)
        /\ reply[r] # "" => pc[r] = "done"

\* Where a request holds rows it has computed.
HoldsRows == {"row", "row manifest", "index", "write index"}

RowsListed ==
    \A r \in Requests, p \in Plugins :
        pc[r] \in HoldsRows /\ mem[r].rows[p] # NoVersion =>
            mem[r].rows[p] \in Listed(plugin[p].doc)

\* What a publish has written before it reaches plugin.json.
Written(r) ==
    LET c == call[r]
        jar == files[JarPath(c.plugin, c.version, c.bundle)]
    IN  /\ pc[r] = "manifest" => jar # NoBundle
        /\ pc[r] \in {"notes", "load", "update"} /\ c.op \in PublishOps =>
              /\ jar # NoBundle
              /\ files[ManifestPath(c.plugin, c.version)] = c.bundle

\* Of the requests only a removal deletes, and only its own plugin's objects.
DeletesOwn(r) ==
    /\ pc[r] \in {"purge", "delete"} => call[r].op = "remove"
    /\ pc[r] = "delete" => \A f \in mem[r].todo : f.plugin = call[r].plugin

\* Without a cleanup nothing else is deleted.
Deletions ==
    /\ ~sweep.on /\ sweep.doomed = {}
    /\ \A r \in Requests : DeletesOwn(r)

PublishesInOrder ==
    /\ ListedIsComplete
    /\ \A r \in Requests : ~plugin[call[r].plugin].doc.removed => Written(r)

-----------------------------------------------------------------------------
(* A document only grows. *)

Grows(d, e) ==
    /\ Listed(d) \subseteq Listed(e)
    /\ d.blocked \subseteq e.blocked
    /\ d.advised \subseteq e.advised
    /\ d.removed => e.removed

LEMMA GrowsIsReflexive ==
    ASSUME NEW d
    PROVE  Grows(d, d)
BY DEF Grows

LEMMA RecomputedKeeps ==
    ASSUME NEW d \in Doc
    PROVE  /\ Listed(Recomputed(d)) = Listed(d)
           /\ Recomputed(d).blocked = d.blocked
           /\ Recomputed(d).advised = d.advised
           /\ Recomputed(d).removed = d.removed
           /\ Recomputed(d).versions = d.versions
           /\ Recomputed(d).latest = LatestInstallable(Listed(d), d.blocked)
BY DEF Recomputed, Listed, Doc

\* The document of a publish before its latest version is recomputed.
LEMMA EntryWritten ==
    ASSUME NEW d \in Doc, NEW v \in Versions, NEW b \in Bundles
    PROVE  LET e == [d EXCEPT !.versions[v] = b]
           IN  /\ e \in Doc
               /\ Listed(e) = Listed(d) \cup {v}
               /\ e.blocked = d.blocked /\ e.advised = d.advised
               /\ e.removed = d.removed
               /\ e.versions = [d.versions EXCEPT ![v] = b]
BY DataAssumption DEF Listed, Doc

LEMMA MutateGrows ==
    ASSUME NEW c \in Call, NEW d \in Doc
    PROVE  Grows(d, Mutate(c, d)) /\ Promise(c, Mutate(c, d))
<1>0. /\ c.version \in Versions /\ c.bundle \in Bundles /\ c.op \in Ops
    BY CallFields
<1>1. CASE c.op \in PublishOps
    <2> DEFINE e == [d EXCEPT !.versions[c.version] = c.bundle]
    <2>1. /\ e \in Doc
          /\ Listed(e) = Listed(d) \cup {c.version}
          /\ e.blocked = d.blocked /\ e.advised = d.advised
          /\ e.removed = d.removed
        BY <1>0, EntryWritten
    <2>2. Mutate(c, d) = Recomputed(e)
        BY <1>1 DEF Mutate, PublishOps
    <2> HIDE DEF e
    <2>3. Grows(d, Recomputed(e))
        BY <2>1, RecomputedKeeps DEF Grows
    <2>4. Promise(c, Recomputed(e))
        BY <1>1, <2>1, RecomputedKeeps DEF Promise, PublishOps
    <2> QED
        BY <2>2, <2>3, <2>4
<1>2. CASE c.op = "block"
    <2> DEFINE e == [d EXCEPT !.blocked = @ \cup {c.version}]
    <2>1. /\ e \in Doc
          /\ Listed(e) = Listed(d)
          /\ e.blocked = d.blocked \cup {c.version} /\ e.advised = d.advised
          /\ e.removed = d.removed
        BY <1>0 DEF Doc, Listed
    <2>2. Mutate(c, d) = Recomputed(e)
        BY <1>2 DEF Mutate, PublishOps
    <2> HIDE DEF e
    <2>3. Grows(d, Recomputed(e))
        BY <2>1, RecomputedKeeps DEF Grows
    <2>4. Promise(c, Recomputed(e))
        BY <1>2, <2>1, RecomputedKeeps DEF Promise, PublishOps
    <2> QED
        BY <2>2, <2>3, <2>4
<1>3. CASE c.op \notin PublishOps \cup {"block"}
    BY <1>0, <1>3 DEF Mutate, Grows, Promise, PublishOps, Listed, Doc
<1> QED
    BY <1>1, <1>2, <1>3

LEMMA MutateFollows ==
    ASSUME NEW c \in Call, NEW d \in Doc,
           d.latest = LatestInstallable(Listed(d), d.blocked)
    PROVE  LET e == Mutate(c, d)
           IN  e.latest = LatestInstallable(Listed(e), e.blocked)
<1>0. /\ c.version \in Versions /\ c.bundle \in Bundles
    BY CallFields
<1>1. CASE c.op \in PublishOps
    <2>1. [d EXCEPT !.versions[c.version] = c.bundle] \in Doc
        BY <1>0, EntryWritten
    <2>2. Mutate(c, d) = Recomputed([d EXCEPT !.versions[c.version] = c.bundle])
        BY <1>1 DEF Mutate, PublishOps
    <2> QED
        BY <2>1, <2>2, RecomputedKeeps
<1>2. CASE c.op = "block"
    <2>1. [d EXCEPT !.blocked = @ \cup {c.version}] \in Doc
        BY <1>0 DEF Doc
    <2>2. Mutate(c, d) = Recomputed([d EXCEPT !.blocked = @ \cup {c.version}])
        BY <1>2 DEF Mutate, PublishOps
    <2> QED
        BY <2>1, <2>2, RecomputedKeeps
<1>3. CASE c.op \notin PublishOps \cup {"block"}
    BY <1>3 DEF Mutate, PublishOps, Listed, Doc
<1> QED
    BY <1>1, <1>2, <1>3

LEMMA GrowthKeepsPromises ==
    ASSUME NEW c, NEW d, NEW e, Grows(d, e), Promise(c, d)
    PROVE  Promise(c, e)
BY DEF Grows, Promise

-----------------------------------------------------------------------------
(* What one step of one request changes. *)

Acts(r) ==
    \/ \E c \in Calls : Start(r, c)
    \/ Step(r) \/ Lost(r) \/ Refused(r) \/ Dropped(r) \/ Late(r)

\* The steps of a request by the shape of what they do to its own variables.
LEMMA ActShapes ==
    ASSUME NEW r \in Requests, Acts(r)
    PROVE  \/ \E c \in Calls : Start(r, c)
           \/ \E there : Goto(r, there) /\ (UNCHANGED mem \/ \E m : mem' = [mem EXCEPT ![r] = m])
           \/ \E code : End(r, code)
           \/ Dropped(r)
<1>a. CASE \E c \in Calls : Start(r, c)
    BY <1>a
<1>b. CASE Lost(r) \/ Refused(r) \/ Late(r)
    BY <1>b DEF Lost, Refused, Late
<1>c. CASE Dropped(r)
    BY <1>c
<1>d. CASE Check(r) \/ Probe(r) \/ PutJar(r) \/ PutManifest(r) \/ PutNotes(r)
    BY <1>d DEF Check, Probe, PutJar, PutManifest, PutNotes, Answer
<1>e. CASE Update(r)
    BY <1>e DEF Update, Retry, Answer
<1>f. CASE WriteIndex(r)
    BY <1>f DEF WriteIndex, Retry, Answer
<1>g. CASE Load(r) \/ ListToPurge(r) \/ DeleteNext(r) \/ ListPlugins(r)
    BY <1>g DEF Load, ListToPurge, DeleteNext, ListPlugins
<1>h. CASE ReadState(r) \/ ReadManifest(r) \/ ReadIndex(r)
    BY <1>h DEF ReadState, ReadManifest, ReadIndex
<1> QED
    BY <1>a, <1>b, <1>c, <1>d, <1>e, <1>f, <1>g, <1>h DEF Acts, Step

LEMMA OthersStay ==
    ASSUME TypeOK, NEW r \in Requests, Acts(r), NEW q \in Requests, q # r
    PROVE  /\ pc'[q] = pc[q]
           /\ call'[q] = call[q]
           /\ mem'[q] = mem[q]
           /\ reply'[q] = reply[q]
<1>1. CASE \E c \in Calls : Start(r, c)
    BY <1>1 DEF Start, TypeOK
<1>2. CASE \E there : Goto(r, there) /\ (UNCHANGED mem \/ \E m : mem' = [mem EXCEPT ![r] = m])
    BY <1>2 DEF Goto, TypeOK
<1>3. CASE \E code : End(r, code)
    BY <1>3 DEF End, TypeOK
<1>4. CASE Dropped(r)
    BY <1>4 DEF Dropped, TypeOK
<1> QED
    BY <1>1, <1>2, <1>3, <1>4, ActShapes

\* plugin.json is written by commits and by nothing else.
LEMMA OnlyCommitsWrite ==
    ASSUME NEW r \in Requests, Acts(r)
    PROVE  UNCHANGED plugin \/ (pc[r] = "update" /\ Commit(r))
<1>a. CASE \E c \in Calls : Start(r, c)
    BY <1>a DEF Start
<1>b. CASE Lost(r) \/ Refused(r) \/ Dropped(r) \/ Late(r)
    BY <1>b DEF Lost, Refused, Dropped, Late
<1>c. CASE Check(r) \/ Probe(r) \/ PutJar(r) \/ PutManifest(r) \/ PutNotes(r)
    BY <1>c DEF Check, Probe, PutJar, PutManifest, PutNotes
<1>d. CASE Load(r) \/ Update(r)
    BY <1>d DEF Load, Update
<1>e. CASE ListToPurge(r) \/ DeleteNext(r) \/ ListPlugins(r)
    BY <1>e DEF ListToPurge, DeleteNext, ListPlugins
<1>f. CASE ReadState(r) \/ ReadManifest(r) \/ ReadIndex(r) \/ WriteIndex(r)
    BY <1>f DEF ReadState, ReadManifest, ReadIndex, WriteIndex
<1> QED
    BY <1>a, <1>b, <1>c, <1>d, <1>e, <1>f DEF Acts, Step

LEMMA SweepWritesNoState ==
    ASSUME Sweep \/ SweepLost
    PROVE  UNCHANGED <<plugin, index, pc, call, mem, reply>>
BY DEF Sweep, SweepList, SweepLoad, SweepDelete, SweepEnd, SweepLost

\* A commit applies Mutate to the current document, as a new generation.
LEMMA CommitEffect ==
    ASSUME TypeOK, Snapshot, NEW r \in Requests, pc[r] = "update", Commit(r)
    PROVE  LET p == call[r].plugin
               d == plugin[p].doc
           IN  /\ p \in Plugins
               /\ call[r] \in Call
               /\ d \in Doc
               /\ plugin'[p] = [gen |-> plugin[p].gen + 1,
                                doc |-> Mutate(call[r], d)]
               /\ \A q \in Plugins \ {p} : plugin'[q] = plugin[q]
<1>1. call[r] \in Call /\ call[r].plugin \in Plugins
    BY CallFields DEF TypeOK
<1>2. mem[r].seen = plugin[call[r].plugin]
    BY DEF Snapshot, Commit
<1>3. plugin[call[r].plugin].doc \in Doc
    BY <1>1 DEF TypeOK
<1> QED
    BY <1>1, <1>2, <1>3 DEF Commit, TypeOK

LEMMA StepGrows ==
    ASSUME TypeOK, Snapshot, Next, NEW p \in Plugins
    PROVE  /\ Grows(plugin[p].doc, plugin'[p].doc)
           /\ plugin'[p] = plugin[p] \/ plugin'[p].gen = plugin[p].gen + 1
<1>1. CASE UNCHANGED plugin
    BY <1>1, GrowsIsReflexive
<1>2. ASSUME NEW r \in Requests, pc[r] = "update", Commit(r)
      PROVE  /\ Grows(plugin[p].doc, plugin'[p].doc)
             /\ plugin'[p] = plugin[p] \/ plugin'[p].gen = plugin[p].gen + 1
    <2>1. CASE p = call[r].plugin
        <3>1. /\ call[r] \in Call
              /\ plugin[p].doc \in Doc
              /\ plugin'[p] = [gen |-> plugin[p].gen + 1,
                               doc |-> Mutate(call[r], plugin[p].doc)]
            BY <1>2, <2>1, CommitEffect
        <3>2. Grows(plugin[p].doc, Mutate(call[r], plugin[p].doc))
            BY <3>1, MutateGrows
        <3> QED
            BY <3>1, <3>2
    <2>2. CASE p # call[r].plugin
        BY <1>2, <2>2, CommitEffect, GrowsIsReflexive
    <2> QED
        BY <2>1, <2>2
<1>3. CASE \E r \in Requests : Acts(r)
    BY <1>1, <1>2, <1>3, OnlyCommitsWrite
<1>4. CASE Sweep \/ SweepLost
    BY <1>1, <1>4, SweepWritesNoState
<1> QED
    BY <1>3, <1>4 DEF Next, Acts

-----------------------------------------------------------------------------
(* Snapshot. *)

LEMMA UpdateIsEntered ==
    ASSUME TypeOK, NEW r \in Requests, Acts(r), pc'[r] = "update"
    PROVE  Load(r)
<1>0. pc \in [Requests -> Pcs]
    BY DEF TypeOK
<1>a. CASE \E c \in Calls : Start(r, c)
    BY <1>0, <1>a DEF Start, FirstStep
<1>b. CASE Lost(r) \/ Refused(r) \/ Late(r)
    BY <1>0, <1>b DEF Lost, Refused, Late, End
<1>c. CASE Dropped(r)
    BY <1>0, <1>c DEF Dropped
<1>d. CASE Check(r) \/ Probe(r) \/ PutJar(r) \/ PutManifest(r) \/ PutNotes(r)
    BY <1>0, <1>d DEF Check, Probe, PutJar, PutManifest, PutNotes, Answer, End, Goto
<1>e. CASE Update(r)
    BY <1>0, <1>e DEF Update, Retry, Answer, End, Goto, AfterCommit
<1>f. CASE ListToPurge(r) \/ DeleteNext(r) \/ ListPlugins(r)
    BY <1>0, <1>f DEF ListToPurge, DeleteNext, ListPlugins, Goto
<1>g. CASE ReadState(r) \/ ReadManifest(r) \/ ReadIndex(r) \/ WriteIndex(r)
    BY <1>0, <1>g DEF ReadState, ReadManifest, ReadIndex, WriteIndex, Retry, Answer, End, Goto
<1> QED
    BY <1>a, <1>b, <1>c, <1>d, <1>e, <1>f, <1>g DEF Acts, Step

LEMMA InitSnapshot == Init => Snapshot
BY DEF Init, Snapshot

LEMMA NextSnapshot ==
    ASSUME TypeOK, Snapshot, [Next]_vars
    PROVE  Snapshot'
<1>1. SUFFICES ASSUME NEW q \in Requests, pc'[q] = "update"
               PROVE  LET s == mem'[q].seen
                          now == plugin'[call'[q].plugin]
                      IN  /\ s.gen <= now.gen
                          /\ s.gen = now.gen => s = now
    BY DEF Snapshot
<1>2. CASE UNCHANGED vars
    BY <1>1, <1>2 DEF vars, Snapshot
<1>3. ASSUME pc[q] = "update", call'[q] = call[q], mem'[q] = mem[q], Next
      PROVE  LET s == mem'[q].seen
                 now == plugin'[call'[q].plugin]
             IN  /\ s.gen <= now.gen
                 /\ s.gen = now.gen => s = now
    <2> DEFINE p == call[q].plugin
    <2>1. p \in Plugins
        BY CallFields DEF TypeOK
    <2>2. plugin'[p] = plugin[p] \/ plugin'[p].gen = plugin[p].gen + 1
        BY <1>3, <2>1, StepGrows
    <2>3. plugin[p].gen \in Nat /\ mem[q].seen.gen \in Nat
        BY <2>1 DEF TypeOK, Mem
    <2>4. mem[q].seen.gen <= plugin[p].gen
          /\ (mem[q].seen.gen = plugin[p].gen => mem[q].seen = plugin[p])
        BY <1>3 DEF Snapshot
    <2> QED
        BY <1>3, <2>2, <2>3, <2>4
<1>4. ASSUME NEW r \in Requests, Acts(r), Next
      PROVE  LET s == mem'[q].seen
                 now == plugin'[call'[q].plugin]
             IN  /\ s.gen <= now.gen
                 /\ s.gen = now.gen => s = now
    <2>1. CASE r = q
        <3>1. Load(q)
            BY <1>1, <1>4, <2>1, UpdateIsEntered
        <3>2. /\ mem'[q].seen = plugin[call[q].plugin]
              /\ call' = call /\ plugin' = plugin
            BY <3>1 DEF Load, Goto, TypeOK
        <3>3. plugin[call[q].plugin].gen \in Nat
            BY CallFields DEF TypeOK
        <3> QED
            BY <3>2, <3>3
    <2>2. CASE r # q
        BY <1>1, <1>3, <1>4, <2>2, OthersStay
    <2> QED
        BY <2>1, <2>2
<1>5. CASE Sweep \/ SweepLost
    BY <1>1, <1>3, <1>5, SweepWritesNoState DEF Next
<1> QED
    BY <1>2, <1>4, <1>5 DEF Next, Acts

THEOREM SnapshotIsCurrent == Spec => []Snapshot
<1>1. TypeOK /\ Snapshot /\ [Next]_vars => Snapshot'
    BY NextSnapshot
<1> QED
    BY InitSnapshot, TypeCorrect, <1>1, PTL DEF Spec

-----------------------------------------------------------------------------
(* What a document has, it keeps. *)

\* A plugin.json only gains: no request, however stale the document it read,
\* unlists a version, lifts a block or an advisory, or undoes a tombstone.
THEOREM HistoryIsKept == Spec => HistoryGrows
<1>1. TypeOK /\ Snapshot /\ [Next]_vars =>
         [\A p \in Plugins :
             LET d == plugin[p].doc
                 e == plugin'[p].doc
             IN  /\ Listed(d) \subseteq Listed(e)
                 /\ d.blocked \subseteq e.blocked
                 /\ d.advised \subseteq e.advised
                 /\ d.removed => e.removed]_vars
    BY StepGrows DEF Grows
<1> QED
    BY TypeCorrect, SnapshotIsCurrent, <1>1, PTL DEF Spec, HistoryGrows

LEMMA NextFollows ==
    ASSUME TypeOK, Snapshot, LatestFollowsLists, [Next]_vars
    PROVE  LatestFollowsLists'
<1>1. SUFFICES ASSUME NEW p \in Plugins
               PROVE  LET d == plugin'[p].doc
                      IN  d.latest = LatestInstallable(Listed(d), d.blocked)
    BY DEF LatestFollowsLists
<1>2. CASE UNCHANGED plugin
    BY <1>2 DEF LatestFollowsLists
<1>3. ASSUME NEW r \in Requests, pc[r] = "update", Commit(r)
      PROVE  LET d == plugin'[p].doc
             IN  d.latest = LatestInstallable(Listed(d), d.blocked)
    <2>1. CASE p = call[r].plugin
        <3>1. /\ call[r] \in Call
              /\ plugin[p].doc \in Doc
              /\ plugin'[p] = [gen |-> plugin[p].gen + 1,
                               doc |-> Mutate(call[r], plugin[p].doc)]
            BY <1>3, <2>1, CommitEffect
        <3>2. LET d == plugin[p].doc
              IN  d.latest = LatestInstallable(Listed(d), d.blocked)
            BY DEF LatestFollowsLists
        <3> QED
            BY <3>1, <3>2, MutateFollows
    <2>2. CASE p # call[r].plugin
        BY <1>3, <2>2, CommitEffect DEF LatestFollowsLists
    <2> QED
        BY <2>1, <2>2
<1>4. CASE \E r \in Requests : Acts(r)
    BY <1>2, <1>3, <1>4, OnlyCommitsWrite
<1>5. CASE Sweep \/ SweepLost
    BY <1>2, <1>5, SweepWritesNoState
<1>6. CASE UNCHANGED vars
    BY <1>2, <1>6 DEF vars
<1> QED
    BY <1>4, <1>5, <1>6 DEF Next, Acts

LEMMA InitFollows == Init => LatestFollowsLists
<1> SUFFICES ASSUME Init, NEW p \in Plugins
             PROVE  LET d == plugin[p].doc
                    IN  d.latest = LatestInstallable(Listed(d), d.blocked)
    BY DEF LatestFollowsLists
<1>1. plugin[p].doc = ShelfDoc(p)
    BY DEF Init
<1>2. [EmptyDoc EXCEPT !.versions = [v \in Versions |-> Shelved(p, v)]] \in Doc
    BY EmptyDocType, ShelvedType DEF Doc
<1> QED
    BY <1>1, <1>2, RecomputedKeeps DEF ShelfDoc

\* The latest version is the highest listed one that is not blocked, after
\* every interleaving of publishes and blocks.
THEOREM LatestIsRecomputed == Spec => []LatestFollowsLists
<1>1. TypeOK /\ Snapshot /\ LatestFollowsLists /\ [Next]_vars => LatestFollowsLists'
    BY NextFollows
<1> QED
    BY InitFollows, TypeCorrect, SnapshotIsCurrent, <1>1, PTL DEF Spec

-----------------------------------------------------------------------------
(* Success means done. *)

\* A request gets past plugin.json, or to success, only by a commit, unless
\* it is a rebuild.
LEMMA SuccessIsEarned ==
    ASSUME TypeOK, Kept, NEW r \in Requests, Acts(r),
           pc'[r] \in AfterUpdate \/ reply'[r] = "ok"
    PROVE  \/ pc[r] \in AfterUpdate /\ call'[r] = call[r]
           \/ pc[r] = "update" /\ Commit(r) /\ call'[r] = call[r]
           \/ call'[r].op = "rebuild"
<1>0. /\ pc \in [Requests -> Pcs] /\ reply \in [Requests -> Replies]
      /\ call \in [Requests -> Call]
      /\ reply[r] = "ok" => pc[r] = "done"
    BY DEF TypeOK, Kept
<1> USE DEF AfterUpdate
<1>a. CASE \E c \in Calls : Start(r, c)
    <2>1. PICK c \in Calls : Start(r, c)
        BY <1>a
    <2>2. pc'[r] = FirstStep(c) /\ call'[r] = c /\ reply'[r] # "ok"
        BY <1>0, <2>1 DEF Start
    <2> QED
        BY <2>2 DEF FirstStep
<1>b. CASE Lost(r) \/ Late(r) \/ Refused(r)
    BY <1>0, <1>b DEF Lost, Late, Refused, End, Active, RebuildFailed
<1>c. CASE Dropped(r)
    BY <1>0, <1>c DEF Dropped
<1>d. CASE Check(r) \/ Probe(r) \/ PutJar(r) \/ PutManifest(r) \/ PutNotes(r)
    BY <1>0, <1>d DEF Check, Probe, PutJar, PutManifest, PutNotes, Answer, End, Goto
<1>e. CASE Load(r)
    BY <1>0, <1>e DEF Load, Goto
<1>f. CASE Update(r)
    <2>1. Refusal(call[r], mem[r].seen) # "ok"
        BY DEF Refusal
    <2> QED
        BY <1>0, <1>f, <2>1 DEF Update, Retry, Answer, End, Goto
<1>g. CASE ListToPurge(r) \/ DeleteNext(r) \/ ListPlugins(r)
    BY <1>0, <1>g DEF ListToPurge, DeleteNext, ListPlugins, Goto
<1>h. CASE ReadState(r) \/ ReadManifest(r) \/ ReadIndex(r) \/ WriteIndex(r)
    BY <1>0, <1>h DEF ReadState, ReadManifest, ReadIndex, WriteIndex, Retry, Answer, End, Goto
<1> QED
    BY <1>a, <1>b, <1>c, <1>d, <1>e, <1>f, <1>g, <1>h DEF Acts, Step

LEMMA RepliesAreLast ==
    ASSUME TypeOK, Kept, NEW r \in Requests, Acts(r), reply'[r] # ""
    PROVE  pc'[r] = "done"
<1>0. /\ pc \in [Requests -> Pcs] /\ reply \in [Requests -> Replies]
      /\ reply[r] # "" => pc[r] = "done"
    BY DEF TypeOK, Kept
<1>a. CASE \E c \in Calls : Start(r, c)
    BY <1>0, <1>a DEF Start
<1>b. CASE Lost(r) \/ Late(r) \/ Refused(r)
    BY <1>0, <1>b DEF Lost, Late, Refused, End
<1>c. CASE Dropped(r)
    BY <1>0, <1>c DEF Dropped, TypeOK, Mem
<1>d. CASE Check(r) \/ Probe(r) \/ PutJar(r) \/ PutManifest(r) \/ PutNotes(r)
    BY <1>0, <1>d DEF Check, Probe, PutJar, PutManifest, PutNotes, Answer, End, Goto
<1>e. CASE Load(r) \/ Update(r)
    BY <1>0, <1>e DEF Load, Update, Retry, Answer, End, Goto
<1>f. CASE ListToPurge(r) \/ DeleteNext(r) \/ ListPlugins(r)
    BY <1>0, <1>f DEF ListToPurge, DeleteNext, ListPlugins, Goto
<1>g. CASE ReadState(r) \/ ReadManifest(r) \/ ReadIndex(r) \/ WriteIndex(r)
    BY <1>0, <1>g DEF ReadState, ReadManifest, ReadIndex, WriteIndex, Retry, Answer, End, Goto
<1> QED
    BY <1>a, <1>b, <1>c, <1>d, <1>e, <1>f, <1>g DEF Acts, Step

LEMMA InitKept == Init => Kept
BY DEF Init, Kept, AfterUpdate

LEMMA NextKept ==
    ASSUME TypeOK, Snapshot, Kept, [Next]_vars
    PROVE  Kept'
<1>1. SUFFICES ASSUME NEW q \in Requests
               PROVE  /\ pc'[q] \in AfterUpdate \/ reply'[q] = "ok" =>
                            Promise(call'[q], plugin'[call'[q].plugin].doc)
                      /\ reply'[q] # "" => pc'[q] = "done"
    BY DEF Kept
<1>2. /\ pc[q] \in AfterUpdate \/ reply[q] = "ok" =>
            Promise(call[q], plugin[call[q].plugin].doc)
      /\ reply[q] # "" => pc[q] = "done"
    BY DEF Kept
<1>3. CASE UNCHANGED vars
    BY <1>2, <1>3 DEF vars
<1>4. ASSUME Next, Promise(call[q], plugin[call[q].plugin].doc)
      PROVE  Promise(call[q], plugin'[call[q].plugin].doc)
    <2>1. call[q].plugin \in Plugins
        BY CallFields DEF TypeOK
    <2>2. Grows(plugin[call[q].plugin].doc, plugin'[call[q].plugin].doc)
        BY <1>4, <2>1, StepGrows
    <2> QED
        BY <1>4, <2>2, GrowthKeepsPromises
<1>5. CASE Next /\ (Sweep \/ SweepLost)
    BY <1>2, <1>4, <1>5, SweepWritesNoState
<1>6. ASSUME NEW r \in Requests, Acts(r), Next, r # q
      PROVE  /\ pc'[q] \in AfterUpdate \/ reply'[q] = "ok" =>
                   Promise(call'[q], plugin'[call'[q].plugin].doc)
             /\ reply'[q] # "" => pc'[q] = "done"
    BY <1>2, <1>4, <1>6, OthersStay
<1>7. ASSUME Acts(q), Next
      PROVE  /\ pc'[q] \in AfterUpdate \/ reply'[q] = "ok" =>
                   Promise(call'[q], plugin'[call'[q].plugin].doc)
             /\ reply'[q] # "" => pc'[q] = "done"
    <2>1. reply'[q] # "" => pc'[q] = "done"
        BY <1>7, RepliesAreLast
    <2>2. SUFFICES ASSUME pc'[q] \in AfterUpdate \/ reply'[q] = "ok"
                   PROVE  Promise(call'[q], plugin'[call'[q].plugin].doc)
        BY <2>1
    <2>3. CASE pc[q] \in AfterUpdate /\ call'[q] = call[q]
        BY <1>2, <1>4, <1>7, <2>3
    <2>4. CASE pc[q] = "update" /\ Commit(q) /\ call'[q] = call[q]
        <3> DEFINE p == call[q].plugin
        <3>1. /\ call[q] \in Call
              /\ plugin[p].doc \in Doc
              /\ plugin'[p] = [gen |-> plugin[p].gen + 1,
                               doc |-> Mutate(call[q], plugin[p].doc)]
            BY <2>4, CommitEffect
        <3>2. Promise(call[q], Mutate(call[q], plugin[p].doc))
            BY <3>1, MutateGrows
        <3> QED
            BY <2>4, <3>1, <3>2
    <2>5. CASE call'[q].op = "rebuild"
        BY <2>5 DEF Promise, PublishOps
    <2> QED
        BY <1>7, <2>2, <2>3, <2>4, <2>5, SuccessIsEarned
<1> QED
    BY <1>3, <1>5, <1>6, <1>7 DEF Next, Acts

\* What a request that was answered with success did stays done.
THEOREM SuccessIsDurable == Spec => []AnsweredIsDurable
<1>1. TypeOK /\ Snapshot /\ Kept /\ [Next]_vars => Kept'
    BY NextKept
<1>2. Kept => AnsweredIsDurable
    BY DEF Kept, AnsweredIsDurable, Promise
<1> QED
    BY InitKept, TypeCorrect, SnapshotIsCurrent, <1>1, <1>2, PTL DEF Spec

-----------------------------------------------------------------------------
(* The catalogue names listed versions. *)

LEMMA LatestIsListed ==
    ASSUME NEW listed \in SUBSET Versions, NEW blocked,
           LatestInstallable(listed, blocked) # NoVersion
    PROVE  LatestInstallable(listed, blocked) \in listed
BY VersionsAssumption DEF LatestInstallable

LEMMA RowsAreRead ==
    ASSUME TypeOK, NEW r \in Requests, Acts(r), NEW p \in Plugins,
           pc'[r] \in HoldsRows, mem'[r].rows[p] # NoVersion
    PROVE  \/ pc[r] \in HoldsRows /\ mem'[r].rows[p] = mem[r].rows[p]
           \/ mem'[r].rows[p] = plugin[p].doc.latest
<1>0. /\ pc \in [Requests -> Pcs] /\ mem \in [Requests -> Mem]
      /\ mem[r] \in Mem /\ mem[r].rows \in Rows
    BY DEF TypeOK, Mem
<1> USE DEF HoldsRows
<1>a. CASE \E c \in Calls : Start(r, c)
    BY <1>0, <1>a DEF Start, FirstStep
<1>b. CASE Lost(r) \/ Late(r) \/ Refused(r)
    BY <1>0, <1>b DEF Lost, Late, Refused, End
<1>c. CASE Dropped(r)
    <2>1. CASE pc[r] = "probe" /\ pc' = [pc EXCEPT ![r] = "jar"]
        BY <1>0, <2>1
    <2>2. CASE pc[r] = "purge" /\ UNCHANGED mem /\ pc' = [pc EXCEPT ![r] = "list"]
        BY <1>0, <2>2
    <2>3. CASE pc[r] = "delete" /\ UNCHANGED pc
        BY <1>0, <2>3
    <2>4. CASE \E q \in mem[r].scan :
                 /\ pc[r] = "row" /\ UNCHANGED pc
                 /\ mem' = [mem EXCEPT ![r].scan = @ \ {q}]
        BY <1>0, <2>4 DEF Mem
    <2>5. CASE /\ pc[r] = "row manifest"
               /\ pc' = [pc EXCEPT ![r] = "row"]
               /\ mem' = [mem EXCEPT ![r].rows[mem[r].at] = NoVersion,
                                     ![r].at = NoPlugin]
        <3>1. mem'[r].rows = [mem[r].rows EXCEPT ![mem[r].at] = NoVersion]
            BY <1>0, <2>5 DEF Mem
        <3> QED
            BY <1>0, <2>5, <3>1 DEF Rows
    <2> QED
        BY <1>c, <2>1, <2>2, <2>3, <2>4, <2>5 DEF Dropped
<1>d. CASE Check(r) \/ Probe(r) \/ PutJar(r) \/ PutManifest(r) \/ PutNotes(r)
    BY <1>0, <1>d DEF Check, Probe, PutJar, PutManifest, PutNotes, Answer, End, Goto
<1>e. CASE Load(r) \/ Update(r)
    BY <1>0, <1>e DEF Load, Update, AfterCommit, Retry, Answer, End, Goto
<1>f. CASE ListToPurge(r) \/ DeleteNext(r)
    BY <1>0, <1>f DEF ListToPurge, DeleteNext, Goto
<1>g. CASE ListPlugins(r)
    <2>1. mem'[r].rows = NoRows
        BY <1>0, <1>g DEF ListPlugins, Idle
    <2> QED
        BY <2>1 DEF NoRows
<1>h. CASE ReadState(r)
    <2>1. pc[r] = "row"
        BY <1>h DEF ReadState
    <2>3. ASSUME NEW q \in mem[r].scan,
                 LET d == plugin[q].doc
                     skipped == d.removed \/ d.latest = NoVersion
                 IN  mem' = [mem EXCEPT ![r].scan = @ \ {q},
                               ![r].at = IF skipped THEN NoPlugin ELSE q,
                               ![r].rows[q] = IF skipped THEN NoVersion
                                              ELSE d.latest]
          PROVE  \E row \in {NoVersion, plugin[q].doc.latest} :
                    mem'[r].rows = [mem[r].rows EXCEPT ![q] = row]
        BY <1>0, <2>3 DEF Mem
    <2>4. \/ UNCHANGED mem
          \/ \E q \in mem[r].scan :
                LET d == plugin[q].doc
                    skipped == d.removed \/ d.latest = NoVersion
                IN  mem' = [mem EXCEPT ![r].scan = @ \ {q},
                              ![r].at = IF skipped THEN NoPlugin ELSE q,
                              ![r].rows[q] = IF skipped THEN NoVersion
                                             ELSE d.latest]
        BY <1>h, Zenon DEF ReadState
    <2>5. \/ UNCHANGED mem
          \/ \E q \in mem[r].scan : \E row \in {NoVersion, plugin[q].doc.latest} :
                mem'[r].rows = [mem[r].rows EXCEPT ![q] = row]
        BY <2>3, <2>4, Zenon
    <2>6. ASSUME NEW q \in mem[r].scan,
                 NEW row \in {NoVersion, plugin[q].doc.latest},
                 mem'[r].rows = [mem[r].rows EXCEPT ![q] = row]
          PROVE  \/ mem'[r].rows[p] = mem[r].rows[p]
                 \/ mem'[r].rows[p] = plugin[p].doc.latest
        <3>1. CASE q # p
            BY <1>0, <2>6, <3>1 DEF Rows
        <3>2. CASE q = p
            <4>1. mem'[r].rows[p] = row
                BY <1>0, <2>6, <3>2 DEF Rows
            <4> QED
                BY <2>6, <3>2, <4>1
        <3> QED
            BY <3>1, <3>2
    <2>7. \/ mem'[r].rows[p] = mem[r].rows[p]
          \/ mem'[r].rows[p] = plugin[p].doc.latest
        BY <2>5, <2>6, Zenon
    <2> QED
        BY <2>1, <2>7
<1>i. CASE ReadManifest(r)
    <2> DEFINE q == mem[r].at
    <2>2. \E row \in {NoVersion, mem[r].rows[q]} :
             mem'[r].rows = [mem[r].rows EXCEPT ![q] = row]
        BY <1>0, <1>i DEF ReadManifest, Mem
    <2>3. pc[r] = "row manifest"
        BY <1>i DEF ReadManifest
    <2> QED
        BY <1>0, <2>2, <2>3 DEF Rows
<1>j. CASE ReadIndex(r)
    <2>1. mem'[r].rows = mem[r].rows /\ pc[r] = "index"
        BY <1>0, <1>j DEF ReadIndex, Mem
    <2> QED
        BY <2>1
<1>k. CASE WriteIndex(r)
    <2>1. pc[r] = "write index"
        BY <1>k DEF WriteIndex
    <2>2. CASE \E code : Answer(r, code)
        BY <1>0, <2>2 DEF Answer, End
    <2>3. CASE mem' = [mem EXCEPT ![r].tries = @ + 1]
        BY <1>0, <2>1, <2>3 DEF Mem
    <2> QED
        BY <1>k, <2>1, <2>2, <2>3 DEF WriteIndex, Retry
<1> QED
    BY <1>a, <1>b, <1>c, <1>d, <1>e, <1>f, <1>g, <1>h, <1>i, <1>j, <1>k DEF Acts, Step

LEMMA CommittedRows ==
    ASSUME NEW r, CommitIndex(r)
    PROVE  index'.rows = mem[r].rows
BY DEF CommitIndex

\* index.json is written with the rows of one request.
LEMMA OnlyRowsAreWritten ==
    ASSUME NEW r \in Requests, Acts(r)
    PROVE  \/ UNCHANGED index
           \/ /\ pc[r] = "write index"
              /\ index'.rows = mem[r].rows
              /\ UNCHANGED plugin
<1>a. CASE \E c \in Calls : Start(r, c)
    BY <1>a DEF Start
<1>b. CASE Lost(r) \/ Refused(r) \/ Dropped(r) \/ Late(r)
    <2>1. CASE pc[r] = "write index" /\ CommitIndex(r) /\ UNCHANGED plugin
        BY <2>1, CommittedRows
    <2> QED
        BY <1>b, <2>1 DEF Lost, Refused, Dropped, Late
<1>c. CASE Check(r) \/ Probe(r) \/ PutJar(r) \/ PutManifest(r) \/ PutNotes(r)
    BY <1>c DEF Check, Probe, PutJar, PutManifest, PutNotes
<1>d. CASE Load(r) \/ Update(r)
    BY <1>d DEF Load, Update
<1>e. CASE ListToPurge(r) \/ DeleteNext(r) \/ ListPlugins(r)
    BY <1>e DEF ListToPurge, DeleteNext, ListPlugins
<1>f. CASE ReadState(r) \/ ReadManifest(r) \/ ReadIndex(r) \/ WriteIndex(r)
    BY <1>f, CommittedRows DEF ReadState, ReadManifest, ReadIndex, WriteIndex
<1> QED
    BY <1>a, <1>b, <1>c, <1>d, <1>e, <1>f DEF Acts, Step

Named == IndexNamesListed /\ RowsListed

LEMMA InitNamed == Init /\ LatestFollowsLists => Named
<1> SUFFICES ASSUME Init, LatestFollowsLists, NEW p \in Plugins,
                    index.rows[p] # NoVersion
             PROVE  index.rows[p] \in Listed(plugin[p].doc)
    BY DEF Named, IndexNamesListed, RowsListed, HoldsRows, Init
<1>1. index.rows[p] = plugin[p].doc.latest
    BY DEF Init
<1>2. Listed(plugin[p].doc) \in SUBSET Versions
    BY DEF Listed
<1> QED
    BY <1>1, <1>2, LatestIsListed DEF LatestFollowsLists

LEMMA NextNamed ==
    ASSUME TypeOK, Snapshot, LatestFollowsLists, Named, [Next]_vars
    PROVE  Named'
<1>1. SUFFICES ASSUME NEW p \in Plugins
               PROVE  /\ index'.rows[p] # NoVersion =>
                            index'.rows[p] \in Listed(plugin'[p].doc)
                      /\ \A q \in Requests :
                            pc'[q] \in HoldsRows /\ mem'[q].rows[p] # NoVersion =>
                               mem'[q].rows[p] \in Listed(plugin'[p].doc)
    BY DEF Named, IndexNamesListed, RowsListed
<1>2. /\ index.rows[p] # NoVersion => index.rows[p] \in Listed(plugin[p].doc)
      /\ \A q \in Requests :
            pc[q] \in HoldsRows /\ mem[q].rows[p] # NoVersion =>
               mem[q].rows[p] \in Listed(plugin[p].doc)
    BY DEF Named, IndexNamesListed, RowsListed
<1>3. CASE UNCHANGED vars
    BY <1>2, <1>3 DEF vars
<1>4. ASSUME Next
      PROVE  Listed(plugin[p].doc) \subseteq Listed(plugin'[p].doc)
    BY <1>4, StepGrows DEF Grows
<1>5. plugin[p].doc.latest # NoVersion =>
         plugin[p].doc.latest \in Listed(plugin[p].doc)
    <2>1. Listed(plugin[p].doc) \in SUBSET Versions
        BY DEF Listed
    <2> QED
        BY <2>1, LatestIsListed DEF LatestFollowsLists
<1>6. CASE Next /\ (Sweep \/ SweepLost)
    BY <1>2, <1>4, <1>6, SweepWritesNoState
<1>7. ASSUME NEW r \in Requests, Acts(r), Next
      PROVE  /\ index'.rows[p] # NoVersion =>
                   index'.rows[p] \in Listed(plugin'[p].doc)
             /\ \A q \in Requests :
                   pc'[q] \in HoldsRows /\ mem'[q].rows[p] # NoVersion =>
                      mem'[q].rows[p] \in Listed(plugin'[p].doc)
    <2>1. index'.rows[p] # NoVersion =>
             index'.rows[p] \in Listed(plugin'[p].doc)
        BY <1>2, <1>4, <1>7, OnlyRowsAreWritten DEF HoldsRows
    <2>2. ASSUME NEW q \in Requests,
                 pc'[q] \in HoldsRows, mem'[q].rows[p] # NoVersion
          PROVE  mem'[q].rows[p] \in Listed(plugin'[p].doc)
        <3>1. CASE q = r
            <4>1. \/ pc[r] \in HoldsRows /\ mem'[r].rows[p] = mem[r].rows[p]
                  \/ mem'[r].rows[p] = plugin[p].doc.latest
                BY <1>7, <2>2, <3>1, RowsAreRead
            <4> QED
                BY <1>2, <1>4, <1>5, <1>7, <2>2, <3>1, <4>1
        <3>2. CASE q # r
            BY <1>2, <1>4, <1>7, <2>2, <3>2, OthersStay
        <3> QED
            BY <3>1, <3>2
    <2> QED
        BY <2>1, <2>2
<1> QED
    BY <1>3, <1>6, <1>7 DEF Next, Acts

\* The catalogue never names a version its plugin does not list.
THEOREM CatalogueNamesListed == Spec => []IndexNamesListed
<1>1. TypeOK /\ Snapshot /\ LatestFollowsLists /\ Named /\ [Next]_vars => Named'
    BY NextNamed
<1>2. Named => IndexNamesListed
    BY DEF Named
<1> QED
    BY InitNamed, InitFollows, TypeCorrect, SnapshotIsCurrent,
       LatestIsRecomputed, <1>1, <1>2, PTL DEF Spec

-----------------------------------------------------------------------------
(* Without a cleanup, what is listed is complete and never changes. *)

LEMMA MutateEntries ==
    ASSUME NEW c \in Call, NEW d \in Doc, NEW v \in Versions
    PROVE  LET e == Mutate(c, d)
           IN  \/ e.versions[v] = d.versions[v]
               \/ /\ c.op \in PublishOps /\ v = c.version
                  /\ e.versions[v] = c.bundle
<1>0. /\ c.version \in Versions /\ c.bundle \in Bundles
    BY CallFields
<1>1. CASE c.op \in PublishOps
    <2>1. [d EXCEPT !.versions[c.version] = c.bundle] \in Doc
        BY <1>0, EntryWritten
    <2>2. Mutate(c, d) = Recomputed([d EXCEPT !.versions[c.version] = c.bundle])
        BY <1>1 DEF Mutate, PublishOps
    <2>3. Mutate(c, d).versions = [d.versions EXCEPT ![c.version] = c.bundle]
        <3>1. [d EXCEPT !.versions[c.version] = c.bundle].versions
                 = [d.versions EXCEPT ![c.version] = c.bundle]
            BY DEF Doc
        <3> QED
            BY <2>1, <2>2, <3>1, RecomputedKeeps
    <2> QED
        BY <1>0, <1>1, <2>3 DEF Doc
<1>2. CASE c.op = "block"
    <2>1. [d EXCEPT !.blocked = @ \cup {c.version}] \in Doc
        BY <1>0 DEF Doc
    <2>2. Mutate(c, d) = Recomputed([d EXCEPT !.blocked = @ \cup {c.version}])
        BY <1>2 DEF Mutate, PublishOps
    <2>3. [d EXCEPT !.blocked = @ \cup {c.version}].versions = d.versions
        BY DEF Doc
    <2> QED
        BY <2>1, <2>2, <2>3, RecomputedKeeps
<1>3. CASE c.op \notin PublishOps \cup {"block"}
    BY <1>3 DEF Mutate, PublishOps, Doc
<1> QED
    BY <1>1, <1>2, <1>3

\* An object is never overwritten; only a removal deletes, from its own list.
LEMMA ObjectsStay ==
    ASSUME TypeOK, NEW r \in Requests, Acts(r),
           NEW f \in Paths, files[f] # NoBundle
    PROVE  files'[f] = files[f] \/ (pc[r] = "delete" /\ f \in mem[r].todo)
<1>0. files \in [Paths -> Bundles \cup {NoBundle}]
    BY DEF TypeOK
<1>1. ASSUME NEW g, NEW b, Create(g, b)
      PROVE  files'[f] = files[f]
    BY <1>0, <1>1 DEF Create
<1>a. CASE \E c \in Calls : Start(r, c)
    BY <1>a DEF Start
<1>b. CASE Lost(r) \/ Refused(r) \/ Dropped(r) \/ Late(r)
    BY <1>1, <1>b DEF Lost, Refused, Dropped, Late
<1>c. CASE Check(r) \/ Probe(r) \/ PutJar(r) \/ PutManifest(r) \/ PutNotes(r)
    BY <1>1, <1>c DEF Check, Probe, PutJar, PutManifest, PutNotes
<1>d. CASE Load(r) \/ Update(r)
    BY <1>d DEF Load, Update
<1>e. CASE DeleteNext(r)
    BY <1>0, <1>e DEF DeleteNext, Erase
<1>f. CASE ListToPurge(r) \/ ListPlugins(r)
    BY <1>f DEF ListToPurge, ListPlugins
<1>g. CASE ReadState(r) \/ ReadManifest(r) \/ ReadIndex(r) \/ WriteIndex(r)
    BY <1>g DEF ReadState, ReadManifest, ReadIndex, WriteIndex
<1> QED
    BY <1>a, <1>b, <1>c, <1>d, <1>e, <1>f, <1>g DEF Acts, Step

LEMMA ObjectsOfPluginStay ==
    ASSUME TypeOK, Kept, Deletions, Next, NEW f \in Paths,
           files[f] # NoBundle, ~plugin[f.plugin].doc.removed
    PROVE  files'[f] = files[f]
<1>1. ASSUME NEW r \in Requests, Acts(r)
      PROVE  files'[f] = files[f]
    <2>1. SUFFICES ASSUME pc[r] = "delete", f \in mem[r].todo
                   PROVE  FALSE
        BY <1>1, ObjectsStay
    <2>2. call[r].op = "remove" /\ f.plugin = call[r].plugin
        BY <2>1 DEF Deletions, DeletesOwn
    <2>3. plugin[call[r].plugin].doc.removed
        BY <2>1, <2>2 DEF Kept, AfterUpdate, Promise, PublishOps
    <2> QED
        BY <2>2, <2>3
<1>2. CASE Sweep \/ SweepLost
    BY <1>2 DEF Deletions, Sweep, SweepList, SweepLoad, SweepDelete, SweepEnd,
                SweepLost
<1> QED
    BY <1>1, <1>2 DEF Next, Acts

LEMMA DeletionSteps ==
    ASSUME TypeOK, NEW r \in Requests, DeletesOwn(r), Acts(r)
    PROVE  DeletesOwn(r)'
<1> SUFFICES /\ pc'[r] \in {"purge", "delete"} => call'[r].op = "remove"
             /\ pc'[r] = "delete" =>
                   \A f \in mem'[r].todo : f.plugin = call'[r].plugin
    BY DEF DeletesOwn
<1>0. /\ pc \in [Requests -> Pcs] /\ mem \in [Requests -> Mem]
      /\ mem[r] \in Mem
      /\ pc[r] \in {"purge", "delete"} => call[r].op = "remove"
      /\ pc[r] = "delete" => \A f \in mem[r].todo : f.plugin = call[r].plugin
    BY DEF TypeOK, DeletesOwn
<1>a. CASE \E c \in Calls : Start(r, c)
    BY <1>0, <1>a DEF Start, FirstStep
<1>b. CASE Lost(r) \/ Refused(r) \/ Late(r)
    BY <1>0, <1>b DEF Lost, Refused, Late, End
<1>c. CASE Dropped(r)
    <2>1. CASE pc'[r] \notin {"purge", "delete"}
        BY <2>1
    <2>2. CASE pc'[r] \in {"purge", "delete"}
        <3>1. \E f \in mem[r].todo :
                 /\ pc[r] = "delete" /\ UNCHANGED <<pc, call>>
                 /\ mem' = [mem EXCEPT ![r].todo = @ \ {f}]
            BY <1>0, <1>c, <2>2 DEF Dropped
        <3>2. mem'[r].todo \subseteq mem[r].todo
            BY <1>0, <3>1 DEF Mem
        <3> QED
            BY <1>0, <3>1, <3>2
    <2> QED
        BY <2>1, <2>2
<1>d. CASE Check(r) \/ Probe(r) \/ PutJar(r) \/ PutManifest(r) \/ PutNotes(r)
    BY <1>0, <1>d DEF Check, Probe, PutJar, PutManifest, PutNotes, Answer, End, Goto
<1>e. CASE Load(r) \/ Update(r)
    BY <1>0, <1>e DEF Load, Update, AfterCommit, Retry, Answer, End, Goto
<1>f. CASE ListToPurge(r)
    <2>1. mem'[r].todo = {f \in Browsable : f.plugin = call[r].plugin}
        BY <1>0, <1>f DEF ListToPurge, Mem
    <2> QED
        BY <1>0, <1>f, <2>1 DEF ListToPurge, Goto
<1>g. CASE DeleteNext(r)
    <2>1. mem'[r].todo \subseteq mem[r].todo
        BY <1>0, <1>g DEF DeleteNext, Mem
    <2> QED
        BY <1>0, <1>g, <2>1 DEF DeleteNext, Goto
<1>h. CASE ListPlugins(r) \/ ReadState(r) \/ ReadManifest(r)
    BY <1>0, <1>h DEF ListPlugins, ReadState, ReadManifest, Goto
<1>i. CASE ReadIndex(r) \/ WriteIndex(r)
    BY <1>0, <1>i DEF ReadIndex, WriteIndex, Retry, Answer, End, Goto
<1> QED
    BY <1>a, <1>b, <1>c, <1>d, <1>e, <1>f, <1>g, <1>h, <1>i DEF Acts, Step

LEMMA RequestsLeaveTheSweep ==
    ASSUME NEW r \in Requests, Acts(r)
    PROVE  UNCHANGED sweep
<1>a. CASE \E c \in Calls : Start(r, c)
    BY <1>a DEF Start
<1>b. CASE \E there : Goto(r, there)
    BY <1>b DEF Goto
<1>c. CASE \E code : End(r, code)
    BY <1>c DEF End
<1>d. CASE Dropped(r)
    BY <1>d DEF Dropped
<1> QED
    BY <1>a, <1>b, <1>c, <1>d, ActShapes

LEMMA NextDeletions ==
    ASSUME ~Sweeping, TypeOK, Deletions, [Next]_vars
    PROVE  Deletions'
<1>1. CASE UNCHANGED vars
    BY <1>1 DEF vars, Deletions, DeletesOwn
<1>2. CASE Sweep \/ SweepLost
    BY <1>2 DEF Deletions, DeletesOwn, Sweep, SweepList, SweepLoad, SweepDelete,
                SweepEnd, SweepLost, NoSweep
<1>3. ASSUME NEW r \in Requests, Acts(r)
      PROVE  Deletions'
    <2>1. UNCHANGED sweep
        BY <1>3, RequestsLeaveTheSweep
    <2>2. ASSUME NEW q \in Requests
          PROVE  DeletesOwn(q)'
        <3>1. CASE q = r
            BY <1>3, <3>1, DeletionSteps DEF Deletions
        <3>2. CASE q # r
            BY <1>3, <3>2, OthersStay DEF Deletions, DeletesOwn
        <3> QED
            BY <3>1, <3>2
    <2> QED
        BY <2>1, <2>2 DEF Deletions
<1> QED
    BY <1>1, <1>2, <1>3 DEF Next, Acts

\* How a publish gets to the next of its writes.
LEMMA PublishSteps ==
    ASSUME TypeOK, NEW r \in Requests, Acts(r)
    PROVE  /\ pc'[r] = "manifest" => PutJar(r)
           /\ pc'[r] \in {"notes", "load", "update"}
              /\ call'[r].op \in PublishOps =>
                 /\ call'[r] = call[r]
                 /\ \/ pc[r] \in {"notes", "load", "update"}
                    \/ PutManifest(r) /\ files' # files
<1>0. pc \in [Requests -> Pcs]
    BY DEF TypeOK
<1>a. CASE \E c \in Calls : Start(r, c)
    <2>1. PICK c \in Calls : Start(r, c)
        BY <1>a
    <2>2. call'[r] = c /\ pc'[r] = FirstStep(c)
        BY <2>1 DEF Start, TypeOK
    <2> QED
        BY <2>2 DEF FirstStep
<1>b. CASE Lost(r) \/ Refused(r) \/ Late(r)
    BY <1>0, <1>b DEF Lost, Refused, Late, End
<1>c. CASE Dropped(r)
    BY <1>0, <1>c DEF Dropped
<1>d. CASE Check(r) \/ Probe(r)
    BY <1>0, <1>d DEF Check, Probe, Answer, End, Goto
<1>e. CASE PutJar(r)
    BY <1>0, <1>e DEF PutJar, Goto
<1>f. CASE PutManifest(r)
    <2>1. CASE files[ManifestPath(call[r].plugin, call[r].version)] # NoBundle
        BY <1>0, <1>f, <2>1 DEF PutManifest, Create, Answer, End
    <2>2. CASE files[ManifestPath(call[r].plugin, call[r].version)] = NoBundle
        <3>1. /\ Create(ManifestPath(call[r].plugin, call[r].version), call[r].bundle)
              /\ UNCHANGED call /\ pc'[r] \in {"notes", "load"}
            BY <1>0, <1>f, <2>2 DEF PutManifest, Goto
        <3>2. /\ ManifestPath(call[r].plugin, call[r].version) \in Paths
              /\ call[r].bundle \in Bundles
            BY CallFields, PathTypes DEF TypeOK
        <3>3. files' # files
            BY <3>1, <3>2, DataAssumption DEF Create, TypeOK
        <3> QED
            BY <1>f, <3>1, <3>3
    <2> QED
        BY <2>1, <2>2
<1>g. CASE PutNotes(r) \/ Load(r) \/ Update(r)
    BY <1>0, <1>g DEF PutNotes, Load, Update, AfterCommit, Retry, Answer, End, Goto
<1>h. CASE ListToPurge(r) \/ DeleteNext(r) \/ ListPlugins(r)
    BY <1>0, <1>h DEF ListToPurge, DeleteNext, ListPlugins, Goto
<1>i. CASE ReadState(r) \/ ReadManifest(r) \/ ReadIndex(r) \/ WriteIndex(r)
    BY <1>0, <1>i DEF ReadState, ReadManifest, ReadIndex, WriteIndex, Retry, Answer, End, Goto
<1> QED
    BY <1>a, <1>b, <1>c, <1>d, <1>e, <1>f, <1>g, <1>h, <1>i DEF Acts, Step

\* What a publish still in progress has written so far, whoever steps.
LEMMA NextWritten ==
    ASSUME TypeOK, Snapshot, Kept, Deletions, Next, NEW q \in Requests,
           ~plugin'[call'[q].plugin].doc.removed,
           ~plugin[call[q].plugin].doc.removed => Written(q)
    PROVE  Written(q)'
<1> DEFINE c == call[q]
           jar == JarPath(c.plugin, c.version, c.bundle)
           manifest == ManifestPath(c.plugin, c.version)
<1>0. /\ c \in Call /\ c.plugin \in Plugins /\ c.bundle \in Bundles
      /\ jar \in Paths /\ manifest \in Paths
      /\ jar.plugin = c.plugin /\ manifest.plugin = c.plugin
      /\ jar # manifest /\ c.bundle # NoBundle
    <2>1. c \in Call
        BY DEF TypeOK
    <2>2. c.plugin \in Plugins /\ c.version \in Versions /\ c.bundle \in Bundles
        BY <2>1, CallFields
    <2>3. jar.plugin = c.plugin /\ manifest.plugin = c.plugin /\ jar # manifest
        BY DEF JarPath, ManifestPath, PathOf, Access
    <2> QED
        BY <2>1, <2>2, <2>3, PathTypes, DataAssumption
<1> HIDE DEF jar, manifest
<1>2. ASSUME call'[q] = call[q]
      PROVE  /\ Written(q)
             /\ files[jar] # NoBundle => files'[jar] = files[jar]
             /\ files[manifest] # NoBundle => files'[manifest] = files[manifest]
    <2>1. ~plugin[c.plugin].doc.removed
        BY <1>0, <1>2, StepGrows DEF Grows
    <2> QED
        BY <1>0, <2>1, ObjectsOfPluginStay
<1>3. ASSUME call'[q] = call[q], pc'[q] = pc[q]
      PROVE  Written(q)'
    BY <1>0, <1>2, <1>3 DEF Written, jar, manifest
<1>4. CASE Acts(q)
    <2>1. ASSUME pc'[q] = "manifest"
          PROVE  call'[q] = call[q] /\ files'[jar] # NoBundle
        <3>1. PutJar(q)
            BY <1>4, <2>1, PublishSteps
        <3>2. call'[q] = call[q]
            BY <3>1 DEF PutJar, Goto
        <3>3. files' = [files EXCEPT ![jar] = c.bundle] \/ files'[jar] # NoBundle
            BY <3>1 DEF PutJar, Create, jar
        <3> QED
            BY <1>0, <3>2, <3>3 DEF TypeOK
    <2>2. ASSUME pc'[q] \in {"notes", "load", "update"}, call'[q].op \in PublishOps
          PROVE  /\ call'[q] = call[q]
                 /\ files'[jar] # NoBundle
                 /\ files'[manifest] = c.bundle
        <3>1. call'[q] = call[q]
            BY <1>4, <2>2, PublishSteps
        <3>2. CASE pc[q] \in {"notes", "load", "update"}
            <4>1. files[jar] # NoBundle /\ files[manifest] = c.bundle
                BY <1>2, <2>2, <3>1, <3>2 DEF Written, jar, manifest
            <4> QED
                BY <1>0, <1>2, <3>1, <4>1
        <3>3. CASE PutManifest(q) /\ files' # files
            <4>1. pc[q] = "manifest" /\ files' = [files EXCEPT ![manifest] = c.bundle]
                BY <3>3 DEF PutManifest, Create, manifest
            <4>2. files[jar] # NoBundle
                BY <1>2, <3>1, <4>1 DEF Written, jar
            <4> QED
                BY <1>0, <1>2, <3>1, <4>1, <4>2 DEF TypeOK
        <3> QED
            BY <1>4, <2>2, <3>1, <3>2, <3>3, PublishSteps
    <2> QED
        BY <2>1, <2>2 DEF Written, jar, manifest
<1>5. ASSUME NEW r \in Requests, Acts(r), r # q
      PROVE  Written(q)'
    BY <1>3, <1>5, OthersStay
<1>6. CASE Sweep \/ SweepLost
    BY <1>3, <1>6, SweepWritesNoState
<1> QED
    BY <1>4, <1>5, <1>6 DEF Next, Acts

LEMMA NextComplete ==
    ASSUME TypeOK, Snapshot, Kept, Deletions, PublishesInOrder, Next
    PROVE  ListedIsComplete'
<1> SUFFICES ASSUME NEW p \in Plugins, NEW v \in Versions,
                    v \in Listed(plugin'[p].doc), ~plugin'[p].doc.removed
             PROVE  /\ files'[ManifestPath(p, v)] = plugin'[p].doc.versions[v]
                    /\ files'[JarPath(p, v, files'[ManifestPath(p, v)])] # NoBundle
    BY DEF ListedIsComplete
<1>1. ~plugin[p].doc.removed
    BY StepGrows DEF Grows
<1>2. ASSUME NEW b \in Bundles,
             files[ManifestPath(p, v)] = b, files[JarPath(p, v, b)] # NoBundle
      PROVE  /\ files'[ManifestPath(p, v)] = b
             /\ files'[JarPath(p, v, b)] # NoBundle
    <2>1. /\ ManifestPath(p, v) \in Paths /\ JarPath(p, v, b) \in Paths
          /\ ManifestPath(p, v).plugin = p /\ JarPath(p, v, b).plugin = p
        BY PathTypes DEF ManifestPath, JarPath, PathOf
    <2>2. b # NoBundle
        BY DataAssumption
    <2> QED
        BY <1>1, <1>2, <2>1, <2>2, ObjectsOfPluginStay
<1>3. plugin'[p].doc.versions[v] \in Bundles
    <2>1. TypeOK'
        BY StartTypeOK, StepTypeOK, FaultTypeOK, SweepTypeOK DEF Next
    <2>2. plugin'[p].doc \in Doc
        BY <2>1 DEF TypeOK
    <2> QED
        BY <2>2 DEF Doc, Listed
<1>4. CASE plugin'[p].doc.versions[v] = plugin[p].doc.versions[v]
    <2>1. v \in Listed(plugin[p].doc)
        BY <1>4 DEF Listed
    <2>2. LET m == files[ManifestPath(p, v)]
          IN  m = plugin[p].doc.versions[v] /\ files[JarPath(p, v, m)] # NoBundle
        BY <1>1, <2>1 DEF PublishesInOrder, ListedIsComplete
    <2> QED
        BY <1>2, <1>3, <1>4, <2>2
<1>5. ASSUME NEW r \in Requests, pc[r] = "update", Commit(r),
             plugin'[p].doc.versions[v] # plugin[p].doc.versions[v]
      PROVE  /\ files'[ManifestPath(p, v)] = plugin'[p].doc.versions[v]
             /\ files'[JarPath(p, v, files'[ManifestPath(p, v)])] # NoBundle
    <2>1. p = call[r].plugin
        BY <1>5, CommitEffect
    <2>2. /\ call[r] \in Call
          /\ plugin[p].doc \in Doc
          /\ plugin'[p] = [gen |-> plugin[p].gen + 1,
                           doc |-> Mutate(call[r], plugin[p].doc)]
        BY <1>5, <2>1, CommitEffect
    <2>3. plugin'[p].doc = Mutate(call[r], plugin[p].doc)
        BY <2>2
    <2>4. /\ call[r].op \in PublishOps /\ v = call[r].version
          /\ plugin'[p].doc.versions[v] = call[r].bundle
        BY <1>5, <2>2, <2>3, MutateEntries
    <2>5. /\ files[ManifestPath(p, v)] = call[r].bundle
          /\ files[JarPath(p, v, call[r].bundle)] # NoBundle
        BY <1>1, <1>5, <2>1, <2>4 DEF PublishesInOrder, Written
    <2> QED
        BY <1>2, <1>3, <2>4, <2>5
<1>6. ASSUME NEW r \in Requests, Acts(r)
      PROVE  /\ files'[ManifestPath(p, v)] = plugin'[p].doc.versions[v]
             /\ files'[JarPath(p, v, files'[ManifestPath(p, v)])] # NoBundle
    BY <1>4, <1>5, <1>6, OnlyCommitsWrite
<1>7. CASE Sweep \/ SweepLost
    BY <1>4, <1>7, SweepWritesNoState
<1> QED
    BY <1>6, <1>7 DEF Next, Acts

LEMMA NextInOrder ==
    ASSUME TypeOK, Snapshot, Kept, Deletions, PublishesInOrder, [Next]_vars
    PROVE  PublishesInOrder'
<1>1. CASE UNCHANGED vars
    <2>1. ListedIsComplete'
        BY <1>1 DEF vars, PublishesInOrder, ListedIsComplete
    <2>2. ASSUME NEW r \in Requests, ~plugin'[call'[r].plugin].doc.removed
          PROVE  Written(r)'
        BY <1>1, <2>2 DEF vars, PublishesInOrder, Written
    <2> QED
        BY <2>1, <2>2 DEF PublishesInOrder
<1>2. CASE Next
    <2>1. ListedIsComplete'
        BY <1>2, NextComplete
    <2>2. ASSUME NEW r \in Requests, ~plugin'[call'[r].plugin].doc.removed
          PROVE  Written(r)'
        BY <1>2, <2>2, NextWritten DEF PublishesInOrder
    <2> QED
        BY <2>1, <2>2 DEF PublishesInOrder
<1> QED
    BY <1>1, <1>2

LEMMA InitInOrder == Init => PublishesInOrder /\ Deletions
<1> SUFFICES ASSUME Init PROVE PublishesInOrder /\ Deletions
    OBVIOUS
<1>1. Deletions
    BY DEF Init, Deletions, DeletesOwn, NoSweep
<1>2. \A r \in Requests : Written(r)
    BY DEF Init, Written
<1>3. ASSUME NEW p \in Plugins, NEW v \in Versions, v \in Listed(plugin[p].doc)
      PROVE  /\ files[ManifestPath(p, v)] = plugin[p].doc.versions[v]
             /\ files[JarPath(p, v, files[ManifestPath(p, v)])] # NoBundle
    <2> DEFINE b == Shelved(p, v)
    <2>1. plugin[p].doc.versions = [w \in Versions |-> Shelved(p, w)]
        <3>1. [EmptyDoc EXCEPT !.versions = [w \in Versions |-> Shelved(p, w)]] \in Doc
            BY EmptyDocType, ShelvedType DEF Doc
        <3>2. plugin[p].doc = ShelfDoc(p)
            BY DEF Init
        <3>3. [EmptyDoc EXCEPT !.versions = [w \in Versions |-> Shelved(p, w)]].versions
                 = [w \in Versions |-> Shelved(p, w)]
            BY DEF EmptyDoc
        <3> QED
            BY <3>1, <3>2, <3>3, RecomputedKeeps DEF ShelfDoc
    <2>2. plugin[p].doc.versions[v] = b /\ b # NoBundle
        BY <1>3, <2>1 DEF Listed
    <2>3. b \in Bundles
        BY <2>2, ShelvedType
    <2>4. /\ ManifestPath(p, v) \in Paths /\ JarPath(p, v, b) \in Paths
        BY <2>3, PathTypes
    <2>5. ASSUME NEW f \in Paths, f.plugin = p, f.version = v,
                 f.kind = "manifest" \/ f.kind = Access(b)
          PROVE  files[f] = b
        BY <2>5 DEF Init
    <2>6. files[ManifestPath(p, v)] = b
        BY <2>4, <2>5 DEF ManifestPath, PathOf
    <2>7. files[JarPath(p, v, b)] = b
        BY <2>4, <2>5 DEF JarPath, PathOf
    <2> QED
        BY <2>2, <2>6, <2>7
<1> QED
    BY <1>1, <1>2, <1>3 DEF PublishesInOrder, ListedIsComplete

LEMMA WithoutCleanup ==
    ASSUME ~Sweeping
    PROVE  Spec => [](Deletions /\ PublishesInOrder)
<1>1. TypeOK /\ Snapshot /\ Kept /\ [Next]_vars => Kept'
    BY NextKept
<1>2. TypeOK /\ Deletions /\ [Next]_vars => Deletions'
    BY NextDeletions
<1>3. TypeOK /\ Snapshot /\ Kept /\ Deletions /\ PublishesInOrder /\ [Next]_vars
         => PublishesInOrder'
    BY NextInOrder
<1> QED
    BY InitKept, InitInOrder, TypeCorrect, SnapshotIsCurrent, <1>1, <1>2, <1>3,
       PTL DEF Spec

\* Where no cleanup runs, a listed version of a plugin that is not removed has
\* the manifest its entry was copied from, and the jar that manifest points to.
THEOREM ListedVersionsAreComplete ==
    ASSUME ~Sweeping
    PROVE  Spec => []ListedIsComplete
<1>1. PublishesInOrder => ListedIsComplete
    BY DEF PublishesInOrder
<1> QED
    BY WithoutCleanup, <1>1, PTL

LEMMA NextImmutable ==
    ASSUME TypeOK, Snapshot, Kept, Deletions, ListedIsComplete, Next,
           NEW p \in Plugins, NEW v \in Versions,
           v \in Listed(plugin[p].doc), ~plugin'[p].doc.removed
    PROVE  LET m == files[ManifestPath(p, v)]
           IN  /\ files'[ManifestPath(p, v)] = m
               /\ files'[JarPath(p, v, m)] = files[JarPath(p, v, m)]
<1> DEFINE m == files[ManifestPath(p, v)]
<1>1. ~plugin[p].doc.removed
    BY StepGrows DEF Grows
<1>2. m = plugin[p].doc.versions[v] /\ files[JarPath(p, v, m)] # NoBundle
    BY <1>1 DEF ListedIsComplete
<1>3. m \in Bundles /\ m # NoBundle
    BY <1>2 DEF Listed, TypeOK, Doc
<1>4. /\ ManifestPath(p, v) \in Paths /\ ManifestPath(p, v).plugin = p
      /\ JarPath(p, v, m) \in Paths /\ JarPath(p, v, m).plugin = p
    BY <1>3, PathTypes DEF ManifestPath, JarPath, PathOf
<1> QED
    BY <1>1, <1>2, <1>3, <1>4, ObjectsOfPluginStay

\* Where no cleanup runs, the manifest of a listed version and the jar it
\* points to never change while the plugin is not removed.
THEOREM ListedVersionsAreImmutable ==
    ASSUME ~Sweeping
    PROVE  Spec => PublishedIsImmutable
<1>1. TypeOK /\ Snapshot /\ Kept /\ [Next]_vars => Kept'
    BY NextKept
<1>2. TypeOK /\ Snapshot /\ Kept /\ Deletions /\ ListedIsComplete /\ [Next]_vars =>
         [\A p \in Plugins, v \in Versions :
             LET m == files[ManifestPath(p, v)]
             IN  v \in Listed(plugin[p].doc) /\ ~plugin'[p].doc.removed =>
                   /\ files'[ManifestPath(p, v)] = m
                   /\ files'[JarPath(p, v, m)] = files[JarPath(p, v, m)]]_vars
    BY NextImmutable
<1>3. PublishesInOrder => ListedIsComplete
    BY DEF PublishesInOrder
<1> QED
    BY InitKept, TypeCorrect, SnapshotIsCurrent, WithoutCleanup,
       <1>1, <1>2, <1>3, PTL DEF Spec, PublishedIsImmutable

=============================================================================
