---------------------------- MODULE DownloadsProofs ----------------------------
(***************************************************************************)
(* The safety properties of Downloads, proved for every set of readers,     *)
(* requests, tokens, licence operations and jars, with every operator       *)
(* request and fault of Registry interleaved with the reads.                *)
(*                                                                         *)
(* The argument.  What a reader has seen of plugin.json stays true, because *)
(* a document only gains (StepGrows of RegistryProofs): what was blocked or *)
(* removed when a request came in is blocked or removed at every later read *)
(* of it (Dated), so the gates a reader has passed say what it may answer   *)
(* (ReaderOK).  A token that proves nothing never comes to prove something, *)
(* because a key is issued once, for one request, and the clock does not go *)
(* back (Barred).  Where no cleanup runs, a manifest is written after its   *)
(* jar and objects go only with their plugin, so what a reader was pointed  *)
(* to is there (Pointed).                                                   *)
(***************************************************************************)
EXTENDS Downloads, RegistryProofs

-----------------------------------------------------------------------------
(* The inductive invariants. *)

\* A jar below plugins/ is a public one: premium jars are filed elsewhere.
Filed == \A f \in Paths : f.kind = "public" => files[f] \notin Premium

Catalogue == TypeOK /\ Snapshot /\ Kept /\ LatestFollowsLists /\ Filed

\* A manifest is only seen once the jar it points to is in place.
JarsFirst ==
    \A p \in Plugins, v \in Versions :
        LET m == files[ManifestPath(p, v)]
        IN  m # NoBundle /\ ~plugin[p].doc.removed =>
              files[JarPath(p, v, m)] # NoBundle

Unswept == Deletions /\ PublishesInOrder /\ JarsFirst

\* What a reader holds between two store reads.
Reading ==
    [pc : {"idle", "state", "detail", "manifest", "digest", "page",
           "page manifest", "list", "licence", "verify", "sign", "fetch",
           "serve", "done"},
     ask : Asking, shut : SUBSET Versions, gone : BOOLEAN, barred : BOOLEAN,
     unread : BOOLEAN,
     manifest : Bundles \cup {NoBundle}, blocked : BOOLEAN,
     listed : Bundles \cup {NoBundle}, held : Document \cup {NoDocument},
     answer : {"", "notFound", "gone", "blocked", "versions", "panic",
               "redirect", "detail", "list", "page", "internalError",
               "licenceMissing", "invalid", "denied", "expired", "signed",
               "unavailable"},
     exp : Nat, got : Bundles \cup {NoBundle}]

ReadersTyped ==
    /\ licences \in Document
    /\ issued \subseteq Keys
    /\ now \in Nat
    /\ reader \in [Readers -> Reading]

\* Before the manifest is read a reader has nothing to hand out.
Early == {"idle", "state", "detail", "manifest", "page", "page manifest", "list"}

\* The store reads of an artifact request behind its look at the block.
Admitted(q) ==
    \/ q.ask.op = "artifact"
       /\ q.pc \in {"detail", "manifest", "licence", "verify", "sign"}
    \/ q.answer \in {"redirect", "signed"}

\* The reads of a version's page behind its look at the tombstone.
Detailed(q) ==
    \/ q.ask.op = "version" /\ q.pc \in {"manifest", "digest"}
    \/ q.answer = "detail"

Paged(q) == q.pc = "page manifest" \/ q.answer = "page"

\* What a reader that has got this far has been let through for.
Gates(q) ==
    /\ Admitted(q) => ~q.gone /\ q.ask.version \notin q.shut
    /\ Detailed(q) => ~q.gone /\ (q.ask.version \in q.shut => q.blocked)
    /\ Paged(q) => ~q.gone /\ q.ask.version \notin q.shut
    /\ q.pc = "sign" \/ q.answer = "signed" => ~q.barred
    /\ q.got \in Premium /\ q.answer # "detail" => ~q.barred

\* What a reader holds where it is.
Stage(q) ==
    /\ q.pc \in Early => q.answer = "" /\ q.manifest = NoBundle
    /\ q.pc # "done" => q.got = NoBundle /\ q.answer \in {"", "redirect", "signed"}
    /\ q.pc \in {"detail", "manifest"} => q.ask.op \in {"artifact", "version"}
    /\ q.pc = "state" => q.ask.op \in {"artifact", "versions"}
    /\ q.pc \in {"licence", "verify", "sign"} =>
          q.ask.op = "artifact" /\ q.answer = "" /\ q.manifest \in Premium
    /\ q.pc = "verify" => q.held \in Document /\ q.ask.token # NoToken
    /\ q.pc = "digest" => q.ask.op = "version" /\ q.manifest # NoBundle
    /\ q.pc \in {"fetch", "serve"} /\ q.answer = "" =>
          q.ask.op \in {"jar", "premium jar"}
    /\ q.pc = "serve" => q.ask.op # "premium jar"
    /\ q.answer \in {"redirect", "signed"} => q.ask.op = "artifact"
    /\ q.answer \in {"redirect", "signed", "detail"} => q.manifest # NoBundle
    /\ q.answer = "redirect" => q.manifest \notin Premium

\* What was blocked or removed when the request came in still is.
Dated(x) ==
    /\ reader[x].shut \subseteq State(x).doc.blocked
    /\ reader[x].gone => State(x).doc.removed

\* What the licence terms say of a token, on a document and at a time.
Proves(t, d, n) ==
    /\ t.right /\ n < t.until
    /\ t.key \in KeysOf(d, t.customer)
    /\ n <= d[t.customer].until

\* A token that proved nothing when the request came in proves nothing now.
Barred(x) ==
    LET t == reader[x].ask.token
    IN  reader[x].barred /\ t # NoToken =>
          /\ t.key \in issued
          /\ ~Proves(t, licences, now)
          /\ reader[x].pc = "verify" => ~Proves(t, reader[x].held, now)

ReaderOK(x) ==
    Stage(reader[x]) /\ Gates(reader[x]) /\ Dated(x) /\ Barred(x)

\* The manifest a reader has read is the one in place, the entry it has copied
\* from plugin.json fits that manifest, and the latest version it is to show is
\* listed.
Pointed(x) ==
    LET q == reader[x]
    IN  /\ q.manifest # NoBundle /\ ~State(x).doc.removed =>
              ManifestOf(x, q.ask.version) = q.manifest
        /\ q.pc \in {"manifest", "digest"} /\ q.listed # NoBundle /\ ~State(x).doc.removed =>
              ManifestOf(x, q.ask.version) = q.listed
        /\ q.pc = "page manifest" => q.ask.version \in Listed(State(x).doc)

BreaksOnRemoval(x) ==
    reader[x].answer = "panic" \/ (reader[x].answer = "internalError" /\ faults = <<>>)
        => ~reader[x].gone /\ State(x).doc.removed

DigestMatches(x) ==
    LET q == reader[x]
    IN  q.answer = "detail" /\ ~State(x).doc.removed =>
          \/ q.got = files[ArtPath(x)]
          \/ q.unread /\ q.got \in {NoBundle, q.manifest}

PointedOK(x) == Pointed(x) /\ BreaksOnRemoval(x) /\ DigestMatches(x)

Readable == ReadersTyped /\ \A x \in Readers : ReaderOK(x)

-----------------------------------------------------------------------------
(* The registry's part. *)

LEMMA NoBundleIsFree == NoBundle \notin Premium
BY DataAssumption

LEMMA AccessIsAKind ==
    ASSUME NEW b
    PROVE  /\ Access(b) \in {"public", "premium"}
           /\ Access(b) = "public" => b \notin Premium
BY DEF Access

LEMMA ManifestPathType ==
    ASSUME NEW p \in Plugins, NEW v \in Versions
    PROVE  ManifestPath(p, v) \in Paths
BY DEF ManifestPath, PathOf, Paths, Kinds

LEMMA PathFields ==
    ASSUME NEW k, NEW p, NEW v
    PROVE  /\ PathOf(k, p, v).kind = k
           /\ PathOf(k, p, v).plugin = p
           /\ PathOf(k, p, v).version = v
BY DEF PathOf

\* A store write: an object comes to be at one path, where there was none.
LEMMA WritesAreFiled ==
    ASSUME TypeOK, NEW r \in Requests, Acts(r), NEW f \in Paths
    PROVE  \/ files'[f] \in {files[f], NoBundle}
           \/ f.kind \in {"manifest", "notes"}
           \/ files'[f] \in Bundles /\ f.kind = Access(files'[f])
<1> DEFINE Good == \/ files'[f] \in {files[f], NoBundle}
                   \/ f.kind \in {"manifest", "notes"}
                   \/ files'[f] \in Bundles /\ f.kind = Access(files'[f])
           c == call[r]
<1>0. /\ files \in [Paths -> Bundles \cup {NoBundle}]
      /\ c.plugin \in Plugins /\ c.version \in Versions /\ c.bundle \in Bundles
    BY CallFields DEF TypeOK
<1>1. ASSUME NEW g, NEW b \in Bundles, Create(g, b), g.kind \in {"manifest", "notes", Access(b)}
      PROVE  Good
    BY <1>0, <1>1 DEF Create
<1>2. CASE UNCHANGED files
    BY <1>2
<1>3. CASE Create(JarPath(c.plugin, c.version, c.bundle), c.bundle)
    BY <1>0, <1>1, <1>3, PathFields DEF JarPath
<1>4. CASE Create(ManifestPath(c.plugin, c.version), c.bundle)
    BY <1>0, <1>1, <1>4, PathFields DEF ManifestPath
<1>5. CASE Create(PathOf("notes", c.plugin, c.version), c.bundle)
    BY <1>0, <1>1, <1>5, PathFields
<1>6. CASE \E g : Erase(g)
    BY <1>0, <1>6 DEF Erase
<1>a. CASE \E d \in Calls : Start(r, d)
    BY <1>a, <1>2 DEF Start
<1>b. CASE Lost(r) \/ Refused(r) \/ Dropped(r) \/ Late(r)
    BY <1>b, <1>2, <1>3, <1>4, <1>5 DEF Lost, Refused, Dropped, Late
<1>c. CASE Check(r) \/ Probe(r) \/ PutJar(r) \/ PutManifest(r) \/ PutNotes(r)
    BY <1>c, <1>2, <1>3, <1>4, <1>5 DEF Check, Probe, PutJar, PutManifest, PutNotes
<1>d. CASE Load(r) \/ Update(r)
    BY <1>d, <1>2 DEF Load, Update
<1>e. CASE DeleteNext(r)
    BY <1>e, <1>2, <1>6 DEF DeleteNext
<1>f. CASE ListToPurge(r) \/ ListPlugins(r)
    BY <1>f, <1>2 DEF ListToPurge, ListPlugins
<1>g. CASE ReadState(r) \/ ReadManifest(r) \/ ReadIndex(r) \/ WriteIndex(r)
    BY <1>g, <1>2 DEF ReadState, ReadManifest, ReadIndex, WriteIndex
<1> QED
    BY <1>a, <1>b, <1>c, <1>d, <1>e, <1>f, <1>g DEF Acts, Step

\* The sweep only deletes.
LEMMA SweepOnlyErases ==
    ASSUME TypeOK, Sweep \/ SweepLost, NEW f \in Paths
    PROVE  files'[f] \in {files[f], NoBundle}
<1>0. files \in [Paths -> Bundles \cup {NoBundle}]
    BY DEF TypeOK
<1> QED
    BY <1>0 DEF Sweep, SweepList, SweepLoad, SweepDelete, SweepEnd, SweepLost, Erase

LEMMA NextFiled ==
    ASSUME TypeOK, Filed, [Next]_vars
    PROVE  Filed'
<1>1. SUFFICES ASSUME NEW f \in Paths, f.kind = "public"
               PROVE  files'[f] \notin Premium
    BY DEF Filed
<1>2. files[f] \notin Premium
    BY <1>1 DEF Filed
<1>3. CASE UNCHANGED vars
    BY <1>2, <1>3 DEF vars
<1>4. ASSUME NEW r \in Requests, Acts(r)
      PROVE  files'[f] \notin Premium
    BY <1>1, <1>2, <1>4, WritesAreFiled, NoBundleIsFree, AccessIsAKind
<1>5. CASE Sweep \/ SweepLost
    BY <1>2, <1>5, SweepOnlyErases, NoBundleIsFree
<1> QED
    BY <1>3, <1>4, <1>5 DEF Next, Acts

LEMMA InitFiled == Init => Filed
<1>1. SUFFICES ASSUME Init, NEW f \in Paths, f.kind = "public"
               PROVE  files[f] \notin Premium
    BY DEF Filed
<1> DEFINE b == Shelved(f.plugin, f.version)
<1>2. files[f] = NoBundle \/ (files[f] = b /\ Access(b) = "public")
    BY <1>1 DEF Init
<1> QED
    BY <1>2, NoBundleIsFree, AccessIsAKind

\* A manifest comes to be where there was none by one kind of write only.
LEMMA ManifestIsWritten ==
    ASSUME TypeOK, NEW r \in Requests, Acts(r),
           NEW p \in Plugins, NEW v \in Versions,
           files[ManifestPath(p, v)] = NoBundle,
           files'[ManifestPath(p, v)] # NoBundle
    PROVE  /\ pc[r] = "manifest"
           /\ call[r].plugin = p /\ call[r].version = v
           /\ call[r].bundle = files'[ManifestPath(p, v)]
<1> DEFINE c == call[r]
           f == ManifestPath(p, v)
<1>0. /\ files \in [Paths -> Bundles \cup {NoBundle}]
      /\ c.plugin \in Plugins /\ c.version \in Versions /\ c.bundle \in Bundles
      /\ f \in Paths
    BY CallFields, PathTypes DEF TypeOK
<1>1. files' # files
    OBVIOUS
<1>2. ASSUME NEW g \in Paths, NEW b \in Bundles, Create(g, b)
      PROVE  g = f /\ b = files'[f]
    BY <1>0, <1>2 DEF Create
<1>3. ~Create(JarPath(c.plugin, c.version, c.bundle), c.bundle)
    <2>1. JarPath(c.plugin, c.version, c.bundle).kind # f.kind
        BY PathFields, AccessIsAKind DEF JarPath, ManifestPath
    <2> QED
        BY <1>0, <1>2, <2>1, PathTypes
<1>4. ~Create(PathOf("notes", c.plugin, c.version), c.bundle)
    <2>1. PathOf("notes", c.plugin, c.version).kind # f.kind
        BY PathFields DEF ManifestPath
    <2> QED
        BY <1>0, <1>2, <2>1, PathTypes
<1>5. ASSUME Create(ManifestPath(c.plugin, c.version), c.bundle)
      PROVE  c.plugin = p /\ c.version = v /\ c.bundle = files'[f]
    <2>1. ManifestPath(c.plugin, c.version) = f /\ c.bundle = files'[f]
        BY <1>0, <1>2, <1>5, PathTypes
    <2> QED
        BY <2>1, PathFields DEF ManifestPath
<1>6. ~\E g : Erase(g)
    BY <1>0 DEF Erase
<1>a. CASE \E d \in Calls : Start(r, d)
    BY <1>a, <1>1 DEF Start
<1>b. CASE Lost(r) \/ Refused(r) \/ Dropped(r)
    BY <1>b, <1>1 DEF Lost, Refused, Dropped
<1>c. CASE Late(r)
    <2>1. pc[r] = "manifest" /\ Create(ManifestPath(c.plugin, c.version), c.bundle)
        BY <1>c, <1>1, <1>3, <1>4 DEF Late
    <2> QED
        BY <2>1, <1>5
<1>d. CASE Check(r) \/ Probe(r) \/ PutJar(r) \/ PutNotes(r)
    BY <1>d, <1>1, <1>3, <1>4 DEF Check, Probe, PutJar, PutNotes
<1>e. CASE PutManifest(r)
    <2>1. pc[r] = "manifest" /\ Create(ManifestPath(c.plugin, c.version), c.bundle)
        BY <1>e, <1>1 DEF PutManifest
    <2> QED
        BY <2>1, <1>5
<1>f. CASE Load(r) \/ Update(r)
    BY <1>f, <1>1 DEF Load, Update
<1>g. CASE DeleteNext(r)
    BY <1>g, <1>1, <1>6 DEF DeleteNext
<1>h. CASE ListToPurge(r) \/ ListPlugins(r)
    BY <1>h, <1>1 DEF ListToPurge, ListPlugins
<1>i. CASE ReadState(r) \/ ReadManifest(r) \/ ReadIndex(r) \/ WriteIndex(r)
    BY <1>i, <1>1 DEF ReadState, ReadManifest, ReadIndex, WriteIndex
<1> QED
    BY <1>a, <1>b, <1>c, <1>d, <1>e, <1>f, <1>g, <1>h, <1>i DEF Acts, Step

LEMMA NextJarsFirst ==
    ASSUME TypeOK, Snapshot, Kept, Deletions, PublishesInOrder, JarsFirst,
           [Next]_vars
    PROVE  JarsFirst'
<1>1. SUFFICES ASSUME NEW p \in Plugins, NEW v \in Versions,
                      files'[ManifestPath(p, v)] # NoBundle,
                      ~plugin'[p].doc.removed
               PROVE  files'[JarPath(p, v, files'[ManifestPath(p, v)])] # NoBundle
    BY DEF JarsFirst
<1> DEFINE f == ManifestPath(p, v)
<1>0. /\ files \in [Paths -> Bundles \cup {NoBundle}]
      /\ f \in Paths /\ f.plugin = p
    <2>1. f \in Paths
        BY ManifestPathType
    <2>2. f.plugin = p
        BY PathFields DEF ManifestPath
    <2> QED
        BY <2>1, <2>2 DEF TypeOK
<1>2. CASE UNCHANGED vars
    BY <1>1, <1>2 DEF vars, JarsFirst
<1>3. CASE Next
    <2>1. ~plugin[p].doc.removed
        BY <1>1, <1>3, StepGrows DEF Grows
    <2>2. ASSUME NEW b \in Bundles, files[JarPath(p, v, b)] # NoBundle
          PROVE  files'[JarPath(p, v, b)] # NoBundle
        <3>1. JarPath(p, v, b) \in Paths /\ JarPath(p, v, b).plugin = p
            BY PathTypes, PathFields DEF JarPath
        <3> QED
            BY <1>3, <2>1, <2>2, <3>1, ObjectsOfPluginStay
    <2>3. CASE files[f] # NoBundle
        <3>1. files'[f] = files[f] /\ files[f] \in Bundles
            BY <1>0, <1>3, <2>1, <2>3, ObjectsOfPluginStay
        <3>2. files[JarPath(p, v, files[f])] # NoBundle
            BY <2>1, <2>3 DEF JarsFirst
        <3> QED
            BY <3>1, <3>2, <2>2
    <2>4. CASE files[f] = NoBundle
        <3>1. ~(Sweep \/ SweepLost)
            BY <1>0, <1>1, <2>4, SweepOnlyErases
        <3>2. PICK r \in Requests : Acts(r)
            BY <1>3, <3>1 DEF Next, Acts
        <3>3. /\ pc[r] = "manifest"
              /\ call[r].plugin = p /\ call[r].version = v
              /\ call[r].bundle = files'[f]
            BY <1>1, <2>4, <3>2, ManifestIsWritten
        <3>4. Written(r)
            BY <2>1, <3>3 DEF PublishesInOrder
        <3>5. files[JarPath(p, v, files'[f])] # NoBundle
            BY <3>3, <3>4 DEF Written
        <3>6. files'[f] \in Bundles
            BY <3>3, CallFields DEF TypeOK
        <3> QED
            BY <3>5, <3>6, <2>2
    <2> QED
        BY <2>3, <2>4
<1> QED
    BY <1>2, <1>3

LEMMA InitJarsFirst == Init => JarsFirst
<1>1. SUFFICES ASSUME Init, NEW p \in Plugins, NEW v \in Versions,
                      files[ManifestPath(p, v)] # NoBundle
               PROVE  files[JarPath(p, v, files[ManifestPath(p, v)])] # NoBundle
    BY DEF JarsFirst
<1> DEFINE b == Shelved(p, v)
<1>2. ASSUME NEW f \in Paths, f.plugin = p, f.version = v,
             f.kind = "manifest" \/ f.kind = Access(b)
      PROVE  files[f] = b
    BY <1>1, <1>2 DEF Init
<1>3. files[ManifestPath(p, v)] = b
    BY <1>2, ManifestPathType, PathFields DEF ManifestPath
<1>4. b \in Bundles
    BY <1>1, <1>3, ShelvedType
<1>5. files[JarPath(p, v, b)] = b
    BY <1>2, <1>4, PathTypes, PathFields DEF JarPath
<1> QED
    BY <1>1, <1>3, <1>5

LEMMA InitCatalogue == Init => Catalogue /\ Unswept
BY InitTypeOK, InitSnapshot, InitKept, InitFollows, InitFiled, InitInOrder,
   InitJarsFirst DEF Catalogue, Unswept

-----------------------------------------------------------------------------
(* A step of the composition, as the registry sees it. *)

\* A read that fails counts as a fault, and changes nothing else.
Unread ==
    /\ Fault("unread")
    /\ UNCHANGED <<plugin, files, index, pc, call, mem, reply, sweep>>

RegistryMoves == [Next]_vars \/ Unread

LEMMA MovesKeepCatalogue ==
    ASSUME Catalogue, RegistryMoves
    PROVE  Catalogue'
<1>1. CASE [Next]_vars
    <2>1. TypeOK'
        BY <1>1, StartTypeOK, StepTypeOK, FaultTypeOK, SweepTypeOK
        DEF Catalogue, Next, vars, TypeOK
    <2> QED
        BY <1>1, <2>1, NextSnapshot, NextKept, NextFollows, NextFiled DEF Catalogue
<1>2. CASE Unread
    <2>1. TypeOK'
        BY <1>2, FaultIsRecorded DEF Unread, Catalogue, TypeOK
    <2>2. Snapshot' /\ Kept'
        BY <1>2 DEF Unread, Catalogue, Snapshot, Kept
    <2>3. LatestFollowsLists' /\ Filed'
        BY <1>2 DEF Unread, Catalogue, LatestFollowsLists, Filed
    <2> QED
        BY <2>1, <2>2, <2>3 DEF Catalogue
<1> QED
    BY <1>1, <1>2 DEF RegistryMoves

LEMMA MovesKeepUnswept ==
    ASSUME ~Sweeping, Catalogue, Unswept, RegistryMoves
    PROVE  Unswept'
<1>1. CASE [Next]_vars
    BY <1>1, NextDeletions, NextInOrder, NextJarsFirst DEF Catalogue, Unswept
<1>2. CASE Unread
    BY <1>2 DEF Unread, Unswept, Deletions, DeletesOwn, PublishesInOrder, JarsFirst,
                ListedIsComplete, Written
<1> QED
    BY <1>1, <1>2 DEF RegistryMoves

\* What plugin.json has, it keeps, and the fault count does not go back.
LEMMA MovesGrow ==
    ASSUME Catalogue, RegistryMoves, NEW p \in Plugins
    PROVE  Grows(plugin[p].doc, plugin'[p].doc)
<1>1. CASE Next
    BY <1>1, StepGrows DEF Catalogue
<1>2. CASE UNCHANGED plugin
    BY <1>2 DEF Grows
<1> QED
    BY <1>1, <1>2 DEF RegistryMoves, Unread, vars

LEMMA FaultsCount ==
    ASSUME TypeOK, RegistryMoves
    PROVE  faults' = <<>> => faults = <<>>
<1>0. ASSUME NEW kind, Fault(kind) PROVE faults' # <<>>
    BY <1>0, FaultIsRecorded
<1>1. CASE faults' # <<>> \/ UNCHANGED faults
    BY <1>1
<1>2. ASSUME NEW r \in Requests, Acts(r)
      PROVE  faults' # <<>> \/ UNCHANGED faults
    <2>a. CASE \E c \in Calls : Start(r, c)
        BY <2>a DEF Start
    <2>b. CASE Lost(r) \/ Refused(r) \/ Dropped(r) \/ Late(r)
        BY <1>0, <2>b DEF Lost, Refused, Dropped, Late
    <2>c. CASE Check(r) \/ Probe(r) \/ PutJar(r) \/ PutManifest(r) \/ PutNotes(r)
        BY <2>c DEF Check, Probe, PutJar, PutManifest, PutNotes, Answer, Goto
    <2>d. CASE Load(r) \/ Update(r)
        BY <2>d DEF Load, Update, Retry, Answer, Goto
    <2>e. CASE ListToPurge(r) \/ DeleteNext(r) \/ ListPlugins(r)
        BY <2>e DEF ListToPurge, DeleteNext, ListPlugins, Goto
    <2>f. CASE ReadState(r) \/ ReadManifest(r) \/ ReadIndex(r) \/ WriteIndex(r)
        BY <2>f DEF ReadState, ReadManifest, ReadIndex, WriteIndex, Retry, Answer, Goto
    <2> QED
        BY <1>2, <2>a, <2>b, <2>c, <2>d, <2>e, <2>f DEF Acts, Step
<1>3. CASE Sweep \/ SweepLost
    BY <1>0, <1>1, <1>3 DEF Sweep, SweepList, SweepLoad, SweepDelete, SweepEnd, SweepLost
<1> QED
    BY <1>0, <1>1, <1>2, <1>3 DEF RegistryMoves, Unread, vars, Next, Acts

\* Where no cleanup runs, an object stays as long as its plugin is not removed.
LEMMA MovesKeepObjects ==
    ASSUME Catalogue, Unswept, RegistryMoves, NEW f \in Paths,
           files[f] # NoBundle, ~plugin[f.plugin].doc.removed
    PROVE  files'[f] = files[f]
<1>1. CASE Next
    BY <1>1, ObjectsOfPluginStay DEF Catalogue, Unswept
<1> QED
    BY <1>1 DEF RegistryMoves, Unread, vars

-----------------------------------------------------------------------------
(* The steps of one reader, for what holds with or without a cleanup. *)

ReaderMoves(x) ==
    \/ \E a \in Asks : AskFor(x, a)
    \/ ReadStep(x)
    \/ ReadFails(x)

\* A read changes its own reader, and nothing it reads.
LEMMA ReadersOnlyRead ==
    ASSUME ReadersTyped, NEW x \in Readers, ReaderMoves(x)
    PROVE  /\ RegistryMoves
           /\ UNCHANGED <<plugin, files, licences, issued, now>>
           /\ \A y \in Readers : y # x => reader'[y] = reader[y]
           /\ reader' = [y \in Readers |-> reader'[y]]
<1>0. reader \in [Readers -> Reading]
    BY DEF ReadersTyped
<1>1. CASE ReadFails(x)
    <2>1. RegistryMoves /\ UNCHANGED <<plugin, files, licences, issued, now>>
        BY <1>1 DEF ReadFails, RegistryMoves, Unread, Fault
    <2>2. (\E code : Reply(x, code)) \/ FallBackToListed(x)
        BY <1>1 DEF ReadFails
    <2> QED
        BY <1>0, <2>1, <2>2 DEF Reply, FallBackToListed
<1>2. CASE \E a \in Asks : AskFor(x, a)
    <2>1. ReadOnly
        BY <1>2 DEF AskFor
    <2>2. RegistryMoves /\ UNCHANGED <<plugin, files, licences, issued, now>>
        BY <2>1 DEF RegistryMoves, ReadOnly, vars
    <2>3. PICK a \in Asks : AskFor(x, a)
        BY <1>2
    <2>4. PICK p, s, g, b : reader' = [reader EXCEPT ![x].pc = p, ![x].ask = a,
                               ![x].shut = s, ![x].gone = g, ![x].barred = b]
        BY <2>3 DEF AskFor
    <2> QED
        BY <1>0, <2>2, <2>4
<1>3. CASE ReadStep(x)
    <2>1. ReadOnly
        BY <1>3 DEF ReadStep, ReadVersions, ReadDetail, ReadVersionManifest, ReadDigest,
                    ReadPlugin, ReadLatestManifest, ReadList, LoadLicences,
                    VerifyToken, SignURL, CheckURL, Serve
    <2>2. RegistryMoves /\ UNCHANGED <<plugin, files, licences, issued, now>>
        BY <2>1 DEF RegistryMoves, ReadOnly, vars
    <2>a. CASE ReadVersions(x) \/ ReadDetail(x) \/ ReadVersionManifest(x) \/ ReadDigest(x)
        BY <1>0, <2>2, <2>a DEF ReadVersions, ReadDetail, ReadVersionManifest, ReadDigest,
                                Reply, On
    <2>b. CASE ReadPlugin(x) \/ ReadLatestManifest(x) \/ ReadList(x) \/ LoadLicences(x)
        BY <1>0, <2>2, <2>b DEF ReadPlugin, ReadLatestManifest, ReadList, LoadLicences,
                                Reply, On
    <2>c. CASE VerifyToken(x) \/ SignURL(x) \/ CheckURL(x) \/ Serve(x)
        BY <1>0, <2>2, <2>c DEF VerifyToken, SignURL, CheckURL, Serve, Reply, On
    <2> QED
        BY <1>3, <2>a, <2>b, <2>c DEF ReadStep
<1> QED
    BY <1>1, <1>2, <1>3 DEF ReaderMoves

LEMMA AskingFields ==
    ASSUME NEW a \in Asking
    PROVE  /\ a.op \in ReadOps /\ a.plugin \in Plugins /\ a.version \in Versions
           /\ a.token \in Tokens \cup {NoToken}
BY DEF Asking

\* Whatever is not a hand-out may be answered at any point.
Refusals == {"notFound", "gone", "blocked", "versions", "panic", "list",
             "internalError", "licenceMissing", "invalid", "denied", "expired",
             "unavailable"}

\* A step keeps the invariants of the reader that takes it.
Keeps(x) ==
    /\ reader'[x] \in Reading
    /\ ReaderOK(x)'
    /\ Unswept /\ PointedOK(x) => PointedOK(x)'

LEMMA RefusalsAreSafe ==
    ASSUME Readable, NEW x \in Readers, reader[x].pc # "done",
           NEW code \in Refusals,
           reader'[x] = [reader[x] EXCEPT !.pc = "done", !.answer = code],
           UNCHANGED <<plugin, files, licences, issued, now>>,
           Unswept /\ PointedOK(x) /\ code \in {"panic", "internalError"} =>
              BreaksOnRemoval(x)'
    PROVE  Keeps(x)
<1> DEFINE q == reader[x]
           r == reader'[x]
<1>0. q \in Reading /\ Stage(q) /\ Gates(q) /\ Dated(x) /\ Barred(x)
    BY DEF Readable, ReadersTyped, ReaderOK
<1>1. r \in Reading
    BY <1>0 DEF Reading, Refusals
<1>2. /\ r.pc = "done" /\ r.answer = code
      /\ r.ask = q.ask /\ r.shut = q.shut /\ r.gone = q.gone
      /\ r.barred = q.barred /\ r.got = q.got /\ r.manifest = q.manifest
    BY <1>0 DEF Reading
<1>3. q.got = NoBundle
    BY <1>0 DEF Stage
<1>4. code \notin {"redirect", "signed", "detail", "page", ""}
    BY DEF Refusals
<1>5. Stage(r)
    BY <1>2, <1>4 DEF Stage, Early
<1>6. Gates(r)
    BY <1>2, <1>3, <1>4, NoBundleIsFree DEF Gates, Admitted, Detailed, Paged
<1>7. Dated(x)'
    BY <1>0, <1>2 DEF Dated, State
<1>8. Barred(x)'
    BY <1>0, <1>2 DEF Barred
<1>9. Unswept /\ PointedOK(x) => PointedOK(x)'
    <2>1. Pointed(x) => Pointed(x)'
        BY <1>2 DEF Pointed, State, ManifestOf
    <2>2. Unswept /\ PointedOK(x) => BreaksOnRemoval(x)'
        BY <1>2 DEF BreaksOnRemoval
    <2>3. DigestMatches(x)'
        BY <1>2, <1>4 DEF DigestMatches
    <2> QED
        BY <2>1, <2>2, <2>3 DEF PointedOK
<1> QED
    BY <1>1, <1>5, <1>6, <1>7, <1>8, <1>9 DEF ReaderOK, Keeps

LEMMA ReplyIs ==
    ASSUME ReadersTyped, NEW x \in Readers, NEW code, Reply(x, code)
    PROVE  reader'[x] = [reader[x] EXCEPT !.pc = "done", !.answer = code]
BY DEF Reply, ReadersTyped

LEMMA RepliesAreSafe ==
    ASSUME Readable, NEW x \in Readers, reader[x].pc # "done",
           NEW code \in Refusals, Reply(x, code),
           UNCHANGED <<plugin, files, licences, issued, now>>,
           Unswept /\ PointedOK(x) /\ code \in {"panic", "internalError"} =>
              BreaksOnRemoval(x)'
    PROVE  Keeps(x)
<1>1. ReadersTyped
    BY DEF Readable
<1>2. reader'[x] = [reader[x] EXCEPT !.pc = "done", !.answer = code]
    BY <1>1, ReplyIs
<1> QED
    BY <1>2, RefusalsAreSafe

LEMMA OnIs ==
    ASSUME ReadersTyped, NEW x \in Readers, NEW there, On(x, there)
    PROVE  reader'[x] = [reader[x] EXCEPT !.pc = there]
BY DEF On, ReadersTyped

LEMMA AskForOK ==
    ASSUME Catalogue, Readable, NEW x \in Readers, NEW a \in Asks, AskFor(x, a)
    PROVE  Keeps(x)
<1> DEFINE q == reader[x]
           r == reader'[x]
           d == plugin[a.plugin].doc
<1>0. q \in Reading /\ Stage(q) /\ reader \in [Readers -> Reading]
    BY DEF Readable, ReadersTyped, ReaderOK
<1>1. a \in Asking /\ a.op \in ReadOps /\ a.plugin \in Plugins
    BY DownloadsAssumption, AskingFields
<1>2. q.pc = "idle" /\ q.answer = "" /\ q.manifest = NoBundle /\ q.got = NoBundle
    BY <1>0 DEF AskFor, At, Stage, Early
<1>3. /\ r.ask = a /\ r.shut = d.blocked /\ r.gone = d.removed
      /\ r.barred = (a.token = NoToken \/ ~Entitled(a.token))
      /\ r.answer = q.answer /\ r.manifest = q.manifest /\ r.got = q.got
      /\ r.blocked = q.blocked /\ r.listed = q.listed /\ r.held = q.held
      /\ r.exp = q.exp
    BY <1>0 DEF AskFor, Reading
<1>4. /\ r.pc \in {"detail", "page", "list", "fetch", "state"}
      /\ r.pc = "detail" => a.op = "version"
      /\ r.pc = "fetch" => a.op \in {"jar", "premium jar"}
      /\ r.pc = "state" => a.op \in {"artifact", "versions"}
    <2>1. r.pc = CASE a.op = "version" -> "detail"
                   [] a.op = "plugin"  -> "page"
                   [] a.op = "plugins" -> "list"
                   [] a.op \in {"jar", "premium jar"}     -> "fetch"
                   [] a.op \in {"artifact", "versions"}   -> "state"
        BY <1>0 DEF AskFor, Reading
    <2> QED
        BY <1>1, <2>1 DEF ReadOps
<1>5. d \in Doc
    BY <1>1 DEF Catalogue, TypeOK
<1>6. r \in Reading
    <2>1. d.blocked \subseteq Versions /\ d.removed \in BOOLEAN
        BY <1>5 DEF Doc
    <2>2. r.barred \in BOOLEAN
        BY <1>3
    <2>3. PICK there, out :
             r = [q EXCEPT !.pc = there, !.ask = a, !.shut = d.blocked,
                           !.gone = d.removed, !.barred = out]
        BY <1>0 DEF AskFor
    <2>4. r.pc = there /\ r.barred = out
        BY <1>0, <2>3 DEF Reading
    <2> HIDE DEF r
    <2> QED
        BY <1>0, <1>1, <1>4, <2>1, <2>2, <2>3, <2>4 DEF Reading
<1>7. Stage(r)
    BY <1>2, <1>3, <1>4 DEF Stage, Early
<1>8. Gates(r)
    BY <1>2, <1>3, <1>4, NoBundleIsFree DEF Gates, Admitted, Detailed, Paged
<1>9. UNCHANGED <<plugin, licences, issued, now>>
    BY DEF AskFor, ReadOnly, vars
<1>10. Dated(x)'
    BY <1>3, <1>9 DEF Dated, State
<1>11. Barred(x)'
    <2>1. a.token # NoToken => a.token.key \in issued
        BY DEF AskFor
    <2> QED
        BY <1>3, <1>4, <1>9, <2>1 DEF Barred, Entitled, Proves
<1>12. PointedOK(x)'
    <2>1. Pointed(x)'
        BY <1>2, <1>3, <1>4 DEF Pointed
    <2> QED
        BY <1>2, <1>3, <2>1 DEF PointedOK, BreaksOnRemoval, DigestMatches
<1> QED
    BY <1>6, <1>7, <1>8, <1>10, <1>11, <1>12 DEF ReaderOK, Keeps

LEMMA ReadVersionsOK ==
    ASSUME Catalogue, Readable, NEW x \in Readers, ReadVersions(x)
    PROVE  Keeps(x)
<1> DEFINE q == reader[x]
           r == reader'[x]
           s == State(x)
<1>0. /\ q \in Reading /\ ReadersTyped
      /\ Stage(q) /\ Gates(q) /\ Dated(x) /\ Barred(x)
    BY DEF Readable, ReadersTyped, ReaderOK
<1>1. /\ q.pc = "state" /\ q.ask.op \in {"artifact", "versions"}
      /\ q.answer = "" /\ q.manifest = NoBundle /\ q.got = NoBundle
    BY <1>0 DEF ReadVersions, At, Stage, Early
<1>2. UNCHANGED <<plugin, files, licences, issued, now>>
    BY DEF ReadVersions, ReadOnly, vars
<1>3. CASE \E code \in {"notFound", "gone", "versions", "blocked"} : Reply(x, code)
    <2>1. PICK code \in {"notFound", "gone", "versions", "blocked"} : Reply(x, code)
        BY <1>3
    <2>2. code \in Refusals /\ code \notin {"panic", "internalError"}
        BY <2>1 DEF Refusals
    <2> QED
        BY <1>1, <1>2, <2>1, <2>2, RepliesAreSafe
<1>4. CASE /\ s.gen > 0 /\ ~s.doc.removed /\ q.ask.op # "versions"
           /\ q.ask.version \notin s.doc.blocked /\ On(x, "detail")
    <2>1. r = [q EXCEPT !.pc = "detail"]
        BY <1>0, <1>4, OnIs
    <2>2. /\ r.pc = "detail"
          /\ r.answer = q.answer /\ r.manifest = q.manifest
          /\ r.ask = q.ask /\ r.shut = q.shut /\ r.gone = q.gone
          /\ r.barred = q.barred /\ r.got = q.got
        BY <1>0, <2>1 DEF Reading
    <2>3. r \in Reading
        BY <1>0, <2>1 DEF Reading
    <2>4. ~q.gone /\ q.ask.version \notin q.shut
        BY <1>0, <1>4 DEF Dated
    <2>5. Stage(r)
        BY <1>1, <1>4, <2>2 DEF Stage, Early
    <2>6. Gates(r)
        BY <1>1, <2>2, <2>4, NoBundleIsFree DEF Gates, Admitted, Detailed, Paged
    <2>7. Dated(x)' /\ Barred(x)'
        BY <1>0, <1>2, <2>2 DEF Dated, Barred, State
    <2>8. PointedOK(x)'
        BY <1>1, <2>2 DEF PointedOK, Pointed, BreaksOnRemoval, DigestMatches
    <2> QED
        BY <2>3, <2>5, <2>6, <2>7, <2>8 DEF Keeps, ReaderOK
<1> QED
    BY <1>3, <1>4 DEF ReadVersions

LEMMA ReadDetailOK ==
    ASSUME Catalogue, Readable, NEW x \in Readers, ReadDetail(x)
    PROVE  Keeps(x)
<1> DEFINE q == reader[x]
           r == reader'[x]
           s == State(x)
           v == q.ask.version
<1>0. /\ q \in Reading /\ ReadersTyped
      /\ Stage(q) /\ Gates(q) /\ Dated(x) /\ Barred(x)
    BY DEF Readable, ReadersTyped, ReaderOK
<1>1. /\ q.pc = "detail" /\ q.ask.op \in {"artifact", "version"}
      /\ q.answer = "" /\ q.manifest = NoBundle /\ q.got = NoBundle
    BY <1>0 DEF ReadDetail, At, Stage, Early
<1>2. UNCHANGED <<plugin, files, licences, issued, now>>
    BY DEF ReadDetail, ReadOnly, vars
<1>3. CASE \E code \in {"notFound", "gone"} : Reply(x, code)
    <2>1. PICK code \in {"notFound", "gone"} : Reply(x, code)
        BY <1>3
    <2>2. code \in Refusals /\ code \notin {"panic", "internalError"}
        BY <2>1 DEF Refusals
    <2> QED
        BY <1>1, <1>2, <2>1, <2>2, RepliesAreSafe
<1>4. CASE s.doc.removed /\ q.ask.op # "version" /\ Reply(x, "panic")
    <2>1. ~q.gone
        BY <1>0, <1>1, <1>4 DEF Gates, Admitted
    <2>2. r = [q EXCEPT !.pc = "done", !.answer = "panic"]
        BY <1>0, <1>4, ReplyIs
    <2>3. r.gone = q.gone /\ r.ask = q.ask
        BY <1>0, <2>2 DEF Reading
    <2>4. BreaksOnRemoval(x)'
        BY <1>2, <1>4, <2>1, <2>3 DEF BreaksOnRemoval, State
    <2> QED
        BY <1>1, <1>2, <1>4, <2>4, RepliesAreSafe DEF Refusals
<1>5. CASE /\ s.gen > 0 /\ ~s.doc.removed
           /\ reader' = [reader EXCEPT ![x].pc = "manifest",
                              ![x].blocked = v \in s.doc.blocked,
                              ![x].listed = s.doc.versions[v]]
    <2>1. r = [q EXCEPT !.pc = "manifest", !.blocked = v \in s.doc.blocked,
                        !.listed = s.doc.versions[v]]
        BY <1>0, <1>5 DEF ReadersTyped
    <2>2. /\ r.pc = "manifest" /\ r.blocked = (v \in s.doc.blocked)
          /\ r.answer = q.answer /\ r.manifest = q.manifest
          /\ r.ask = q.ask /\ r.shut = q.shut /\ r.gone = q.gone
          /\ r.barred = q.barred /\ r.got = q.got
          /\ r.listed = s.doc.versions[v]
        BY <1>0, <2>1 DEF Reading
    <2>3. r \in Reading
        <3>1. q.ask.plugin \in Plugins /\ v \in Versions
            BY <1>0, AskingFields DEF Reading
        <3>2. s.doc \in Doc
            BY <3>1 DEF Catalogue, TypeOK, State
        <3>3. s.doc.versions[v] \in Bundles \cup {NoBundle}
            BY <3>1, <3>2 DEF Doc
        <3>4. (v \in s.doc.blocked) \in BOOLEAN
            OBVIOUS
        <3> HIDE DEF s
        <3> QED
            BY <1>0, <2>1, <3>3, <3>4 DEF Reading
    <2>4. ~q.gone /\ (v \in q.shut => v \in s.doc.blocked)
        BY <1>0, <1>5 DEF Dated
    <2>5. Stage(r)
        BY <1>1, <2>2 DEF Stage, Early
    <2>6. q.ask.op = "artifact" => v \notin q.shut
        BY <1>0, <1>1 DEF Gates, Admitted
    <2>7. Gates(r)
        BY <1>1, <2>2, <2>4, <2>6, NoBundleIsFree DEF Gates, Admitted, Detailed, Paged
    <2>8. Dated(x)' /\ Barred(x)'
        BY <1>0, <1>2, <2>2 DEF Dated, Barred, State
    <2>9. ASSUME Unswept
          PROVE  PointedOK(x)'
        <3>1. q.ask.plugin \in Plugins /\ v \in Versions
            BY <1>0, AskingFields DEF Reading
        <3>2. s.doc.versions[v] # NoBundle => ManifestOf(x, v) = s.doc.versions[v]
            BY <1>5, <2>9, <3>1
            DEF Unswept, PublishesInOrder, ListedIsComplete, Listed, ManifestOf, State
        <3> QED
            BY <1>1, <1>2, <2>2, <3>2
            DEF PointedOK, Pointed, ManifestOf, BreaksOnRemoval, DigestMatches
    <2> QED
        BY <2>3, <2>5, <2>7, <2>8, <2>9 DEF Keeps, ReaderOK
<1> QED
    BY <1>3, <1>4, <1>5 DEF ReadDetail

LEMMA ReadVersionManifestOK ==
    ASSUME Catalogue, Readable, NEW x \in Readers, ReadVersionManifest(x)
    PROVE  Keeps(x)
<1> DEFINE q == reader[x]
           r == reader'[x]
           v == q.ask.version
           m == ManifestOf(x, v)
<1>0. /\ q \in Reading /\ ReadersTyped
      /\ Stage(q) /\ Gates(q) /\ Dated(x) /\ Barred(x)
    BY DEF Readable, ReadersTyped, ReaderOK
<1>1. /\ q.pc = "manifest" /\ q.ask.op \in {"artifact", "version"}
      /\ q.answer = "" /\ q.manifest = NoBundle /\ q.got = NoBundle
    BY <1>0 DEF ReadVersionManifest, At, Stage, Early
<1>2. UNCHANGED <<plugin, files, licences, issued, now>>
    BY DEF ReadVersionManifest, ReadOnly, vars
<1>3. CASE Reply(x, "notFound")
    BY <1>1, <1>2, <1>3, RepliesAreSafe DEF Refusals
<1>4. CASE m # NoBundle /\ ~Reply(x, "notFound")
    <2>1. PICK there, code :
             /\ r = [q EXCEPT !.manifest = m, !.answer = code, !.pc = there]
             /\ code = IF q.ask.op = "artifact" /\ m \notin Premium
                       THEN "redirect" ELSE ""
             /\ there = CASE q.ask.op = "version" -> "digest"
                          [] q.ask.op = "artifact" /\ m \in Premium -> "licence"
                          [] OTHER -> "fetch"
        BY <1>0, <1>4 DEF ReadVersionManifest, ReadersTyped
    <2>2. /\ q.ask.op = "version" => there = "digest" /\ code = ""
          /\ q.ask.op = "artifact" /\ m \in Premium => there = "licence" /\ code = ""
          /\ q.ask.op = "artifact" /\ m \notin Premium =>
                there = "fetch" /\ code = "redirect"
        BY <2>1
    <2>3. /\ r.pc = there /\ r.answer = code /\ r.manifest = m
          /\ r.ask = q.ask /\ r.shut = q.shut /\ r.gone = q.gone
          /\ r.blocked = q.blocked /\ r.listed = q.listed
          /\ r.barred = q.barred /\ r.got = q.got
        BY <1>0, <2>1 DEF Reading
    <2>4. r \in Reading
        <3>1. ManifestPath(q.ask.plugin, v) \in Paths
            BY <1>0, AskingFields, ManifestPathType DEF Reading
        <3>2. m \in Bundles \cup {NoBundle}
            BY <3>1 DEF ManifestOf, Catalogue, TypeOK
        <3>3. there \in {"digest", "licence", "fetch"} /\ code \in {"", "redirect"}
            BY <1>1, <2>2
        <3> HIDE DEF m
        <3> QED
            BY <1>0, <2>1, <3>2, <3>3 DEF Reading
    <2>5. Stage(r)
        BY <1>1, <1>4, <2>2, <2>3 DEF Stage, Early
    <2>6. /\ q.ask.op = "artifact" => ~q.gone /\ v \notin q.shut
          /\ q.ask.op = "version" => ~q.gone /\ (v \in q.shut => q.blocked)
        BY <1>0, <1>1 DEF Gates, Admitted, Detailed
    <2>7. Gates(r)
        BY <1>1, <2>2, <2>3, <2>6, NoBundleIsFree DEF Gates, Admitted, Detailed, Paged
    <2>8. Dated(x)'
        BY <1>0, <1>2, <2>3 DEF Dated, State
    <2>9. Barred(x)'
        BY <1>0, <1>1, <1>2, <2>2, <2>3 DEF Barred
    <2>10. ASSUME PointedOK(x)
           PROVE  PointedOK(x)'
        BY <1>1, <1>2, <2>2, <2>3, <2>10
        DEF PointedOK, Pointed, ManifestOf, State, BreaksOnRemoval, DigestMatches
    <2> QED
        BY <2>4, <2>5, <2>7, <2>8, <2>9, <2>10 DEF Keeps, ReaderOK
<1> QED
    BY <1>3, <1>4 DEF ReadVersionManifest

\* Where no cleanup runs, the jar of the manifest a reader holds is there.
LEMMA JarIsThere ==
    ASSUME Catalogue, JarsFirst, NEW x \in Readers, reader[x].ask \in Asking,
           reader[x].manifest # NoBundle, ~State(x).doc.removed, Pointed(x)
    PROVE  files[ArtPath(x)] # NoBundle
<1>1. reader[x].ask.plugin \in Plugins /\ reader[x].ask.version \in Versions
    BY AskingFields
<1>2. files[ManifestPath(reader[x].ask.plugin, reader[x].ask.version)] = reader[x].manifest
    BY DEF Pointed, ManifestOf
<1> QED
    BY <1>1, <1>2 DEF JarsFirst, State, ArtPath

LEMMA ReadDigestOK ==
    ASSUME Catalogue, Readable, NEW x \in Readers, ReadDigest(x)
    PROVE  Keeps(x)
<1> DEFINE q == reader[x]
           r == reader'[x]
           jar == files[ArtPath(x)]
<1>0. /\ q \in Reading /\ ReadersTyped
      /\ Stage(q) /\ Gates(q) /\ Dated(x) /\ Barred(x)
    BY DEF Readable, ReadersTyped, ReaderOK
<1>1. q.pc = "digest" /\ q.ask.op = "version" /\ q.manifest # NoBundle
    BY <1>0 DEF ReadDigest, At, Stage
<1>2. UNCHANGED <<plugin, files, licences, issued, now>>
    BY DEF ReadDigest, ReadOnly, vars
<1>3. PICK digest : /\ r = [q EXCEPT !.pc = "done", !.answer = "detail", !.got = digest]
                    /\ digest = IF jar # NoBundle THEN jar ELSE q.listed
    BY <1>0 DEF ReadDigest, ReadersTyped
<1>4. /\ r.pc = "done" /\ r.answer = "detail" /\ r.got = digest
      /\ r.ask = q.ask /\ r.shut = q.shut /\ r.gone = q.gone
      /\ r.blocked = q.blocked /\ r.manifest = q.manifest
      /\ r.barred = q.barred
    BY <1>0, <1>3 DEF Reading
<1>5. q.ask \in Asking /\ q.manifest \in Bundles
    BY <1>0, <1>1 DEF Reading
<1>6. r \in Reading
    <2>1. ArtPath(x) \in Paths
        BY <1>5, AskingFields, PathTypes DEF ArtPath
    <2>2. jar \in Bundles \cup {NoBundle}
        BY <2>1 DEF Catalogue, TypeOK
    <2>3. digest \in Bundles \cup {NoBundle}
        BY <1>0, <1>3, <2>2 DEF Reading
    <2> QED
        BY <1>0, <1>3, <2>3 DEF Reading
<1>7. Stage(r)
    BY <1>1, <1>4 DEF Stage, Early
<1>8. Gates(r)
    <2>1. ~q.gone /\ (q.ask.version \in q.shut => q.blocked)
        BY <1>0, <1>1 DEF Gates, Detailed
    <2> QED
        BY <1>1, <1>4, <2>1 DEF Gates, Admitted, Detailed, Paged
<1>9. Dated(x)' /\ Barred(x)'
    BY <1>0, <1>1, <1>2, <1>4 DEF Dated, Barred, State
<1>10. ASSUME Unswept, PointedOK(x)
       PROVE  PointedOK(x)'
    <2>1. Pointed(x)'
        BY <1>2, <1>4, <1>10 DEF PointedOK, Pointed, ManifestOf, State
    <2>2. BreaksOnRemoval(x)'
        BY <1>4 DEF BreaksOnRemoval
    <2>3. ~State(x).doc.removed => jar # NoBundle
        BY <1>1, <1>5, <1>10, JarIsThere DEF Unswept, PointedOK
    <2>4. DigestMatches(x)'
        BY <1>2, <1>3, <1>4, <2>3 DEF DigestMatches, State, ArtPath
    <2> QED
        BY <2>1, <2>2, <2>4 DEF PointedOK
<1> QED
    BY <1>6, <1>7, <1>8, <1>9, <1>10 DEF Keeps, ReaderOK

LEMMA LatestIsOpen ==
    ASSUME NEW listed \in SUBSET Versions, NEW blocked,
           LatestInstallable(listed, blocked) # NoVersion
    PROVE  LatestInstallable(listed, blocked) \in listed \ blocked
BY VersionsAssumption DEF LatestInstallable

LEMMA ReadPluginOK ==
    ASSUME Catalogue, Readable, NEW x \in Readers, ReadPlugin(x)
    PROVE  Keeps(x)
<1> DEFINE q == reader[x]
           r == reader'[x]
           s == State(x)
           top == s.doc.latest
<1>0. /\ q \in Reading /\ ReadersTyped
      /\ Stage(q) /\ Gates(q) /\ Dated(x) /\ Barred(x)
    BY DEF Readable, ReadersTyped, ReaderOK
<1>1. q.pc = "page" /\ q.answer = "" /\ q.manifest = NoBundle /\ q.got = NoBundle
    BY <1>0 DEF ReadPlugin, At, Stage, Early
<1>2. UNCHANGED <<plugin, files, licences, issued, now>>
    BY DEF ReadPlugin, ReadOnly, vars
<1>3. CASE \E code \in {"notFound", "gone"} : Reply(x, code)
    <2>1. PICK code \in {"notFound", "gone"} : Reply(x, code)
        BY <1>3
    <2>2. code \in Refusals /\ code \notin {"panic", "internalError"}
        BY <2>1 DEF Refusals
    <2> QED
        BY <1>1, <1>2, <2>1, <2>2, RepliesAreSafe
<1>4. CASE /\ ~s.doc.removed /\ top # NoVersion
           /\ reader' = [reader EXCEPT ![x].pc = "page manifest", ![x].ask.version = top]
    <2>0. q.ask \in Asking /\ q.ask.plugin \in Plugins
        BY <1>0, AskingFields DEF Reading
    <2>1. r = [q EXCEPT !.pc = "page manifest", !.ask = [@ EXCEPT !.version = top]]
        BY <1>0, <1>4 DEF ReadersTyped, Reading
    <2>2. /\ r.pc = "page manifest" /\ r.ask = [q.ask EXCEPT !.version = top]
          /\ r.answer = q.answer /\ r.manifest = q.manifest
          /\ r.shut = q.shut /\ r.gone = q.gone
          /\ r.barred = q.barred /\ r.got = q.got
        BY <1>0, <2>1 DEF Reading
    <2>3. /\ r.ask.version = top /\ r.ask.plugin = q.ask.plugin
          /\ r.ask.op = q.ask.op /\ r.ask.token = q.ask.token
        BY <2>0, <2>2 DEF Asking
    <2>4. top \in Listed(s.doc) \ s.doc.blocked
        <3>1. top = LatestInstallable(Listed(s.doc), s.doc.blocked)
            BY <2>0 DEF Catalogue, LatestFollowsLists, State
        <3> DEFINE listed == Listed(s.doc)
                   blocked == s.doc.blocked
        <3>2. listed \in SUBSET Versions
            BY DEF Listed
        <3>3. LatestInstallable(listed, blocked) # NoVersion
            BY <1>4, <3>1
        <3>4. LatestInstallable(listed, blocked) \in listed \ blocked
            <4> HIDE DEF listed, blocked
            <4> QED
                BY <3>2, <3>3, LatestIsOpen
        <3> QED
            BY <3>1, <3>4
    <2>5. top \in Versions
        BY <2>4 DEF Listed
    <2>6. r \in Reading
        <3>1. [q.ask EXCEPT !.version = top] \in Asking
            BY <2>0, <2>5 DEF Asking
        <3> HIDE DEF top
        <3> QED
            BY <1>0, <2>1, <3>1 DEF Reading
    <2>7. ~q.gone /\ top \notin q.shut
        BY <1>0, <1>4, <2>4 DEF Dated
    <2>8. Stage(r)
        BY <1>1, <2>2 DEF Stage, Early
    <2>9. Gates(r)
        BY <1>1, <2>2, <2>3, <2>7, NoBundleIsFree DEF Gates, Admitted, Detailed, Paged
    <2>10. Dated(x)' /\ Barred(x)'
        BY <1>0, <1>2, <2>2, <2>3 DEF Dated, Barred, State
    <2>11. PointedOK(x)'
        BY <1>1, <1>2, <2>2, <2>3, <2>4
        DEF PointedOK, Pointed, BreaksOnRemoval, DigestMatches, State
    <2> QED
        BY <2>6, <2>8, <2>9, <2>10, <2>11 DEF Keeps, ReaderOK
<1> QED
    BY <1>3, <1>4 DEF ReadPlugin

LEMMA ReadLatestManifestOK ==
    ASSUME Catalogue, Readable, NEW x \in Readers, ReadLatestManifest(x)
    PROVE  Keeps(x)
<1> DEFINE q == reader[x]
           r == reader'[x]
           v == q.ask.version
           m == ManifestOf(x, v)
<1>0. /\ q \in Reading /\ ReadersTyped
      /\ Stage(q) /\ Gates(q) /\ Dated(x) /\ Barred(x)
    BY DEF Readable, ReadersTyped, ReaderOK
<1>1. /\ q.pc = "page manifest" /\ q.answer = "" /\ q.manifest = NoBundle
      /\ q.got = NoBundle
    BY <1>0 DEF ReadLatestManifest, At, Stage, Early
<1>2. UNCHANGED <<plugin, files, licences, issued, now>>
    BY DEF ReadLatestManifest, ReadOnly, vars
<1>3. ~q.gone /\ v \notin q.shut
    BY <1>0, <1>1 DEF Gates, Paged
<1>4. CASE m = NoBundle
    <2>1. Reply(x, "internalError")
        BY <1>4 DEF ReadLatestManifest
    <2>2. r = [q EXCEPT !.pc = "done", !.answer = "internalError"]
        BY <1>0, <2>1, ReplyIs
    <2>3. r.gone = q.gone /\ r.ask = q.ask
        BY <1>0, <2>2 DEF Reading
    <2>4. Unswept /\ PointedOK(x) => State(x).doc.removed
        <3>1. q.ask.plugin \in Plugins /\ v \in Versions
            BY <1>0, AskingFields DEF Reading
        <3>2. PointedOK(x) => v \in Listed(State(x).doc)
            BY <1>1 DEF PointedOK, Pointed
        <3>3. v \in Listed(State(x).doc) => State(x).doc.versions[v] # NoBundle
            BY DEF Listed
        <3> QED
            BY <1>4, <3>1, <3>2, <3>3
            DEF Unswept, PublishesInOrder, ListedIsComplete, State, ManifestOf
    <2>5. Unswept /\ PointedOK(x) => BreaksOnRemoval(x)'
        BY <1>2, <1>3, <2>3, <2>4 DEF BreaksOnRemoval, State
    <2> QED
        BY <1>1, <1>2, <2>1, <2>5, RepliesAreSafe DEF Refusals
<1>5. CASE m # NoBundle
    <2>1. Reply(x, "page")
        BY <1>5 DEF ReadLatestManifest
    <2>2. r = [q EXCEPT !.pc = "done", !.answer = "page"]
        BY <1>0, <2>1, ReplyIs
    <2>3. /\ r.pc = "done" /\ r.answer = "page"
          /\ r.ask = q.ask /\ r.shut = q.shut /\ r.gone = q.gone
          /\ r.barred = q.barred /\ r.got = q.got /\ r.manifest = q.manifest
        BY <1>0, <2>2 DEF Reading
    <2>4. r \in Reading
        BY <1>0, <2>2 DEF Reading
    <2>5. Stage(r)
        BY <2>3 DEF Stage, Early
    <2>6. Gates(r)
        BY <1>1, <1>3, <2>3, NoBundleIsFree DEF Gates, Admitted, Detailed, Paged
    <2>7. Dated(x)' /\ Barred(x)'
        BY <1>0, <1>2, <2>3 DEF Dated, Barred, State
    <2>8. PointedOK(x)'
        BY <1>1, <2>3 DEF PointedOK, Pointed, BreaksOnRemoval, DigestMatches
    <2> QED
        BY <2>4, <2>5, <2>6, <2>7, <2>8 DEF Keeps, ReaderOK
<1> QED
    BY <1>4, <1>5

LEMMA ReadListOK ==
    ASSUME Catalogue, Readable, NEW x \in Readers, ReadList(x)
    PROVE  Keeps(x)
<1>1. reader[x].pc = "list" /\ Reply(x, "list")
    BY DEF ReadList, At
<1>2. UNCHANGED <<plugin, files, licences, issued, now>>
    BY DEF ReadList, ReadOnly, vars
<1> QED
    BY <1>1, <1>2, RepliesAreSafe DEF Refusals

\* A jar that cannot be read: the listed digest, if there is one, is that of the
\* upload the manifest is from.
LEMMA FallBackOK ==
    ASSUME Readable, NEW x \in Readers, FallBackToListed(x),
           UNCHANGED <<plugin, files, licences, issued, now>>
    PROVE  Keeps(x)
<1> DEFINE q == reader[x]
           r == reader'[x]
<1>0. /\ q \in Reading /\ ReadersTyped
      /\ Stage(q) /\ Gates(q) /\ Dated(x) /\ Barred(x)
    BY DEF Readable, ReadersTyped, ReaderOK
<1>1. q.pc = "digest" /\ q.ask.op = "version" /\ q.manifest # NoBundle
    BY <1>0 DEF FallBackToListed, At, Stage
<1>2. r = [q EXCEPT !.pc = "done", !.answer = "detail", !.got = q.listed, !.unread = TRUE]
    BY <1>0 DEF FallBackToListed, ReadersTyped
<1>3. /\ r.pc = "done" /\ r.answer = "detail" /\ r.got = q.listed /\ r.unread
      /\ r.ask = q.ask /\ r.shut = q.shut /\ r.gone = q.gone
      /\ r.blocked = q.blocked /\ r.manifest = q.manifest
      /\ r.barred = q.barred
    BY <1>0, <1>2 DEF Reading
<1>4. r \in Reading
    BY <1>0, <1>2 DEF Reading
<1>5. Stage(r)
    BY <1>1, <1>3 DEF Stage, Early
<1>6. Gates(r)
    <2>1. ~q.gone /\ (q.ask.version \in q.shut => q.blocked)
        BY <1>0, <1>1 DEF Gates, Detailed
    <2> QED
        BY <1>1, <1>3, <2>1 DEF Gates, Admitted, Detailed, Paged
<1>7. Dated(x)' /\ Barred(x)'
    BY <1>0, <1>1, <1>3 DEF Dated, Barred, State
<1>8. ASSUME PointedOK(x)
      PROVE  PointedOK(x)'
    <2>1. Pointed(x)'
        BY <1>3, <1>8 DEF PointedOK, Pointed, ManifestOf, State
    <2>2. BreaksOnRemoval(x)'
        BY <1>3 DEF BreaksOnRemoval
    <2>3. ~State(x).doc.removed => q.listed \in {NoBundle, q.manifest}
        BY <1>1, <1>8 DEF PointedOK, Pointed
    <2>4. DigestMatches(x)'
        BY <1>3, <2>3 DEF DigestMatches, State
    <2> QED
        BY <2>1, <2>2, <2>4 DEF PointedOK
<1> QED
    BY <1>4, <1>5, <1>6, <1>7, <1>8 DEF Keeps, ReaderOK

LEMMA ReadFailsOK ==
    ASSUME Catalogue, Readable, NEW x \in Readers, ReadFails(x)
    PROVE  Keeps(x)
<1>2. UNCHANGED <<plugin, files, licences, issued, now>>
    BY DEF ReadFails
<1> SUFFICES ASSUME ~FallBackToListed(x)
             PROVE  Keeps(x)
    BY <1>2, FallBackOK
<1>1. reader[x].pc # "done"
    BY DEF ReadFails, At
<1>3. PICK code \in {"notFound", "internalError", "unavailable"} : Reply(x, code)
    BY DEF ReadFails
<1>4. code \in Refusals /\ code # "panic"
    BY <1>3 DEF Refusals
<1>5. BreaksOnRemoval(x)'
    <2>1. faults' # <<>>
        BY FaultIsRecorded DEF ReadFails, Catalogue
    <2>2. reader[x] \in Reading /\ ReadersTyped
        BY DEF Readable, ReadersTyped
    <2>3. reader'[x].answer = code
        <3>1. reader'[x] = [reader[x] EXCEPT !.pc = "done", !.answer = code]
            BY <1>3, <2>2, ReplyIs
        <3> QED
            BY <2>2, <3>1 DEF Reading
    <2> QED
        BY <1>4, <2>1, <2>3 DEF BreaksOnRemoval
<1> QED
    BY <1>1, <1>2, <1>3, <1>4, <1>5, RepliesAreSafe

-----------------------------------------------------------------------------
(* Licences and signed URLs. *)

LEMMA NotLater ==
    ASSUME NEW m \in Nat, NEW n \in Nat
    PROVE  /\ ~(m >= n) => m < n
           /\ ~(m > n) => m <= n
OBVIOUS

LEMMA TokenFields ==
    ASSUME NEW t \in Tokens
    PROVE  /\ t.customer \in Customers /\ t.key \in Keys
           /\ t.until \in Nat /\ t.right \in BOOLEAN
BY DownloadsAssumption, LicenceAssumption DEF Token

LEMMA DocumentIsHeld ==
    ASSUME NEW d \in Document
    PROVE  d # NoDocument /\ Held(d) = d
BY LicenceAssumption DEF Document, Entitlement, Held

LEMMA EntitlementFields ==
    ASSUME NEW d \in Document, NEW c \in Customers, d[c] # NoEntitlement
    PROVE  /\ d[c] \in Entitlement
           /\ d[c].keys \subseteq Keys /\ d[c].until \in Nat
           /\ KeysOf(d, c) = d[c].keys
<1>1. d[c] \in Entitlement
    BY DEF Document
<1> QED
    BY <1>1, DocumentIsHeld, LicenceAssumption DEF Entitlement, KeysOf

\* VerifyToken accepts only a token that the licence terms accept, on the
\* document it has loaded.
LEMMA AcceptedTokensProve ==
    ASSUME NEW t \in Tokens, NEW d \in Document, now \in Nat, Verdict(t, d) = ""
    PROVE  Proves(t, d, now)
<1>1. TokenRefusal(t, d, now) = "" /\ t.right
    BY DEF Verdict
<1>2. Held(d) = d
    BY DocumentIsHeld
<1>3. t.customer \in Customers /\ t.until \in Nat
    BY TokenFields
<1>4. /\ d[t.customer] # NoEntitlement
      /\ t.key \in KeysOf(d, t.customer) /\ ~(now >= t.until)
      /\ ~(now > d[t.customer].until)
    BY <1>1, <1>2 DEF TokenRefusal
<1>5. d[t.customer].until \in Nat
    BY <1>3, <1>4, EntitlementFields
<1>0. now \in Nat
    OBVIOUS
<1>6. now < t.until
    BY <1>0, <1>3, <1>4, NotLater
<1>7. now <= d[t.customer].until
    BY <1>0, <1>4, <1>5, NotLater
<1> QED
    BY <1>1, <1>4, <1>6, <1>7, Zenon DEF Proves

LEMMA VerdictIs ==
    ASSUME NEW t, NEW d
    PROVE  Verdict(t, d) \in {"", "invalid", "denied", "expired"}
<1>1. TokenRefusal(t, d, now) \in {"", "invalid", "expired"}
    BY DEF TokenRefusal
<1> QED
    BY <1>1 DEF Verdict

LEMMA LoadLicencesOK ==
    ASSUME Catalogue, Readable, NEW x \in Readers, LoadLicences(x)
    PROVE  Keeps(x)
<1> DEFINE q == reader[x]
           r == reader'[x]
<1>0. /\ q \in Reading /\ ReadersTyped
      /\ Stage(q) /\ Gates(q) /\ Dated(x) /\ Barred(x)
    BY DEF Readable, ReadersTyped, ReaderOK
<1>1. /\ q.pc = "licence" /\ q.ask.op = "artifact" /\ q.answer = ""
      /\ q.manifest \in Premium /\ q.got = NoBundle
    BY <1>0 DEF LoadLicences, At, Stage
<1>2. UNCHANGED <<plugin, files, licences, issued, now>>
    BY DEF LoadLicences, ReadOnly, vars
<1>3. CASE Reply(x, "licenceMissing")
    BY <1>1, <1>2, <1>3, RepliesAreSafe DEF Refusals
<1>4. CASE /\ q.ask.token # NoToken
           /\ reader' = [reader EXCEPT ![x].pc = "verify", ![x].held = licences]
    <2>1. r = [q EXCEPT !.pc = "verify", !.held = licences]
        BY <1>0, <1>4 DEF ReadersTyped
    <2>2. /\ r.pc = "verify" /\ r.held = licences
          /\ r.ask = q.ask /\ r.shut = q.shut /\ r.gone = q.gone
          /\ r.answer = q.answer /\ r.manifest = q.manifest
          /\ r.barred = q.barred /\ r.got = q.got
        BY <1>0, <2>1 DEF Reading
    <2>3. licences \in Document
        BY <1>0 DEF ReadersTyped
    <2>4. r \in Reading
        BY <1>0, <2>1, <2>3 DEF Reading
    <2>5. Stage(r)
        BY <1>1, <1>4, <2>2, <2>3, NoBundleIsFree DEF Stage, Early
    <2>6. ~q.gone /\ q.ask.version \notin q.shut
        BY <1>0, <1>1 DEF Gates, Admitted
    <2>7. Gates(r)
        BY <1>1, <2>2, <2>6, NoBundleIsFree DEF Gates, Admitted, Detailed, Paged
    <2>8. Dated(x)'
        BY <1>0, <1>2, <2>2 DEF Dated, State
    <2>9. Barred(x)'
        BY <1>0, <1>2, <2>2 DEF Barred
    <2>10. PointedOK(x) => PointedOK(x)'
        BY <1>1, <1>2, <2>2
        DEF PointedOK, Pointed, State, ManifestOf, BreaksOnRemoval, DigestMatches
    <2> QED
        BY <2>4, <2>5, <2>7, <2>8, <2>9, <2>10 DEF Keeps, ReaderOK
<1> QED
    BY <1>3, <1>4 DEF LoadLicences

LEMMA VerifyTokenOK ==
    ASSUME Catalogue, Readable, NEW x \in Readers, VerifyToken(x)
    PROVE  Keeps(x)
<1> DEFINE q == reader[x]
           r == reader'[x]
           refusal == Verdict(q.ask.token, q.held)
<1>0. /\ q \in Reading /\ ReadersTyped
      /\ Stage(q) /\ Gates(q) /\ Dated(x) /\ Barred(x)
    BY DEF Readable, ReadersTyped, ReaderOK
<1>1. /\ q.pc = "verify" /\ q.ask.op = "artifact" /\ q.answer = ""
      /\ q.manifest \in Premium /\ q.got = NoBundle
      /\ q.held \in Document /\ q.ask.token # NoToken
    BY <1>0 DEF VerifyToken, At, Stage
<1>2. UNCHANGED <<plugin, files, licences, issued, now>>
    BY DEF VerifyToken, ReadOnly, vars
<1>3. PICK there :
         /\ r = [q EXCEPT !.held = NoDocument, !.answer = refusal, !.pc = there]
         /\ there = IF refusal = "" THEN "sign" ELSE "done"
    BY <1>0 DEF VerifyToken, ReadersTyped
<1>4. refusal \in {"", "invalid", "denied", "expired"}
    BY VerdictIs
<1>5. /\ r.pc = there /\ r.answer = refusal /\ r.held = NoDocument
      /\ r.ask = q.ask /\ r.shut = q.shut /\ r.gone = q.gone
      /\ r.manifest = q.manifest
      /\ r.barred = q.barred /\ r.got = q.got
    BY <1>0, <1>3 DEF Reading
<1>6. q.barred => refusal # ""
    <2>1. q.ask.token \in Tokens
        BY <1>0, <1>1, AskingFields DEF Reading
    <2>2. now \in Nat
        BY <1>0 DEF ReadersTyped
    <2>3. q.barred => ~Proves(q.ask.token, q.held, now)
        BY <1>0, <1>1 DEF Barred
    <2> QED
        BY <1>1, <2>1, <2>2, <2>3, AcceptedTokensProve
<1> HIDE DEF refusal
<1>7. there \in {"sign", "done"}
    BY <1>3
<1>8. r \in Reading
    BY <1>0, <1>3, <1>4, <1>7 DEF Reading
<1>9. Stage(r)
    BY <1>1, <1>3, <1>4, <1>5 DEF Stage, Early
<1>10. ~q.gone /\ q.ask.version \notin q.shut
    BY <1>0, <1>1 DEF Gates, Admitted
<1>11. Gates(r)
    BY <1>1, <1>3, <1>4, <1>5, <1>6, <1>10, NoBundleIsFree
    DEF Gates, Admitted, Detailed, Paged
<1>12. Dated(x)'
    BY <1>0, <1>2, <1>5 DEF Dated, State
<1>13. Barred(x)'
    BY <1>0, <1>2, <1>5, <1>7 DEF Barred
<1>14. PointedOK(x) => PointedOK(x)'
    <2>1. Pointed(x) => Pointed(x)'
        BY <1>2, <1>5, <1>7 DEF Pointed, State, ManifestOf
    <2>2. BreaksOnRemoval(x)' /\ DigestMatches(x)'
        BY <1>4, <1>5 DEF BreaksOnRemoval, DigestMatches
    <2> QED
        BY <2>1, <2>2 DEF PointedOK
<1> QED
    BY <1>8, <1>9, <1>11, <1>12, <1>13, <1>14 DEF Keeps, ReaderOK

LEMMA SignURLOK ==
    ASSUME Catalogue, Readable, NEW x \in Readers, SignURL(x)
    PROVE  Keeps(x)
<1> DEFINE q == reader[x]
           r == reader'[x]
<1>0. /\ q \in Reading /\ ReadersTyped
      /\ Stage(q) /\ Gates(q) /\ Dated(x) /\ Barred(x)
    BY DEF Readable, ReadersTyped, ReaderOK
<1>1. /\ q.pc = "sign" /\ q.ask.op = "artifact"
      /\ q.manifest \in Premium /\ q.got = NoBundle
    BY <1>0 DEF SignURL, At, Stage
<1>2. UNCHANGED <<plugin, files, licences, issued, now>>
    BY DEF SignURL, ReadOnly, vars
<1>3. r = [q EXCEPT !.pc = "fetch", !.answer = "signed", !.exp = now + TTL]
    BY <1>0 DEF SignURL, ReadersTyped
<1>4. /\ r.pc = "fetch" /\ r.answer = "signed"
      /\ r.ask = q.ask /\ r.shut = q.shut /\ r.gone = q.gone
      /\ r.manifest = q.manifest
      /\ r.barred = q.barred /\ r.got = q.got
    BY <1>0, <1>3 DEF Reading
<1>5. r \in Reading
    <2>1. now + TTL \in Nat
        BY <1>0, DownloadsAssumption DEF ReadersTyped
    <2> QED
        BY <1>0, <1>3, <2>1 DEF Reading
<1>6. Stage(r)
    BY <1>1, <1>4, NoBundleIsFree DEF Stage, Early
<1>7. ~q.gone /\ q.ask.version \notin q.shut /\ ~q.barred
    BY <1>0, <1>1 DEF Gates, Admitted
<1>8. Gates(r)
    BY <1>1, <1>4, <1>7 DEF Gates, Admitted, Detailed, Paged
<1>9. Dated(x)' /\ Barred(x)'
    BY <1>0, <1>2, <1>4, <1>7 DEF Dated, Barred, State
<1>10. PointedOK(x) => PointedOK(x)'
    <2>1. Pointed(x) => Pointed(x)'
        BY <1>2, <1>4 DEF Pointed, State, ManifestOf
    <2>2. BreaksOnRemoval(x)' /\ DigestMatches(x)'
        BY <1>4 DEF BreaksOnRemoval, DigestMatches
    <2> QED
        BY <2>1, <2>2 DEF PointedOK
<1> QED
    BY <1>5, <1>6, <1>8, <1>9, <1>10 DEF Keeps, ReaderOK

\* The object a URL names, by what was asked for.
LEMMA WantedIs ==
    ASSUME NEW x \in Readers
    PROVE  LET a == reader[x].ask
           IN  /\ a.op = "jar" => Wanted(x) = PathOf("public", a.plugin, a.version)
               /\ a.op = "premium jar" =>
                     Wanted(x) = PathOf("premium", a.plugin, a.version)
               /\ a.op \notin {"jar", "premium jar"} => Wanted(x) = ArtPath(x)
BY DEF Wanted

LEMMA CheckURLOK ==
    ASSUME Catalogue, Readable, NEW x \in Readers, CheckURL(x)
    PROVE  Keeps(x)
<1> DEFINE q == reader[x]
           r == reader'[x]
<1>0. /\ q \in Reading /\ ReadersTyped
      /\ Stage(q) /\ Gates(q) /\ Dated(x) /\ Barred(x)
    BY DEF Readable, ReadersTyped, ReaderOK
<1>1. /\ q.pc = "fetch" /\ q.got = NoBundle
      /\ q.answer \in {"", "redirect", "signed"}
      /\ q.answer = "" => q.ask.op \in {"jar", "premium jar"}
      /\ q.answer \in {"redirect", "signed"} => q.ask.op = "artifact"
    BY <1>0 DEF CheckURL, At, Stage
<1>2. UNCHANGED <<plugin, files, licences, issued, now>>
    BY DEF CheckURL, ReadOnly, vars
<1>3. PICK there \in {"done", "serve"} :
         /\ r = [q EXCEPT !.pc = there]
         /\ there = "serve" => Wanted(x).kind # "premium" \/ SignatureHolds(x)
    BY <1>0 DEF CheckURL, On, ReadersTyped
<1>4. /\ r.pc = there /\ r.answer = q.answer
      /\ r.ask = q.ask /\ r.shut = q.shut /\ r.gone = q.gone
      /\ r.manifest = q.manifest /\ r.blocked = q.blocked
      /\ r.barred = q.barred /\ r.got = q.got
    BY <1>0, <1>3 DEF Reading
<1>5. r \in Reading
    BY <1>0, <1>3 DEF Reading
<1>6. there = "serve" => q.ask.op # "premium jar"
    <2>1. q.ask.op = "premium jar" => Wanted(x).kind = "premium"
        <3>1. ASSUME q.ask.op = "premium jar"
              PROVE  Wanted(x) = PathOf("premium", q.ask.plugin, q.ask.version)
            BY <3>1, WantedIs
        <3>2. PathOf("premium", q.ask.plugin, q.ask.version).kind = "premium"
            BY PathFields
        <3> QED
            BY <3>1, <3>2
    <2> QED
        BY <1>1, <1>3, <2>1 DEF SignatureHolds
<1>7. Stage(r)
    <2>1. q.answer \in {"redirect", "signed", "detail"} => q.manifest # NoBundle
        BY <1>0 DEF Stage
    <2>2. q.answer = "redirect" => q.manifest \notin Premium
        BY <1>0 DEF Stage
    <2> QED
        BY <1>1, <1>4, <1>6, <2>1, <2>2 DEF Stage, Early
<1>8. Gates(r)
    BY <1>0, <1>1, <1>4, NoBundleIsFree DEF Gates, Admitted, Detailed, Paged
<1>9. Dated(x)' /\ Barred(x)'
    BY <1>0, <1>2, <1>4 DEF Dated, Barred, State
<1>10. PointedOK(x) => PointedOK(x)'
    <2>1. Pointed(x) => Pointed(x)'
        BY <1>2, <1>4 DEF Pointed, State, ManifestOf
    <2>2. BreaksOnRemoval(x)' /\ DigestMatches(x)'
        BY <1>1, <1>4 DEF BreaksOnRemoval, DigestMatches
    <2> QED
        BY <2>1, <2>2 DEF PointedOK
<1> QED
    BY <1>5, <1>7, <1>8, <1>9, <1>10 DEF Keeps, ReaderOK

\* An unsigned URL names a public jar, or nothing is served.
LEMMA ServeOK ==
    ASSUME Catalogue, Readable, NEW x \in Readers, Serve(x)
    PROVE  Keeps(x)
<1> DEFINE q == reader[x]
           r == reader'[x]
           f == Wanted(x)
<1>0. /\ q \in Reading /\ ReadersTyped
      /\ Stage(q) /\ Gates(q) /\ Dated(x) /\ Barred(x)
    BY DEF Readable, ReadersTyped, ReaderOK
<1>1. /\ q.pc = "serve"
      /\ q.answer \in {"", "redirect", "signed"}
      /\ q.answer = "" => q.ask.op = "jar"
      /\ q.answer \in {"redirect", "signed"} =>
            q.ask.op = "artifact" /\ q.manifest # NoBundle
      /\ q.answer = "redirect" => q.manifest \notin Premium
    BY <1>0 DEF Serve, At, Stage
<1>2. UNCHANGED <<plugin, files, licences, issued, now>>
    BY DEF Serve, ReadOnly, vars
<1>3. r = [q EXCEPT !.pc = "done", !.got = files[f]]
    BY <1>0 DEF Serve, ReadersTyped
<1>4. /\ r.pc = "done" /\ r.answer = q.answer /\ r.got = files[f]
      /\ r.ask = q.ask /\ r.shut = q.shut /\ r.gone = q.gone
      /\ r.manifest = q.manifest /\ r.blocked = q.blocked
      /\ r.barred = q.barred
    BY <1>0, <1>3 DEF Reading
<1>5. f \in Paths
    <2>1. /\ q.ask.plugin \in Plugins /\ q.ask.version \in Versions
          /\ q.manifest \in Bundles \cup {NoBundle}
        BY <1>0, AskingFields DEF Reading
    <2>2. \E k \in Kinds : f = PathOf(k, q.ask.plugin, q.ask.version)
        BY AccessIsAKind DEF Wanted, ArtPath, JarPath, Kinds
    <2> QED
        BY <2>1, <2>2 DEF PathOf, Paths
<1>6. files[f] \in Bundles \cup {NoBundle}
    BY <1>5 DEF Catalogue, TypeOK
<1>7. q.answer # "signed" => files[f] \notin Premium
    <2>1. q.answer # "signed" => f.kind = "public"
        <3>1. CASE q.answer = ""
            <4>1. f = PathOf("public", q.ask.plugin, q.ask.version)
                BY <1>1, <3>1, WantedIs
            <4> QED
                BY <4>1, PathFields
        <3>2. CASE q.answer = "redirect"
            <4>1. f = ArtPath(x)
                BY <1>1, <3>2, WantedIs
            <4>2. f = PathOf("public", q.ask.plugin, q.ask.version)
                BY <1>1, <3>2, <4>1 DEF ArtPath, JarPath, Access
            <4> QED
                BY <4>2, PathFields
        <3> QED
            BY <1>1, <3>1, <3>2
    <2> QED
        BY <1>5, <2>1 DEF Catalogue, Filed
<1> HIDE DEF f
<1>8. r \in Reading
    BY <1>0, <1>3, <1>6 DEF Reading
<1>9. Stage(r)
    BY <1>1, <1>4 DEF Stage, Early
<1>10. Gates(r)
    BY <1>0, <1>1, <1>4, <1>7 DEF Gates, Admitted, Detailed, Paged
<1>11. Dated(x)' /\ Barred(x)'
    BY <1>0, <1>2, <1>4 DEF Dated, Barred, State
<1>12. PointedOK(x) => PointedOK(x)'
    <2>1. Pointed(x) => Pointed(x)'
        BY <1>2, <1>4 DEF Pointed, State, ManifestOf
    <2>2. BreaksOnRemoval(x)' /\ DigestMatches(x)'
        BY <1>1, <1>4 DEF BreaksOnRemoval, DigestMatches
    <2> QED
        BY <2>1, <2>2 DEF PointedOK
<1> QED
    BY <1>8, <1>9, <1>10, <1>11, <1>12 DEF Keeps, ReaderOK

-----------------------------------------------------------------------------
(* The licence terms move on. *)

\* What a licence operation leaves behind: the new keys are fresh ones, and an
\* entitlement that keeps an old key keeps its expiry.
LEMMA LicencesChange ==
    ASSUME licences \in Document, issued \subseteq Keys,
           NEW c \in LicenceCalls, NEW k \in Keys, ChangeLicences(c, k)
    PROVE  /\ licences' \in Document
           /\ issued' \subseteq Keys /\ issued \subseteq issued'
           /\ \A e \in Customers, key \in issued :
                 key \in KeysOf(licences', e) =>
                    /\ key \in KeysOf(licences, e)
                    /\ licences'[e].until = licences[e].until
<1> DEFINE mine == c.customer
<1>0. /\ c.op \in {"create", "revoke", "rotate"} /\ mine \in Customers
      /\ c.until \in Instants
    BY DownloadsAssumption DEF LicenceCall
<1>1. /\ k \notin issued /\ licences' = WithLicence(c, k, licences)
      /\ issued \subseteq issued' /\ issued' \subseteq issued \cup {k}
      /\ LicenceRefusal(c, licences) = ""
    BY DEF ChangeLicences
<1>2. licences # NoDocument /\ Held(licences) = licences
    BY DocumentIsHeld
<1>3. licences \in [Customers -> Entitlement \cup {NoEntitlement}]
    BY DEF Document
<1>4. ASSUME NEW e \in Entitlement \cup {NoEntitlement},
             licences' = [licences EXCEPT ![mine] = e],
             e # NoEntitlement =>
                \A key \in issued : key \in e.keys =>
                   /\ licences[mine] # NoEntitlement
                   /\ key \in licences[mine].keys
                   /\ e.until = licences[mine].until
      PROVE  /\ licences' \in Document
             /\ \A f \in Customers, key \in issued :
                   key \in KeysOf(licences', f) =>
                      /\ key \in KeysOf(licences, f)
                      /\ licences'[f].until = licences[f].until
    <2>1. licences' \in Document
        BY <1>3, <1>4 DEF Document
    <2>2. Held(licences') = licences'
        BY <2>1, DocumentIsHeld
    <2>3. ASSUME NEW f \in Customers, NEW key \in issued, key \in KeysOf(licences', f)
          PROVE  key \in KeysOf(licences, f) /\ licences'[f].until = licences[f].until
        <3>1. licences'[f] # NoEntitlement /\ key \in licences'[f].keys
            BY <2>2, <2>3 DEF KeysOf
        <3>2. CASE f = mine
            <4>1. licences'[f] = e
                BY <1>0, <1>3, <1>4, <3>2
            <4> QED
                BY <1>2, <1>4, <3>1, <3>2, <4>1 DEF KeysOf
        <3>3. CASE f # mine
            <4>1. licences'[f] = licences[f]
                BY <1>3, <1>4, <3>3
            <4> QED
                BY <1>2, <3>1, <4>1 DEF KeysOf
        <3> QED
            BY <3>2, <3>3
    <2> QED
        BY <2>1, <2>3
<1>5. CASE c.op = "create"
    <2> DEFINE e == [keys |-> {k}, until |-> c.until]
    <2>1. e \in Entitlement
        BY <1>0 DEF Entitlement
    <2>2. licences' = [licences EXCEPT ![mine] = e]
        BY <1>1, <1>2, <1>5 DEF WithLicence
    <2>3. \A key \in issued : key \notin e.keys
        BY <1>1
    <2> HIDE DEF e
    <2> QED
        BY <1>1, <1>4, <2>1, <2>2, <2>3
<1>6. CASE c.op = "revoke"
    <2>1. licences' = [licences EXCEPT ![mine] = NoEntitlement]
        BY <1>1, <1>2, <1>6 DEF WithLicence
    <2> QED
        BY <1>1, <1>4, <2>1
<1>7. CASE c.op = "rotate"
    <2> DEFINE old == licences[mine]
               e == [old EXCEPT !.keys = @ \cup {k}]
    <2>1. old # NoEntitlement
        BY <1>1, <1>2, <1>7 DEF LicenceRefusal
    <2>2. old \in Entitlement
        BY <1>0, <1>3, <2>1
    <2>3. e \in Entitlement /\ e.keys = old.keys \cup {k} /\ e.until = old.until
        BY <2>2 DEF Entitlement
    <2>4. licences' = [licences EXCEPT ![mine] = e]
        BY <1>1, <1>2, <1>7 DEF WithLicence
    <2>5. \A key \in issued : key \in e.keys => key \in old.keys
        BY <1>1, <2>3
    <2> HIDE DEF e
    <2> QED
        BY <1>1, <1>4, <2>1, <2>3, <2>4, <2>5
<1> QED
    BY <1>0, <1>1, <1>5, <1>6, <1>7

\* How the licence document and the clock move in one step.
TermsMove ==
    \/ UNCHANGED <<licences, issued, now>>
    \/ UNCHANGED <<licences, issued>> /\ now' = now + 1
    \/ \E c \in LicenceCalls, k \in Keys : ChangeLicences(c, k)

LEMMA TermsAreTyped ==
    ASSUME ReadersTyped, TermsMove
    PROVE  licences' \in Document /\ issued' \subseteq Keys /\ now' \in Nat
<1>0. licences \in Document /\ issued \subseteq Keys /\ now \in Nat
    BY DEF ReadersTyped
<1>1. CASE \E c \in LicenceCalls, k \in Keys : ChangeLicences(c, k)
    BY <1>0, <1>1, LicencesChange DEF ChangeLicences
<1> QED
    BY <1>0, <1>1 DEF TermsMove

LEMMA LaterIsNotEarlier ==
    ASSUME NEW n \in Nat, NEW u \in Nat
    PROVE  (n + 1 < u => n < u) /\ (n + 1 <= u => n <= u)
OBVIOUS

\* A document that does not prove a token now will not prove it later.
LEMMA TimeProvesNothing ==
    ASSUME ReadersTyped, NEW t \in Tokens, NEW d \in Document,
           Proves(t, d, now'), now' \in {now, now + 1}
    PROVE  Proves(t, d, now)
<1>0. /\ t.customer \in Customers /\ t.until \in Nat /\ now \in Nat
    BY TokenFields DEF ReadersTyped
<1>1. /\ t.right /\ now' < t.until
      /\ t.key \in KeysOf(d, t.customer)
      /\ now' <= d[t.customer].until
    BY DEF Proves
<1>2. d[t.customer] # NoEntitlement
    BY <1>1, DocumentIsHeld DEF KeysOf
<1>3. d[t.customer].until \in Nat
    BY <1>0, <1>2, EntitlementFields
<1>4. now < t.until
    BY <1>0, <1>1, LaterIsNotEarlier
<1>5. now <= d[t.customer].until
    BY <1>0, <1>1, <1>3, LaterIsNotEarlier
<1> QED
    BY <1>1, <1>4, <1>5, Zenon DEF Proves

\* A token with a key that has been issued does not come to prove anything.
LEMMA TermsProveNothingNew ==
    ASSUME ReadersTyped, TermsMove, NEW t \in Tokens, t.key \in issued
    PROVE  /\ t.key \in issued'
           /\ Proves(t, licences', now') => Proves(t, licences, now)
           /\ \A d \in Document : Proves(t, d, now') => Proves(t, d, now)
<1>0. licences \in Document /\ issued \subseteq Keys /\ now \in Nat
    BY DEF ReadersTyped
<1>1. now' \in {now, now + 1}
    BY DEF TermsMove, ChangeLicences
<1>2. \A d \in Document : Proves(t, d, now') => Proves(t, d, now)
    BY <1>1, TimeProvesNothing
<1>3. CASE UNCHANGED <<licences, issued>>
    BY <1>0, <1>2, <1>3
<1>4. CASE \E c \in LicenceCalls, k \in Keys : ChangeLicences(c, k)
    <2>1. PICK c \in LicenceCalls, k \in Keys : ChangeLicences(c, k)
        BY <1>4
    <2>2. /\ issued \subseteq issued' /\ t.customer \in Customers /\ now' = now
          /\ t.key \in KeysOf(licences', t.customer) =>
                /\ t.key \in KeysOf(licences, t.customer)
                /\ licences'[t.customer].until = licences[t.customer].until
        BY <1>0, <2>1, TokenFields, LicencesChange DEF ChangeLicences
    <2>3. Proves(t, licences', now') => Proves(t, licences, now)
        BY <2>2 DEF Proves
    <2> QED
        BY <1>2, <2>2, <2>3
<1> QED
    BY <1>3, <1>4 DEF TermsMove

-----------------------------------------------------------------------------
(* A reader between two of its reads. *)

LEMMA WaitingIsSafe ==
    ASSUME Catalogue, Readable, RegistryMoves, TermsMove, NEW x \in Readers,
           reader'[x] = reader[x]
    PROVE  Keeps(x)
<1> DEFINE q == reader[x]
           p == q.ask.plugin
           d == plugin[p].doc
           e == plugin'[p].doc
<1>0. /\ q \in Reading /\ ReadersTyped
      /\ Stage(q) /\ Gates(q) /\ Dated(x) /\ Barred(x)
    BY DEF Readable, ReadersTyped, ReaderOK
<1>1. /\ q.ask \in Asking /\ p \in Plugins /\ q.ask.version \in Versions
      /\ q.ask.token \in Tokens \cup {NoToken}
      /\ q.manifest \in Bundles \cup {NoBundle}
    BY <1>0, AskingFields DEF Reading
<1>2. Grows(d, e)
    BY <1>1, MovesGrow
<1>3. Dated(x)'
    BY <1>0, <1>2 DEF Dated, State, Grows
<1>4. Barred(x)'
    <2>1. SUFFICES ASSUME q.barred, q.ask.token # NoToken
                   PROVE  /\ q.ask.token.key \in issued'
                          /\ ~Proves(q.ask.token, licences', now')
                          /\ q.pc = "verify" => ~Proves(q.ask.token, q.held, now')
        BY DEF Barred
    <2>2. /\ q.ask.token \in Tokens /\ q.ask.token.key \in issued
          /\ ~Proves(q.ask.token, licences, now)
          /\ q.pc = "verify" => ~Proves(q.ask.token, q.held, now)
        BY <1>0, <1>1, <2>1 DEF Barred
    <2>3. q.pc = "verify" => q.held \in Document
        BY <1>0 DEF Stage
    <2> QED
        BY <1>0, <2>2, <2>3, TermsProveNothingNew
<1>5. ASSUME Unswept, PointedOK(x)
      PROVE  PointedOK(x)'
    <2>1. ASSUME NEW f \in Paths, f.plugin = p, files[f] # NoBundle, ~e.removed
          PROVE  files'[f] = files[f]
        BY <1>2, <1>5, <2>1, MovesKeepObjects DEF Grows
    <2>2. ASSUME q.manifest # NoBundle, ~e.removed
          PROVE  files'[ManifestPath(p, q.ask.version)] = q.manifest
        <3>1. files[ManifestPath(p, q.ask.version)] = q.manifest
            BY <1>2, <1>5, <2>2 DEF PointedOK, Pointed, ManifestOf, State, Grows
        <3>2. ManifestPath(p, q.ask.version) \in Paths
            BY <1>1, ManifestPathType
        <3>3. ManifestPath(p, q.ask.version).plugin = p
            BY PathFields DEF ManifestPath
        <3> QED
            BY <2>1, <2>2, <3>1, <3>2, <3>3
    <2>6. ASSUME q.pc \in {"manifest", "digest"}, q.listed # NoBundle, ~e.removed
          PROVE  files'[ManifestPath(p, q.ask.version)] = q.listed
        <3>1. files[ManifestPath(p, q.ask.version)] = q.listed
            BY <1>2, <1>5, <2>6 DEF PointedOK, Pointed, ManifestOf, State, Grows
        <3>2. ManifestPath(p, q.ask.version) \in Paths
            BY <1>1, ManifestPathType
        <3>3. ManifestPath(p, q.ask.version).plugin = p
            BY PathFields DEF ManifestPath
        <3> QED
            BY <2>1, <2>6, <3>1, <3>2, <3>3
    <2>3. Pointed(x)'
        BY <1>2, <1>5, <2>2, <2>6 DEF PointedOK, Pointed, ManifestOf, State, Grows
    <2>4. BreaksOnRemoval(x)'
        <3>1. faults' = <<>> => faults = <<>>
            BY FaultsCount DEF Catalogue
        <3> QED
            BY <1>2, <1>5, <3>1 DEF PointedOK, BreaksOnRemoval, State, Grows
    <2>5. DigestMatches(x)'
        <3>1. SUFFICES ASSUME q.answer = "detail", ~e.removed,
                              ~(q.unread /\ q.got \in {NoBundle, q.manifest})
                       PROVE  q.got = files'[ArtPath(x)]
            BY DEF DigestMatches, State, ArtPath
        <3>2. q.got = files[ArtPath(x)] /\ ~d.removed
            BY <1>2, <1>5, <3>1 DEF PointedOK, DigestMatches, State, Grows
        <3>3. q.manifest # NoBundle /\ q.manifest \in Bundles
            BY <1>0, <1>1, <3>1 DEF Stage
        <3>4. files[ArtPath(x)] # NoBundle
            BY <1>1, <1>5, <3>2, <3>3, JarIsThere DEF Unswept, PointedOK, State
        <3>5. ArtPath(x) \in Paths
            BY <1>1, <3>3, PathTypes DEF ArtPath
        <3>6. ArtPath(x).plugin = p
            BY PathFields DEF ArtPath, JarPath
        <3> QED
            BY <2>1, <3>1, <3>2, <3>4, <3>5, <3>6
    <2> QED
        BY <2>3, <2>4, <2>5 DEF PointedOK
<1>6. Stage(q)' /\ Gates(q)'
    BY <1>0
<1> QED
    BY <1>0, <1>3, <1>4, <1>5, <1>6 DEF Keeps, ReaderOK

LEMMA MovingIsSafe ==
    ASSUME Catalogue, Readable, NEW x \in Readers, ReaderMoves(x)
    PROVE  Keeps(x)
<1>1. CASE \E a \in Asks : AskFor(x, a)
    BY <1>1, AskForOK
<1>2. CASE ReadFails(x)
    BY <1>2, ReadFailsOK
<1>3. CASE ReadStep(x)
    BY <1>3, ReadVersionsOK, ReadDetailOK, ReadVersionManifestOK, ReadDigestOK,
       ReadPluginOK, ReadLatestManifestOK, ReadListOK, LoadLicencesOK,
       VerifyTokenOK, SignURLOK, CheckURLOK, ServeOK DEF ReadStep
<1> QED
    BY <1>1, <1>2, <1>3 DEF ReaderMoves

\* Every step of the composition keeps every reader's invariants.
LEMMA StepKeeps ==
    ASSUME Catalogue, Readable, [DownloadsNext]_<<vars, reading>>
    PROVE  /\ RegistryMoves /\ TermsMove
           /\ \A x \in Readers : Keeps(x)
           /\ reader' = [y \in Readers |-> reader'[y]]
<1>0. ReadersTyped /\ reader \in [Readers -> Reading]
    BY DEF Readable, ReadersTyped
<1>1. CASE UNCHANGED reading /\ [Next]_vars
    <2>1. RegistryMoves /\ TermsMove /\ UNCHANGED reader
        BY <1>1 DEF RegistryMoves, TermsMove, reading
    <2> QED
        BY <1>0, <2>1, WaitingIsSafe
<1>2. ASSUME NEW x \in Readers, ReaderMoves(x)
      PROVE  /\ RegistryMoves /\ TermsMove
             /\ \A y \in Readers : Keeps(y)
             /\ reader' = [y \in Readers |-> reader'[y]]
    <2>1. /\ RegistryMoves /\ TermsMove
          /\ \A y \in Readers : y # x => reader'[y] = reader[y]
          /\ reader' = [y \in Readers |-> reader'[y]]
        BY <1>0, <1>2, ReadersOnlyRead DEF TermsMove
    <2> QED
        BY <1>2, <2>1, WaitingIsSafe, MovingIsSafe
<1>3. CASE Tick \/ \E c \in LicenceCalls, k \in Keys : ChangeLicences(c, k)
    <2>1. UNCHANGED <<vars, reader>> /\ TermsMove
        BY <1>3 DEF Tick, ChangeLicences, TermsMove
    <2>2. RegistryMoves /\ UNCHANGED reader
        BY <2>1 DEF RegistryMoves
    <2> QED
        BY <1>0, <2>1, <2>2, WaitingIsSafe
<1> QED
    BY <1>1, <1>2, <1>3 DEF DownloadsNext, ReadersNext, ReaderMoves

LEMMA StepReadable ==
    ASSUME Catalogue, Readable, [DownloadsNext]_<<vars, reading>>
    PROVE  Catalogue' /\ Readable'
<1>1. /\ RegistryMoves /\ TermsMove
      /\ \A x \in Readers : Keeps(x)
      /\ reader' = [y \in Readers |-> reader'[y]]
    BY StepKeeps
<1>2. Catalogue'
    BY <1>1, MovesKeepCatalogue
<1>3. licences' \in Document /\ issued' \subseteq Keys /\ now' \in Nat
    BY <1>1, TermsAreTyped DEF Readable
<1>4. reader' \in [Readers -> Reading]
    BY <1>1 DEF Keeps
<1> QED
    BY <1>1, <1>2, <1>3, <1>4 DEF Readable, ReadersTyped, Keeps

LEMMA StepUnswept ==
    ASSUME ~Sweeping, Catalogue, Readable, Unswept,
           \A x \in Readers : PointedOK(x), [DownloadsNext]_<<vars, reading>>
    PROVE  Unswept' /\ \A x \in Readers : PointedOK(x)'
<1>1. RegistryMoves /\ \A x \in Readers : Keeps(x)
    BY StepKeeps
<1>2. Unswept'
    BY <1>1, MovesKeepUnswept
<1> QED
    BY <1>1, <1>2 DEF Keeps

LEMMA InitReadable ==
    ASSUME DownloadsInit
    PROVE  /\ Catalogue /\ Unswept /\ Readable
           /\ \A x \in Readers : PointedOK(x)
<1>1. Catalogue /\ Unswept
    BY InitCatalogue DEF DownloadsInit
<1>2. ReadersInit
    BY DEF DownloadsInit
<1> DEFINE a == CHOOSE b \in Asks : TRUE
<1>3. a \in Asking
    BY DownloadsAssumption
<1>4. /\ NoReader.pc = "idle" /\ NoReader.ask = a /\ NoReader.shut = {}
      /\ NoReader.gone = FALSE /\ NoReader.barred = FALSE
      /\ NoReader.manifest = NoBundle /\ NoReader.answer = ""
      /\ NoReader.got = NoBundle
    BY DEF NoReader
<1>5. NoReader \in Reading
    <2>1. PICK b \in Asking :
             NoReader = [pc |-> "idle", ask |-> b,
                shut |-> {}, gone |-> FALSE, barred |-> FALSE, unread |-> FALSE,
                manifest |-> NoBundle, blocked |-> FALSE, listed |-> NoBundle,
                held |-> NoDocument, answer |-> "", exp |-> 0, got |-> NoBundle]
        BY <1>3 DEF NoReader
    <2> QED
        BY <2>1 DEF Reading
<1>6. licences \in Document /\ issued \subseteq Keys /\ now \in Nat
    BY <1>2, DownloadsAssumption DEF ReadersInit, Document, Entitlement
<1>7. reader \in [Readers -> Reading] /\ \A x \in Readers : reader[x] = NoReader
    BY <1>2, <1>5 DEF ReadersInit
<1>8. ASSUME NEW x \in Readers
      PROVE  ReaderOK(x) /\ PointedOK(x)
    <2>1. reader[x] = NoReader
        BY <1>7
    <2>2. Stage(reader[x])
        BY <1>4, <2>1 DEF Stage, Early
    <2>3. Gates(reader[x])
        BY <1>4, <2>1, NoBundleIsFree DEF Gates, Admitted, Detailed, Paged
    <2>4. Dated(x) /\ Barred(x)
        BY <1>4, <2>1 DEF Dated, Barred
    <2>5. PointedOK(x)
        BY <1>4, <2>1 DEF PointedOK, Pointed, BreaksOnRemoval, DigestMatches
    <2> QED
        BY <2>2, <2>3, <2>4, <2>5 DEF ReaderOK
<1> QED
    BY <1>1, <1>6, <1>7, <1>8 DEF Readable, ReadersTyped

-----------------------------------------------------------------------------
(* The theorems. *)

LEMMA ReadersStaySafe == DownloadsSpec => [](Catalogue /\ Readable)
<1>1. DownloadsInit => Catalogue /\ Readable
    BY InitReadable
<1>2. Catalogue /\ Readable /\ [DownloadsNext]_<<vars, reading>> =>
         (Catalogue /\ Readable)'
    BY StepReadable
<1> QED
    BY <1>1, <1>2, PTL DEF DownloadsSpec

LEMMA ReadersStayPointed ==
    ASSUME ~Sweeping
    PROVE  DownloadsSpec => [](Unswept /\ \A x \in Readers : PointedOK(x))
<1> DEFINE AllPointed == \A x \in Readers : PointedOK(x)
<1>1. DownloadsInit => Unswept /\ AllPointed
    BY InitReadable
<1>2. Catalogue /\ Readable /\ Unswept /\ AllPointed
         /\ [DownloadsNext]_<<vars, reading>> => (Unswept /\ AllPointed)'
    BY StepUnswept
<1> HIDE DEF AllPointed
<1>3. DownloadsSpec => [](Unswept /\ AllPointed)
    BY <1>1, <1>2, ReadersStaySafe, PTL DEF DownloadsSpec
<1> QED
    BY <1>3 DEF AllPointed

\* A version that was blocked, or whose plugin was removed, before a request
\* came in is not handed out, is not the one the plugin's page shows, and its
\* own page says that it is blocked, whatever is published, blocked, removed or
\* swept between the store reads of the handler.
THEOREM ShutStaysShut == DownloadsSpec => []ShutVersionsStayShut
<1>1. Readable => ShutVersionsStayShut
    BY DEF Readable, ReaderOK, Gates, Admitted, Detailed, Paged,
           ShutVersionsStayShut
<1> QED
    BY ReadersStaySafe, <1>1, PTL

\* The bytes of a premium jar come only to a client whose token proved its
\* entitlement when the request came in (VerifyToken, the signed URL and the
\* proxy's check of it), whatever licences are rotated or revoked meanwhile.
THEOREM PremiumNeedsLicence == DownloadsSpec => []PremiumIsServedOnLicence
<1>1. Readable => PremiumIsServedOnLicence
    BY DEF Readable, ReaderOK, Gates, PremiumIsServedOnLicence
<1> QED
    BY ReadersStaySafe, <1>1, PTL

\* Where no cleanup runs, a client that was sent to a jar finds one there until
\* the plugin is removed: publish writes the manifest after the jar.
THEOREM JarsAreFound ==
    ASSUME ~Sweeping
    PROVE  DownloadsSpec => []HandedOutExists
<1>1. Catalogue /\ Readable /\ (Unswept /\ \A x \in Readers : PointedOK(x))
         => HandedOutExists
    <2>1. SUFFICES ASSUME Catalogue, Readable, Unswept, NEW x \in Readers, PointedOK(x),
                          reader[x].answer \in {"redirect", "signed"},
                          ~State(x).doc.removed
                   PROVE  files[ArtPath(x)] # NoBundle
        BY DEF HandedOutExists
    <2>2. reader[x] \in Reading /\ Stage(reader[x])
        BY <2>1 DEF Readable, ReadersTyped, ReaderOK
    <2>3. reader[x].ask \in Asking
        BY <2>2 DEF Reading
    <2>4. reader[x].manifest # NoBundle
        BY <2>1, <2>2 DEF Stage
    <2> QED
        BY <2>1, <2>3, <2>4, JarIsThere DEF Unswept, PointedOK
<1> QED
    BY ReadersStaySafe, ReadersStayPointed, <1>1, PTL

\* Where no cleanup runs, the digest a version's page shows is the one of the jar
\* a download gets, also when two uploads of the version have met, until the
\* plugin is removed; only where GetVersion could not read that jar it may be
\* none, or the one of the upload whose manifest it has read.
THEOREM DigestIsOfTheJar ==
    ASSUME ~Sweeping
    PROVE  DownloadsSpec => []DigestIsTheJars
<1>1. (Unswept /\ \A x \in Readers : PointedOK(x)) => DigestIsTheJars
    BY DEF PointedOK, DigestMatches, DigestIsTheJars
<1> QED
    BY ReadersStayPointed, <1>1, PTL

\* Where no cleanup runs, a read only breaks down, with a dereferenced nil or,
\* when no store call has failed, an internal error, if the plugin is removed
\* between two of its store reads.
THEOREM OnlyRemovalBreaksReads ==
    ASSUME ~Sweeping
    PROVE  DownloadsSpec => []FailedReadsMetARemoval
<1>1. (Unswept /\ \A x \in Readers : PointedOK(x)) => FailedReadsMetARemoval
    BY DEF PointedOK, BreaksOnRemoval, FailedReadsMetARemoval
<1> QED
    BY ReadersStayPointed, <1>1, PTL

=============================================================================
