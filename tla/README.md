# Verification of service-marketplace

TLA+ models of the ReportPortal plugin marketplace registry (`src/`), checked
with TLC on small instances, and theorems about them checked with TLAPS for
every instance.

| module | what it is |
|---|---|
| `Registry` | the core: publish, lifecycle, index rebuild and orphan cleanup over one object store |
| `Versions` | the version order and `latestVersion`, on the characters of version strings |
| `Licences` | the entitlement document, its operations and what a licence token proves |
| `AtomicDocument` | abstract: what `WriteWithRetry` promises about a document |
| `Updates` | `Registry` with a record of the calls of `WriteWithRetry`; implements `AtomicDocument` |
| `LocalStore` | the local object store, one file operation at a time; implements `AtomicDocument` |
| `Downloads` | the read routes and the artifact download, composed with `Registry` and `Licences` |
| `Operators` | sign-in, sessions, the denylist and the guards of the operator routes, on several replicas |
| `CDNSelfCheck` | the background check of `CDN_BASE_URL` |
| `MCRegistry`, `MCUpdates`, `MCVersions`, `MCLocalStore`, `MCDownloads`, `MCOperators` | the small instances that the `.cfg` files choose from (`CDNSelfCheck.cfg` needs none) |
| `RegistryProofs` | type correctness, the safety invariants and action properties of `Registry`, proved |
| `UpdatesProofs` | the refinement of `AtomicDocument` by `Registry`, proved |
| `RegistrySerialProofs` | that removals are final, and the catalogue exact for requests one at a time, proved |
| `OperatorsProofs` | every property of `Operators`, proved |
| `LocalStoreProofs` | the safety properties of `LocalStore` and its refinement of `AtomicDocument`, proved |
| `DownloadsProofs` | the safety properties of `Downloads`, proved over those of `Registry` |
| `VersionsProofs` | the properties of the version order and `latestVersion`, proved |
| `CDNSelfCheckProofs` | the safety properties of `CDNSelfCheck`, proved |

How they fit together: `Downloads` EXTENDS `Registry` and `Licences`; `LocalStore`
EXTENDS `Licences`, and `Updates` EXTENDS `Registry`; both instantiate `AtomicDocument`
with a refinement mapping, one for the licence document, one for the plugin states. In
`Registry` and `Downloads` a write of one object is one step; `LocalStore` is where
that assumption is examined for the local store.

## The system

The registry is a stateless Go service in front of an object store (a local
directory or a bucket). Several replicas may run over the same store. There is no
database and no lock: the state is a set of JSON objects, and each object has a
generation that a write can require to be unchanged (0 requires that there is
none).

| component | state it keeps | operations | how it meets the others |
|---|---|---|---|
| publish (`internal/publish`) | none | `PublishFirst`, `PublishVersion`, `RebuildIndex` | writes jar, manifest, notes, `plugin.json`, `index.json` |
| lifecycle (`internal/lifecycle`) | none | `SetTier`, `BlockVersion`, `RemovePlugin`, `AttachAdvisory`, `cleanupOrphans` | writes `plugin.json`, deletes version objects, calls `RebuildIndex` |
| object store (`internal/storage`) | objects and generations; the local store has them in files, `.gen` files and a map | `Read`, `Write`, `Delete`, `Exists`, `ListPrefix`, `SignedURL`; `WriteWithRetry` over them | shared by everything |
| catalogue and downloads (`internal/catalogue`, `handlers_plugins.go`) | none | listing, plugin, version, artifact | reads `index.json`, `plugin.json`, manifests; asks licences |
| licences (`internal/license`) | `auth/authorized_keys.json` | create, revoke, rotate, verify | one document through `WriteWithRetry` |
| sessions (`internal/auth`) | denylist objects, a hot cache, OAuth states and login failures per replica | issue, verify, revoke, lockout | gates the operator routes |
| CDN self-check (`cdn_selfcheck.go`) | status and a count of wrong answers | probe in the background | reported by `/ready` |
| version order (`internal/domain/version.go`) | none | `CompareVersions`, `LatestInstallableVersion` | decides `latestVersion` |
| analytics, CDN invalidation, configuration, router, UI | none, or what they read at start | | best effort, or sequential |

What is hard: everything an operator request does is a sequence of store calls, so
requests and the cleanup interleave between any two of them; a replica may stop
between two calls; a call may fail before or after its effect; `plugin.json` is
read, changed and written back; `index.json` is derived from many objects that may
change while it is computed; the cleanup deletes objects on the strength of a
document it has read before.

What makes each component correct:

- publish and lifecycle: nothing written is lost or undone by another request; what
  was answered with success stays true; a listed version is complete and never
  changes; `latestVersion` follows the lists; the catalogue follows the plugin
  states; an interrupted request can be repeated and leaves nothing behind.
- object store: a write with a precondition is atomic, also over a crash.
- catalogue and downloads: a blocked or removed version is not handed out to a
  request that starts after the block or the removal was answered.
- licences: no lost update; a revoked customer's token stops verifying.
- sessions: a session that was logged out is refused from the next request on, and
  only a logout ends one early; an OAuth state is accepted at most once; the lockout
  spaces the guesses and opens again.
- CDN self-check: only wrong answers report a misconfiguration, and a right answer
  clears it.
- version order: a total preorder that agrees with semantic versioning.

`PROJECT.json` lists every component with its status, and under `hazards` every
behaviour that is hard to test, at its line.

## Module Registry

State and code:

| variable | in the code |
|---|---|
| `plugin[p]` | `plugins/<p>/plugin.json`: generation and document (versions with the bundle their entry was copied from, blocks, advisories, latest version, tombstone) |
| `files[f]` | the objects of a version: public jar, premium jar (under `private/`), `manifest.json`, and changelog and screenshots as one object |
| `index` | `index.json`: generation and the version in each plugin's row |
| `pc`, `call`, `mem`, `reply` | one HTTP request per slot: the next store call of its handler, its arguments, the local variables that survive a store call, its answer |
| `sweep` | the running `cleanupOrphans`: the rest of its listing and the object it has decided to delete |
| `faults` | the kinds of the faults that have happened, in order |

One action is one store call together with the code up to the next one. `Check`,
`Probe`, `PutJar`, `PutManifest`, `PutNotes` are `PublishFirst`, `PublishVersion`
and the first half of `publish`. `Load` and `Update` are `WriteWithRetry` around
each mutator (`Refusal` has its early returns, `Mutate` what it writes), with the
retry after a conflict. `ListToPurge` and `DeleteNext` are the rest of
`RemovePlugin`. `ListPlugins`, `ReadState`, `ReadManifest`, `ReadIndex` and
`WriteIndex` are `rebuildIndex`. `SweepList`, `SweepLoad`, `SweepDelete` and
`SweepEnd` are `cleanupOrphans`. Faults:

- `Lost`: the request stops (its replica crashed, its context ended).
- `Refused`, `Dropped`: a call fails without effect, where the handler returns the
  error (or only its caller drops it, `RebuildFailed`), and where it drops it.
- `Late`: a write takes effect and returns an error (the `.gen` file of the local
  store, the attributes call of the bucket).
- `SweepLost`: the cleanup stops, or one of its loads or deletes fails and is not
  repeated (fault kind `missed`).

Abstractions:

- A jar and all that is read out of it is one element of `Bundles`; the manifest,
  the compatibility range and the SHA-256 of a jar are that element. So "this
  manifest belongs to this jar" is equality, and a mixed-up version is visible.
- Versions are ranks; `CompareVersions` is the order of the naturals.
- Changelog and screenshots are one object: they are written one after the other
  with the same precondition and the same error, and nothing else reads them.
- Writes of one object are atomic, and so are deletes. That is what the store
  interface promises; how far the local store keeps it is shown by `LocalStore`.
- The order in which a listing is walked is left open. Both stores return it
  sorted; all orders include that one, and no property here depends on it.
- `plugin[p].doc.advised` is the set of versions with an advisory; its text is not
  kept. The tier and the wording of reasons are left out: `tier` writes the document
  back unchanged, with a new generation.
- Validation, authentication and the parsing of the upload come before the first
  store call and decide only whether a request starts.

### Properties

Type invariant `TypeOK`; in it `tries` stays below `MaxAttempts`.

- `HistoryGrows`: no step unlists a version, lifts a block or an advisory or undoes
  a tombstone, although every request writes back a whole document.
- `AnsweredIsDurable`: what a successful request did is in `plugin.json` for good.
- `LatestFollowsLists`: `latestVersion` is the highest listed version that is not
  blocked.
- `ListedIsComplete`, `PublishedIsImmutable`: a listed version of a plugin that is
  not removed has its manifest and a jar where the manifest points, and neither
  changes. These hold while no cleanup runs.
- `IndexNamesListed`: the catalogue, however stale, names listed versions only.
- `IndexWritesAreExact`, `CatalogueIsCurrent`: with requests one at a time, the
  catalogue is what the plugin states give. They do not hold for overlapping
  requests (below).
- `Answered`: every request is answered. `OrphansAreSwept`: what an interrupted
  publish leaves of a version under `plugins/` is deleted, or the version becomes
  listed, or its plugin is removed. Premium jars are exempt: the cleanup does not list
  `private/plugins/`.
- `RemovalIsFinal`: a removal that was answered with success has left nothing of a
  version under `plugins/`, and nothing comes back, if no publish was uploading that
  version while the plugin was being removed. The hypothesis is about whole behaviours
  (`UploadMeetsRemoval` never holds) and leaves all other overlaps in: publishes of
  other versions and later stages of this one, second removals, the cleanup, crashes.
  Without it the property is false: a publish that checked `plugin.json` before the
  tombstone writes its files after the removal's listing. Nor does it hold if an error
  of the listing or of a delete was dropped (`ErrorsAreSeen`). It is about what the code
  sets out to delete; that the documents promise more is finding 3
  (`RemovalDeletesArtifacts`).

### Fairness

`FairSpec` assumes weak fairness of each handler's steps and of the cleanup. A
handler is a goroutine that runs its calls one after the other, with every call
returning; the cleanup is restarted by its ticker (`StartOrphanCleanup`) for as
long as the process lives. Clients and faults are not fair: nothing has to be
sent, and nothing has to fail. A failed cleanup is not repeated before the next
tick, which `SweepLost` and a fresh `SweepList` give.

### Module Updates

`Updates` runs `Registry` beside a record of its calls of `WriteWithRetry` on a
`plugin.json`: `asked` (who called it, for what), `verdict` (what `fn` last said of the
document it was given, or that the write took place) and `answered` (what the call
returned). `Record` reads each step of `Registry` and never restricts one.

- `PluginStatesAreAtomic`: with this record `Registry` implements `AtomicDocument`, whose
  document is the function from plugins to their states. A load is its `Judge`, a write
  that takes effect its `PerformAndAnswer`, an early return its `Answer`. It says more
  than `HistoryGrows` and `AnsweredIsDurable`: each new state is exactly the one call's
  update of the state it replaces, and a refused or beaten request wrote nothing.
- `SuccessIsPerformed`: whoever is answered with success has had `WriteWithRetry` return
  without an error after a write that took effect, although some handlers go on after
  an error of a later step. This one is proved, and no run checks it.

## Module Versions

`listing`, `blocked` and `latest` are the three lists of one `plugin.json`;
`Publish` and `BlockVersion` are the mutators that change them, each with the
recomputation of `latest` (`LatestInstallableVersion`, one pass over the list in
upload order). Here a version is its characters, because the order is about them:
digit strings of any width, pre-release fields, build metadata. `Publish` of a
version that is listed keeps the list, as the code does.

The reference (`Precedes`) is the precedence of Semantic Versioning 2.0.0, written as a
relation and with numbers as numbers; the code's order never converts a number.
`OrderIsSemVer` compares the two on every pair of listed versions, `OrderIsTotal`
looks for cycles among three, and `LatestIsHighest` for a blocked or a lower version
in `latest` after every order of uploads and blocks. The versions may be any that
`ValidateVersion` lets through, which is `CandidatesAssumption`.

## Licences and the local store

`Licences` has no state of its own: it defines the document of
`auth/authorized_keys.json`, why an operation refuses it (`LicenceRefusal`), what it
writes (`WithLicence`) and what `VerifyToken` concludes (`TokenRefusal`).
Revoke and rotate on a store without the document fail to unmarshal it and are
answered as internal errors; the model keeps that. A key pair is named by the request
that generates it, so a lost or doubled update is visible.

`AtomicDocument` is the abstract promise: updates take effect whole, one at a time,
on the document as it is at that moment; "ok" means once, a refusal was right at some
moment during the request, a conflict means not at all, an error or a crash at most once.

`LocalStore` has one action per file operation:

| variable | in the code |
|---|---|
| `file`, `genFile` | the object's file and its `.gen` file, which can be absent or cut short (`Torn`) |
| `gens` | `LocalStore.generations` |
| `lock` | `LocalStore.mu` |
| `host` | the process: up, down, or unable to start |
| `pc`, `call`, `mem`, `reply` | the requests |
| `effect`, `owner`, `loose` | history: whose write took effect, whose content an artifact is due to, which artifacts a delete left half done or overlapped with a write |

`Read`, `Write`, `Rename`, `Truncate` and `WriteGen` are `Read` and `Write` of
`storage/local.go` inside the loop of `WriteWithRetry`; `DeleteFile`, `DeleteGen` and
`DeleteEntry` are `Delete`, whose first two steps run without the mutex. `Failed` and
`GenStays` are file operations that return an error, where it is answered and where
it is dropped; `Crash` and `Restart` (`NewLocalStore`) wipe and reload the map. What a
crash leaves of a file that was being written is either the old or the new content, for
the renamed file, and possibly nothing, for `.gen`.

- `UpdatesAreAtomic`: `LocalStore` implements `AtomicDocument` on the licence
  document. The mapping lets an update take effect with its rename; the verdict is
  what the request makes of the document it holds between read and write.
- `RevokedKeysStayRevoked`: no stale copy brings a revoked key back.
- `PutIsKept`: an artifact whose write was answered keeps its content until a delete.
- `AbsentIsWritable`: an absent file whose generation would refuse every write is
  left only by a delete that was interrupted, overlapped a write or another delete,
  or could not remove `.gen`. That it can then be left is a consequence of `Delete`
  working outside the lock; the code says nothing to the contrary.
- `BrokenByInterruptedWrite`: only a write cut short keeps the process from starting again.
- `CallsReturn`: every request is answered; nobody keeps the mutex.

Fairness: `FairSpec` assumes strong fairness of each request's steps. A file operation
returns, and Go's mutex hands itself to a goroutine that has waited for a millisecond,
so a request that finds the mutex free again and again gets it.

The licence document and the artifacts share only the mutex, and two mixes of requests
(`Traffic`) keep the state space small; the mutex is exercised in both.

## Module Downloads

`reader` is a request with the local variables of its handler; `licences`, `issued`
and `now` are the entitlement document, the keys that exist and the clock.
`ReadVersions`, `ReadDetail`, `ReadVersionManifest`, `ReadDigest`, `ReadPlugin`,
`ReadLatestManifest` and `ReadList` are the store reads of the six read routes;
`LoadLicences`, `VerifyToken` and `SignURL` continue the download of a premium
artifact; `CheckURL` and `Serve` are the proxy under `/cdn/`, also for a client that
tries a bare path. All actions of `Registry` go on in between.

- `ShutVersionsStayShut`: what was blocked or removed before a request came in is not
  handed out by it.
- `PremiumIsServedOnLicence`: premium bytes only for a token that proved its
  entitlement when the request came in.
- `HandedOutExists`: a client that is sent to a jar finds one, until a removal.
- `DigestIsTheJars`: the digest on the version's page is that jar's, until a removal,
  also when two uploads of the version have met. `GetVersion` computes it from the jar,
  but takes the digest listed in `plugin.json` when it cannot read the jar, for whatever
  reason, and answers 200 (`FallBackToListed`). Then, and only then (`unread`), it may
  be another: none, for a version that was not listed yet, or that of the upload the
  manifest is from. The run reaches this case. It falls short of
  `docs/openapi/service-marketplace-v1.yaml:369`, "the SHA-256 checksum of the `.jar`
  artifact".
- `FailedReadsMetARemoval`: a handler breaks down only if the plugin is removed between
  two of its reads. This really happens: the artifact handler reads `plugin.json`
  twice, the second read returns neither detail nor error for a removed plugin, and
  the handler dereferences nil (`"panic"` in the model; the router's Recoverer answers
  500).

The licence document changes in whole updates here, which `LocalStore` justifies.
The digest is modelled as the jar it is computed from. The filters and the order
of the list, pagination and wording are left out, and so are the addresses of changelog
and screenshots, which are absent from the page when the store fails to answer for them. The orphan cleanup is off in this
run; `swept_release` shows what it does to what these routes read.

## Module Operators

| variable | in the code |
|---|---|
| `denylist` | the objects under `auth/session-denylist/` |
| `cache`, `pending`, `failures`, `lastFail` | each replica's memory: `Denylist.local`, `OAuthStateStore`, `AdminAuthenticator` for one client and user |
| `expiry` | the session tokens: the expiry `Issue` signed into each |
| `minted` | the OAuth states that exist |
| `slot`, `answer` | the requests in progress, and the answer of the last step |
| `guesses`, `passes`, `ended`, `dropped` | history for the properties |

`Guard` and `ReadDenylist` are `requireSession` and its variants with `Verify` and
`Revoked`; `RevokeHere` and `RevokeInStore` are the two halves of `Revoke`; `Login` is
`Authenticate` with its lockout; `GitHubLogin`, `Consume`, `AskGitHub` and `Issue` are
the OAuth sign-in. `StoreFails` is a denylist read (the session counts as revoked, and
nothing is cached) or a denylist write (dropped) that fails; `Restart` empties one
replica's memory and ends its requests; `Tick` is the clock. What GitHub answers is
left open. Tokens and signatures cannot be guessed. The clock is one for all replicas.

`StatesPassOnce`, `GuessesAreSpaced`, `LockoutIsNotExtended`, `LogoutIsFinal`,
`LiveSessionsPass` and `PassesAreEarned` are stated at the end of the module. Two things the
model shows that no property forbids: a callback that reaches another replica
than the sign-in started on is refused, because the state is in the memory of one
replica, while the lockout counts per replica. `docs/openapi/service-marketplace-v1.yaml:676`
describes the state as a signed cookie.

## Module CDNSelfCheck

`phase`, `backoff`, `elapsed`, `status`, `reason`, `transient` and `wrong` are the
goroutine's variables and result; `backends` is what `CDN_BASE_URL` reaches at
present, which changes at any time (`Reroute`), and each probe is answered by one of
them. `StartupProbe` is one round of the start phase, `SteadyProbe` one tick after it.
`recent` is history: the last conclusive verdicts.

`StatusFollowsAnswers` says what the status means in terms of the answers;
`UpdatesAreNotMisconfigurations` that a rolling update is never reported;
`StartupEnds` and `StatusConverges` that the check settles and follows a host that
stays as it is. `FairSpec` assumes weak fairness of the probes: they are driven by a
timer in a goroutine that lives as long as the process.

## Runs and bounds

| run | instance | shows |
|---|---|---|
| `registry_concurrent` | 1 plugin with version 1 published, version 2 to come; 3 request slots out of 6 calls; 2 attempts per write; 1 fault of any kind; no cleanup | all the safety properties and the refinement of `AtomicDocument`, under every interleaving of three requests |
| `registry_serial` | 2 plugins, 3 requests one at a time, cleanup between them, 2 crashes, late errors or missed deletions | the catalogue after each request |
| `registry_live` | 2 plugins, one with a premium version, one that does not exist yet; 2 requests out of a publish of each and a removal, and the cleanup, two of the three at a time; 1 store call that fails, with its error returned or dropped | liveness, and that removals are final beside publishes and the cleanup |
| `removal_leftovers` | a publish and a removal, one after the other, no fault | counterexample, see Findings |
| `stale_catalogue`, `retry_refused`, `swept_release` | 2 requests | counterexamples, see Findings |
| `versions` | lists of 3 out of 21 versions, a pair for every rule of the order | the order on every pair and triple, `latestVersion` after every order of uploads and blocks |
| `cdn_self_check` | deadline 20, backoff 1 to 4, probes of up to 2; six kinds of backend in any combination | what the status means, and that it settles |
| `local_store` | 3 requests, on the licence document (4 operations, 2 customers) or on one artifact (2 puts, a delete); 2 attempts; 1 crash; 1 failed file operation | the refinement of `AtomicDocument`, and what the store promises of artifacts |
| `downloads` | 1 reader out of 14 requests; 2 operator requests, one at a time, out of two uploads, two blocks and a removal; 1 customer, 2 keys; clock 0 to 1; 2 failed reads or stopped requests | the read routes beside every interleaving of the operator's store calls |
| `operators` | 2 replicas, 2 requests at a time, 2 sessions, 1 state; lockout after 2 failures for 2 ticks; clock 0 to 2; 1 failed store call, 1 restart; three mixes of traffic | guards, logout, OAuth and lockout |

The bounds are named constants. In `Registry` they are `Requests` (each slot serves
one request), `MaxInFlight`, `MaxAttempts`, `MaxFaults`. Three requests are what it
takes for one to be overtaken at `plugin.json` and at `index.json` by different ones,
and with two attempts a request can run out of them. One plugin suffices for the
concurrent run because requests for different plugins share nothing but
`index.json`, whose writes only `registry_serial` and `stale_catalogue` are about. The
code allows five attempts; the proofs hold for every number. Slots are
interchangeable, so the safety runs use symmetry; `registry_live` does not.

In `LocalStore` three requests let one lose to two others and run out of its two
attempts. In `Downloads` a reader only reads, so more readers show nothing that one
does not; two operator requests are a block or a removal before or during a read and an
upload beside it. Two time steps pass the end of a licence and of a signed URL. In
`Operators` two requests suffice for every race the code has (two callbacks with one
state, a logout and a use, two guesses), and two replicas for "this one and another";
the three mixes do not touch each other's state, except that sessions are issued in all
of them. A lockout after two failures of two ticks has the same boundary cases as five
failures and fifteen minutes, and the proofs hold for every threshold, length and
number of replicas, requests and sessions.

`CHECK_DEADLOCK FALSE` is set where the bounded system really comes to rest: every
request has run, or the clock has reached its bound.

`MaxInFlight` is 1 in `registry_serial` on purpose: it states the claim for one
operator working alone, which is how the catalogue is meant to be driven, and the
overlapping case is the finding.

## Findings

Four places where the code does not do what its comments or documents say. Each
has a run that expects the violation, and a row in `PROJECT.json` with the quoted
line.

1. `stale_catalogue`: rows are computed once, before `index.json` is read, and are
   rewritten unchanged after a conflict. The slower of two overlapping rebuilds can
   win with the older rows, and both requests are answered with success.
2. `retry_refused`: an interrupted publish cannot be repeated; its manifest must be
   absent and is there. The documented idempotent retry works only for an
   interruption before the manifest. Only the orphan cleanup opens the way again.
3. `removal_leftovers`: a removal lists and deletes what is under `plugins/<id>/`,
   while premium jars are under `private/plugins/<id>/` and stay, with no fault and
   nothing beside it. The OpenAPI description promises that all version artifacts are
   deleted.
4. `swept_release`: the cleanup has no grace period. It treats the objects of a
   publish in progress as orphans, and may delete one after its version is listed.

Other behaviour that falls short of a document and has no run of its own:

- A removal is weaker than `docs/openapi/service-marketplace-v1.yaml:228-229` and
  `:242-243` ("its artifacts are deleted, the catalogue index is regenerated") in more
  ways than finding 3. The errors of its listing, of each delete and of the rebuild are
  dropped (`internal/lifecycle/service.go:150`, `:155`, `:158`), so it answers 200 with
  files left or the plugin still in the catalogue. A publish that passed its check
  before the tombstone writes files after the listing. A removal that stops after its
  tombstone cannot be repeated (409), and the cleanup never takes the listed objects of
  a removed plugin for orphans, so they stay. In the model these are `Dropped`,
  `RebuildFailed`, `UploadMeetsRemoval` and `Lost`. `CatalogueIsCurrent` is only run
  without the failures that `RebuildFailed` hides.
- A jar that is already at its path is kept whoever wrote it, a manifest is not
  (`PutJar`, `PutManifest`; `internal/publish/service.go:235`, `:239`): the published
  version can have the jar of one upload and the manifest and listed digest of another,
  although `docs/marketplace-manifest-rfc.md:10` says the manifest is extracted from the
  jar "on publish" and treated "as the single source of truth". `ListedIsComplete` and
  `DigestIsTheJars` are checked with such versions among the states.
- The digest of a version's page when its jar cannot be read (above).
- A logout whose denylist write fails is answered as a success and binds only the
  replica that served it (`dropped` in `Operators`), while
  `docs/openapi/service-marketplace-v1.yaml:803-806` says that the session "is recorded
  as revoked" wherever its token is presented.

And what no document denies: the hot cache of revoked sessions and the OAuth states
nobody comes back with are never swept, and a concurrent removal makes the artifact
handler panic (above).

## Proofs

`RegistryProofs` proves `TypeOK` (`TypeCorrect`), for every set of plugins,
versions, jars, requests and calls, every bound, and with all faults; and from it
the safety properties. None of them is inductive alone.
The argument has four layers:

1. `Snapshot`: a document in hand is never newer than the stored one, and is the
   stored one when the generations agree. A commit requires equal generations, so
   it applies `Mutate` to the *current* document (`CommitEffect`).
2. `Mutate` only adds (`MutateGrows`), and `plugin.json` is written by commits
   alone (`OnlyCommitsWrite`); so every document only grows (`StepGrows`), which is
   `HistoryIsKept`, and the commit recomputes `latest` (`LatestIsRecomputed`).
3. `Kept`: a request gets past `plugin.json` only by a commit (`SuccessIsEarned`),
   whose effect growth preserves: `SuccessIsDurable`. `RowsListed`: rows in hand
   name listed versions, and stay so by growth: `CatalogueNamesListed`.
4. Without a cleanup only a removal deletes, and only objects of its own plugin,
   whose tombstone is already there (`Deletions`, `ObjectsOfPluginStay`); so what a
   publish has written is still there when it commits (`Written`):
   `ListedVersionsAreComplete` and `ListedVersionsAreImmutable`.

Assumptions: the named `ASSUME`s of `Registry` (a set of versions has a highest
element; the shelf, versions published before the model starts, is
consistent; bounds are numbers). The last two theorems assume `~Sweeping`: with
the cleanup they are false, as `swept_release` shows. The strengthened invariants
were model-checked on the instance of `registry_concurrent`, and `Snapshot`,
`Kept` and `RowsListed` on one with the cleanup and all faults, before they were proved.

`UpdatesProofs` proves that `Registry` implements `AtomicDocument`, with all faults and
with the cleanup. `StepsAround` sorts the steps of a request by how they pass
`WriteWithRetry`. `Tracked` relates the record to where a request is: before the call
nothing is recorded, in it the request is asked and not yet performed, with the document
in hand as the one that was judged, and after it the update is performed. With `Snapshot`
a write is then the abstract update of the stored document (`PerformRefines`), and each
other step is an `Ask`, a `Judge`, an `Answer` or none (`ActRefines`, `NextRefines`):
`UpdatesAreAtomic`. `Tracked` and `SuccessIsEarned` give `SuccessFollowsUpdate`. The record
is free: every step of the recorded system is a step of `Registry` (`RecordingIsFree`), so
its invariants carry over.

`RemovalsAreFinal` in `RegistrySerialProofs` is `RemovalIsFinal` for every instance and
with all faults, since the property itself says which behaviours it is about. The
inductive invariant is `Removals(p, v)`: a publish that still has objects of version v
to write works for a plugin that is not removed (`Opening`), because a tombstone is
written by a removal (`OnlyRemovalsRemove`), which would be in progress beside it; so
nothing of v comes back to a removed plugin (`NothingComesBack`), and a removal that is
deleting has all that is left of v on its list (`Emptying`), although others may delete
from the same store. Beside it stands `Rooted`, which needs no hypothesis: a
`plugin.json` that was never written is not removed, only publishes upload, and a
removal deletes objects of its own plugin.

The other theorems have the hypothesis `OneAtATime`: at most one request or cleanup is
in progress, and no store call fails without effect, since an index leaves out the row
it could not read and some callers drop the error of a rebuild. Requests may still stop
anywhere, writes may fail after their effect, and the cleanup runs. Their invariant has
four parts beside `Rooted`, `Openings` (every plugin's and version's `Opening`, since no
upload meets a removal) and those of `RegistryProofs`:

1. `Apart`: nothing is in progress beside a request, nor beside the cleanup. All else
   depends on it.
2. `Sheet`: every listed version of a plugin that is not removed has its manifest
   (`Complete`), and what the cleanup is about to delete is not listed
   (`DoomedAreOrphans`). Hence the row of a plugin is a function of its `plugin.json`
   (`RowIsOwed`), although `buildIndex` reads the manifest too.
3. `InHand`, by where a request is: a publish that is about to list its version has the
   manifest in place, and its plugin is not removed (`Publishing`); the rows computed so
   far are those owed (`Rowing`), which gives `IndexIsWrittenExactly`.
4. `CaughtUp`: unless a request is between its commit and the write of the index, or
   one was cut short there, the catalogue has the rows owed: `CatalogueFollows`.

`OperatorsProofs` proves every property of `Operators`, with all its faults and restarts:

1. `Typed` strengthens `TypeOK` by what a request in progress holds (`HeldBy`):
   credentials that were issued, and past the guard a session together with the XSRF
   header where it is asked for. `TypeCorrect` and `PassesEarned` follow; the
   guard checks the header after the denylist was read, so the fact has to be carried
   to the steps of the logout.
2. `LogoutsKept`: a session that was late when its request came in is still in the
   denylist, or in its replica's cache, at the moment the guard reads either; with it
   `LogoutsAreFinal`. It is needed because the request passes two separate reads while
   caches grow, and a restart, which empties the cache, also ends the requests.
3. `OnlyLogouts`: whatever is cached or on the denylist got there by a logout; with
   it `LiveSessionsPassed`, as long as no store call has failed.
4. `Once`: a state that is pending anywhere has let nobody pass; that it is pending
   on one replica only is part of `Typed`. `StatesAreConsumed`.
5. `GuessesOK`: the count of failures belongs to that many of the latest guesses, and
   the guess before those is a whole lockout older. `LockoutSpacesGuesses` for every
   threshold, and `LockoutEnds`. The count alone says nothing about the time between
   guesses, and the history alone not when a lockout begins.

Assumption: `OperatorsAssumption` (thresholds and times are positive, sessions and CI
tokens are told apart, the traffic is made of calls).

`LocalStoreProofs` proves the safety properties of `LocalStore` and the refinement,
with crashes, failing file operations and restarts:

1. `Base` is the inductive invariant under all of them: types (`Typed`), the mutex held
   by exactly the requests between the comparison of the generation and the `.gen` file
   (`Mutex`), what a request holds and has done by where it is (`ThreadOK`), and
   `Current`: a document in hand is no newer than the stored one, is the stored one if
   the generations agree, and is the stored one for whoever has passed the comparison
   (`Fresh`). `LocalStoreTypes`.
2. The refinement `LocalStoreIsAtomic`: the rename of a write is the `Perform` of
   `AtomicDocument`, because `Fresh` makes its document the result of the operation on
   the stored one; every other step is an answer, a refusal or a stutter.
   `RevocationIsFinal` needs the same facts.
3. `AnsweredPutIsKept` needs `Owned`: while a put is due nobody else replaces the file,
   and its generation is in the map or, with the process down, in its `.gen` file, so
   that every later put is refused. `AbsentArtifactIsWritable` needs `Vacant`: with no
   file there is also no `.gen` file from which a restart would load a generation,
   unless a delete was cut short. `BrokenOnlyByInterruptedWrite` needs `TornOK`: a torn
   `.gen` file is one in whose writing a request is, or was when it was cut short.

Assumption: `StoreAssumption` (the document's operations, the artifacts' works and the
bounds are as declared, and there is a licence operation).

`DownloadsProofs` proves the five properties of `Downloads`, on top of the invariants of
`Registry` (`Catalogue`, whose preservation is taken from `RegistryProofs`):

1. What a reader has seen of a `plugin.json` stays true, because documents only grow
   (`StepGrows`): what was shut when the request came in is shut at each of its later
   reads (`Dated`). With the gates a reader has passed by where it is (`Stage`,
   `Gates`) this is `ShutStaysShut`.
2. A token that proves nothing never comes to prove something: keys are issued once and
   the clock does not go back (`Barred`, also of the document a request has in hand).
   `PremiumNeedsLicence`; it needs `Filed` as well, that no premium jar lies under
   `plugins/`, where it could be fetched without a signature.
3. Without the cleanup a manifest appears after its jar (`JarsFirst`) and neither
   changes nor goes before the tombstone is written (`Deletions`, `PublishesInOrder`),
   so what a reader was pointed to is there, and the entry it has seen listed is that
   of the manifest (`Pointed`): `JarsAreFound`, `DigestIsOfTheJar`,
   `OnlyRemovalBreaksReads`. These three assume `~Sweeping`;
   `swept_release` shows what the cleanup does to complete versions. The first two
   theorems hold with the cleanup.

`CDNSelfCheckProofs` proves `TypeOK`, `StatusFollowsAnswers` and
`UpdatesAreNotMisconfigurations` of `CDNSelfCheck`:

1. `Counted`: `wrong` is the length of the run of wrong verdicts at the end of
   `recent`, and a right one is before it if the history is longer. The history is cut
   at the threshold, so `Remembered` says what an appended and cut sequence is.
2. `Reported`: the status is "misconfigured" when the count is at the threshold and
   "ok" when it is below the length of the history. `StatusIsOfAnswers`.
3. `Explained`: the start phase gives up with an inconclusive answer as the reason,
   since as long as there was none, the time left suffices for the wrong answers that
   are missing (`TimeLeft`). This needs `DeadlineIsLong`: the deadline is longer than
   the attempts that prove a misconfiguration. The code's values (15 minutes; 3
   attempts, at most a minute apart and of at most 10 seconds each) satisfy it by far.
   With a deadline too short for that, the code would give up with no reason at all.
4. `Quiet`: an update answers nothing wrong, so the count stays 0. `UpdatesAreQuiet`.

The invariants of the other modules were model-checked on the instances of
`local_store`, `downloads` and `cdn_self_check` before they were proved, those of
`RegistrySerialProofs` on the instance of `registry_serial`, `Removals` also with two
requests in progress at a time.

`VersionsProofs` proves the type invariant of `Versions`, which is left to the proof, and the
three properties that the run checks, for every set of versions that
`ValidateVersion` lets through:

1. `Induction` and `RecursionExists`, from the least element of a set of numbers: what
   the recursive functions of the module compute, for sequences of any length.
2. An order with ties is a function that yields -1, 0 or 1 (`IsOrder`), and comparing by
   the first element that differs and then by length makes an order on sequences of one on
   elements (`LexIsOrder`). So each comparison of the code is an order because the one
   below it is: strings, digit strings, pre-release fields, their lists, pre-releases,
   versions (`VersionsAreOrdered`). `OrderTotal`.
3. The value of a digit string is that of the string without its leading zeros
   (`TrimmedValueIs`); of two trimmed ones the longer denotes the higher number
   (`LongerIsHigher`), and of two of one length the first digit that differs decides
   (`SameLengthValues`). So the digits compare like the numbers (`NumbersByValue`), and
   the code's order is the standard's relation, level by level (`PrecedesIs`).
   `OrderSemVer`.
4. After n versions the pass holds one that nothing installable among them is above
   (`TopGoesOn`); `latest` is always the result of a whole pass (`Kept`).
   `LatestHighest`.

Assumption: `CandidatesAssumption` (a version's core is three numeric fields).

Model-checked only: `Answered`, `OrphansAreSwept`, `CallsReturn`, `StartupEnds` and
`StatusConverges` (liveness, whose proof needs fairness and ENABLED).

## Not modelled

See the components in `PROJECT.json`. Analytics and CDN invalidation are calls
whose errors are dropped and whose effects nothing reads; configuration and start-up
run once, in one goroutine; the OpenAPI description and the operator UI are documents
and a browser client; validation, the parsing of uploads and jars, filters and
ordering of lists are functions of one input. The client library of the bucket store is
external: its contract is in `Registry`, with the error after a successful write. The
request timeout of the router is `Lost` where it ends a request; the static files are
not modelled.

## Plan

Every invariant and action property of the runs is proved. What is left is to weaken
hypotheses: `IndexIsWrittenExactly` and `CatalogueFollows` allow no overlap at all, while
the catalogue is disturbed only by what commits or deletes between the reading of a row
and the write of the index.
