------------------------------- MODULE Downloads -------------------------------
(***************************************************************************)
(* Reading the registry while it changes: the version list, the plugin and  *)
(* version pages, and the download of an artifact (handlers_plugins.go,     *)
(* internal/catalogue, internal/license VerifyToken, signed URLs and the    *)
(* CDN proxy of handlers_health.go), composed with Registry and with the    *)
(* licence document of Licences.                                            *)
(*                                                                         *)
(* A read is a sequence of store reads, each a step; between two of them    *)
(* publishes, blocks and removals take their own steps.  The licence        *)
(* document changes in whole updates: LocalStore shows that it does.        *)
(***************************************************************************)
EXTENDS Registry, Licences

CONSTANTS
    Readers,      \* read requests, each running once
    Asks,         \* what they may ask for
    Tokens,       \* licence tokens their clients may send
    NoToken,      \* no Authorization header
    FirstKey,     \* the key the customer holds when the model starts
    FirstUntil,   \* when the customer's entitlement expires
    LicenceCalls, \* the licence operations that may happen
    TTL,          \* how long a signed URL is valid, 60 s
    MaxNow        \* bound: when the clock stops

\* The pages and the artifact of the API, and the two bare paths a jar can
\* have below /cdn/.
ReadOps == {"artifact", "version", "versions", "plugin", "plugins", "jar",
            "premium jar"}

\* A token claims a plugin, which need not be in the registry.  "plugin" and
\* "versions" ignore the version, and "plugins" the plugin too.
Token == [customer : Customers, key : Keys, until : Instants,
          right : BOOLEAN]  \* is it for the plugin that is asked for?
Asking == [op : ReadOps, plugin : Plugins, version : Versions,
           token : Tokens \cup {NoToken}]

ASSUME DownloadsAssumption ==
    /\ Tokens \subseteq Token /\ NoToken \notin Token
    /\ Asks \subseteq Asking /\ Asks # {}
    /\ FirstKey \in Keys /\ FirstUntil \in Instants
    /\ LicenceCalls \subseteq LicenceCall
    /\ TTL \in Nat /\ MaxNow \in Nat

VARIABLES
    licences,  \* auth/authorized_keys.json
    issued,    \* the keys that have been issued
    now,       \* the clock of the replicas
    reader     \* the read requests

reading == <<licences, issued, now, reader>>

-----------------------------------------------------------------------------

\* shut, gone, barred and unread are history: the versions that were blocked,
\* whether the plugin was removed and whether the token proved nothing when the
\* request came in, and whether the jar could not be read for its digest.
NoReader == [pc |-> "idle", ask |-> CHOOSE a \in Asks : TRUE,
             shut |-> {}, gone |-> FALSE, barred |-> FALSE, unread |-> FALSE,
             manifest |-> NoBundle, blocked |-> FALSE, listed |-> NoBundle,
             held |-> NoDocument, answer |-> "", exp |-> 0, got |-> NoBundle]

\* Variant with a bug: the signature is checked, the customer's keys are not.
VerdictByDate(t, d) ==
    IF now >= t.until THEN "invalid" ELSE IF ~t.right THEN "denied" ELSE ""

\* VerifyToken on a document it has loaded, and then the claimed plugin.
Verdict(t, d) ==
    LET refusal == TokenRefusal(t, d, now)
    IN  IF refusal = "" /\ ~t.right THEN "denied" ELSE refusal

State(x) == plugin[reader[x].ask.plugin]
ManifestOf(x, v) == files[ManifestPath(reader[x].ask.plugin, v)]

\* Variant with a bug: every artifact is looked for among the public ones.
ArtPathPublic(x) ==
    PathOf("public", reader[x].ask.plugin, reader[x].ask.version)

\* VersionArtifactPath by the access of the manifest.
ArtPath(x) ==
    JarPath(reader[x].ask.plugin, reader[x].ask.version, reader[x].manifest)

At(x, where) == reader[x].pc = where

On(x, there) ==
    reader' = [reader EXCEPT ![x].pc = there]
Reply(x, code) ==
    reader' = [reader EXCEPT ![x].pc = "done", ![x].answer = code]

ReadOnly == UNCHANGED <<vars, licences, issued, now>>

\* What the licence terms say, whoever checks them: the customer holds the key,
\* and neither the token nor the entitlement has run out.
Entitled(t) ==
    /\ t.right /\ now < t.until
    /\ t.key \in KeysOf(licences, t.customer)
    /\ now <= licences[t.customer].until

\* A request comes in; a client can only sign with a key that was issued.
AskFor(x, a) ==
    LET s == plugin[a.plugin]
    IN  /\ At(x, "idle")
        /\ a.token # NoToken => a.token.key \in issued
        /\ reader' = [reader EXCEPT
             ![x].pc = CASE a.op = "version" -> "detail"
                         [] a.op = "plugin"  -> "page"
                         [] a.op = "plugins" -> "list"
                         [] a.op \in {"jar", "premium jar"}     -> "fetch"
                         [] a.op \in {"artifact", "versions"}   -> "state",
             ![x].ask = a,
             ![x].shut = s.doc.blocked,
             ![x].gone = s.doc.removed,
             ![x].barred = a.token = NoToken \/ ~Entitled(a.token)]
        /\ ReadOnly

-----------------------------------------------------------------------------
(* The handlers. *)

\* Variant with a bug: only the page looks at the block.
ReadVersionsOpen(x) ==
    LET s == State(x)
    IN  /\ At(x, "state")
        /\ CASE s.gen = 0      -> Reply(x, "notFound")
             [] s.gen > 0 /\ s.doc.removed -> Reply(x, "gone")
             [] OTHER -> IF reader[x].ask.op = "versions" THEN Reply(x, "versions")
                         ELSE On(x, "detail")
        /\ ReadOnly

\* ListVersions, and the first decisions of the artifact handler.
ReadVersions(x) ==
    LET s == State(x)
    IN  /\ At(x, "state")
        /\ \/ s.gen = 0 /\ Reply(x, "notFound")
           \/ s.gen > 0 /\ s.doc.removed /\ Reply(x, "gone")
           \/ /\ s.gen > 0 /\ ~s.doc.removed
              /\ IF reader[x].ask.op = "versions" THEN Reply(x, "versions")
                 ELSE IF reader[x].ask.version \in s.doc.blocked
                 THEN Reply(x, "blocked")
                 ELSE On(x, "detail")
        /\ ReadOnly

\* GetVersion reads plugin.json.  Of a removed plugin it returns no detail and
\* no error: the version page is "gone", the artifact handler dereferences nil
\* and Recoverer answers.
ReadDetail(x) ==
    LET s == State(x)
        v == reader[x].ask.version
    IN  /\ At(x, "detail")
        /\ \/ s.gen = 0 /\ Reply(x, "notFound")
           \/ /\ s.gen > 0 /\ s.doc.removed
              /\ Reply(x, IF reader[x].ask.op = "version" THEN "gone" ELSE "panic")
           \/ /\ s.gen > 0 /\ ~s.doc.removed
              /\ reader' = [reader EXCEPT ![x].pc = "manifest",
                              ![x].blocked = v \in s.doc.blocked,
                              ![x].listed = s.doc.versions[v]]
        /\ ReadOnly

\* The manifest says where the jar is and whether a licence is needed.
ReadVersionManifest(x) ==
    LET m == ManifestOf(x, reader[x].ask.version)
    IN  /\ At(x, "manifest")
        /\ IF m = NoBundle THEN Reply(x, "notFound")
           ELSE reader' = [reader EXCEPT ![x].manifest = m,
                  ![x].answer = IF reader[x].ask.op = "artifact" /\ m \notin Premium
                                THEN "redirect" ELSE "",
                  ![x].pc = CASE reader[x].ask.op = "version" -> "digest"
                              [] reader[x].ask.op = "artifact" /\ m \in Premium
                                   -> "licence"
                              [] OTHER -> "fetch"]
        /\ ReadOnly

\* Variant with a bug: the digest is the one plugin.json lists.
ReadDigestListed(x) ==
    /\ At(x, "digest")
    /\ reader' = [reader EXCEPT ![x].pc = "done", ![x].answer = "detail",
                    ![x].got = reader[x].listed]
    /\ ReadOnly

\* The digest on a version's page is the one of the jar, or else the listed one.
ReadDigest(x) ==
    LET jar == files[ArtPath(x)]
    IN  /\ At(x, "digest")
        /\ reader' = [reader EXCEPT ![x].pc = "done", ![x].answer = "detail",
                        ![x].got = IF jar # NoBundle THEN jar ELSE reader[x].listed]
        /\ ReadOnly

\* Variant with a bug: a removed plugin still has its page.
ReadPluginOfRemoved(x) ==
    LET s == State(x)
    IN  /\ At(x, "page")
        /\ IF s.gen = 0 \/ s.doc.latest = NoVersion THEN Reply(x, "notFound")
           ELSE reader' = [reader EXCEPT ![x].pc = "page manifest",
                             ![x].ask.version = s.doc.latest]
        /\ ReadOnly

\* GetPlugin: plugin.json, then the manifest of the latest version.
ReadPlugin(x) ==
    LET s == State(x)
    IN  /\ At(x, "page")
        /\ \/ s.gen = 0 /\ Reply(x, "notFound")
           \/ s.gen > 0 /\ s.doc.removed /\ Reply(x, "gone")
           \/ /\ s.gen > 0 /\ ~s.doc.removed
              /\ IF s.doc.latest = NoVersion THEN Reply(x, "notFound")
                 ELSE reader' = [reader EXCEPT ![x].pc = "page manifest",
                                   ![x].ask.version = s.doc.latest]
        /\ ReadOnly

\* ListPlugins: one read of index.json, whose rows are filtered and sorted.
ReadList(x) ==
    /\ At(x, "list")
    /\ Reply(x, "list")
    /\ ReadOnly

\* A manifest that is missing here is no error the handler knows.
ReadLatestManifest(x) ==
    /\ At(x, "page manifest")
    /\ Reply(x, IF ManifestOf(x, reader[x].ask.version) = NoBundle
                THEN "internalError" ELSE "page")
    /\ ReadOnly

-----------------------------------------------------------------------------
(* Licences and signed URLs. *)

\* Without a token the request is refused; VerifyToken loads the document.
LoadLicences(x) ==
    /\ At(x, "licence")
    /\ IF reader[x].ask.token = NoToken THEN Reply(x, "licenceMissing")
       ELSE reader' = [reader EXCEPT ![x].pc = "verify", ![x].held = licences]
    /\ ReadOnly

VerifyToken(x) ==
    LET refusal == Verdict(reader[x].ask.token, reader[x].held)
    IN  /\ At(x, "verify")
        /\ reader' = [reader EXCEPT ![x].held = NoDocument, ![x].answer = refusal,
                        ![x].pc = IF refusal = "" THEN "sign" ELSE "done"]
        /\ ReadOnly

SignURL(x) ==
    /\ At(x, "sign")
    /\ reader' = [reader EXCEPT ![x].pc = "fetch", ![x].answer = "signed",
                    ![x].exp = now + TTL]
    /\ ReadOnly

\* The object a URL names.
Wanted(x) ==
    CASE reader[x].ask.op = "jar" ->
            PathOf("public", reader[x].ask.plugin, reader[x].ask.version)
      [] reader[x].ask.op = "premium jar" ->
            PathOf("premium", reader[x].ask.plugin, reader[x].ask.version)
      [] OTHER -> ArtPath(x)

\* verifySignature: a signed URL is good up to the second it expires.
SignatureHolds(x) == reader[x].answer = "signed" /\ now <= reader[x].exp

\* The client follows the URL: the proxy checks it ...
CheckURL(x) ==
    /\ At(x, "fetch")
    /\ IF Wanted(x).kind = "premium" /\ ~SignatureHolds(x)
       THEN reader' = [reader EXCEPT ![x].pc = "done"]
       ELSE On(x, "serve")
    /\ ReadOnly

\* ... and serves the object, which may be gone by now.
Serve(x) ==
    /\ At(x, "serve")
    /\ reader' = [reader EXCEPT ![x].pc = "done", ![x].got = files[Wanted(x)]]
    /\ ReadOnly

\* The read of the jar fails, for whatever reason: the page is answered all the
\* same, with the digest plugin.json lists for the version, or with none.
FallBackToListed(x) ==
    /\ At(x, "digest")
    /\ reader' = [reader EXCEPT ![x].pc = "done", ![x].answer = "detail",
                    ![x].got = reader[x].listed, ![x].unread = TRUE]

\* A store read fails: GetVersion's error is a 404 for an artifact, the jar's
\* digest gives way to the listed one, all else is an internal error or an
\* unavailable store.
ReadFails(x) ==
    /\ Fault("unread")
    /\ \/ /\ reader[x].pc \in {"detail", "manifest"} /\ reader[x].ask.op = "artifact"
          /\ Reply(x, "notFound")
       \/ /\ \/ reader[x].pc \in {"state", "list", "page", "page manifest"}
             \/ reader[x].pc \in {"detail", "manifest"} /\ reader[x].ask.op = "version"
          /\ Reply(x, "internalError")
       \/ /\ At(x, "licence") /\ reader[x].ask.token # NoToken
          /\ Reply(x, "unavailable")
       \/ FallBackToListed(x)
    /\ UNCHANGED <<plugin, files, index, pc, call, mem, reply, sweep, licences,
                   issued, now>>

-----------------------------------------------------------------------------

\* A licence operation takes effect.
ChangeLicences(c, k) ==
    /\ k \notin issued
    /\ LicenceRefusal(c, licences) = ""
    /\ licences' = WithLicence(c, k, licences)
    /\ issued' = IF c.op = "revoke" THEN issued ELSE issued \cup {k}
    /\ UNCHANGED <<vars, now, reader>>

Tick ==
    /\ now < MaxNow
    /\ now' = now + 1
    /\ UNCHANGED <<vars, licences, issued, reader>>

ReadersInit ==
    /\ licences = [c \in Customers |-> [keys |-> {FirstKey}, until |-> FirstUntil]]
    /\ issued = {FirstKey}
    /\ now = 0
    /\ reader = [x \in Readers |-> NoReader]

ReadStep(x) ==
    \/ ReadVersions(x) \/ ReadDetail(x) \/ ReadVersionManifest(x) \/ ReadDigest(x)
    \/ ReadPlugin(x) \/ ReadLatestManifest(x) \/ ReadList(x)
    \/ LoadLicences(x) \/ VerifyToken(x) \/ SignURL(x)
    \/ CheckURL(x) \/ Serve(x)

ReadersNext ==
    \/ \E x \in Readers :
          \/ \E a \in Asks : AskFor(x, a)
          \/ ReadStep(x)
          \/ ReadFails(x)
    \/ \E c \in LicenceCalls, k \in Keys : ChangeLicences(c, k)
    \/ Tick

DownloadsInit == Init /\ ReadersInit
DownloadsNext == (Next /\ UNCHANGED reading) \/ ReadersNext
DownloadsSpec == DownloadsInit /\ [][DownloadsNext]_<<vars, reading>>

-----------------------------------------------------------------------------
(* Properties.                                                              *)

\* A version that was blocked, or whose plugin was removed, before a request
\* came in is not handed out, is not the one the plugin's page shows, and its
\* own page says that it is blocked, whatever is published at the same time.
ShutVersionsStayShut ==
    \A x \in Readers :
        LET q == reader[x]
            v == q.ask.version
        IN  /\ q.answer \in {"redirect", "signed", "page"} =>
                  ~q.gone /\ v \notin q.shut
            /\ q.answer = "detail" => ~q.gone /\ (v \in q.shut => q.blocked)

\* The bytes of a premium jar come only to a client whose token proved its
\* entitlement when the request came in: a token that proved nothing then (a
\* revoked customer's, an expired one, one for another plugin) proves nothing
\* later in the request either, and there is no way around the signed URL.
PremiumIsServedOnLicence ==
    \A x \in Readers :
        LET q == reader[x]
        IN  q.got \in Premium /\ q.answer # "detail" => ~q.barred

\* A read only breaks down, with a dereferenced nil or an internal error, when
\* the plugin is removed between two of its store reads.
FailedReadsMetARemoval ==
    \A x \in Readers :
        LET q == reader[x]
        IN  q.answer = "panic" \/ (q.answer = "internalError" /\ faults = <<>>) =>
              ~q.gone /\ State(x).doc.removed

\* A client that was sent to a jar finds one there, until the plugin is removed:
\* a manifest is only seen once the jar it points to is in place.
HandedOutExists ==
    \A x \in Readers :
        reader[x].answer \in {"redirect", "signed"} /\ ~State(x).doc.removed =>
            files[ArtPath(x)] # NoBundle

\* The digest a version's page shows is the one of the jar a download gets, also
\* when two uploads of the version have met, until the plugin is removed.  Only
\* where that jar could not be read it may be another: none for a version that
\* was not listed yet, or the one of the upload the manifest is from.
DigestIsTheJars ==
    \A x \in Readers :
        LET q == reader[x]
        IN  q.answer = "detail" /\ ~State(x).doc.removed =>
              \/ q.got = files[ArtPath(x)]
              \/ q.unread /\ q.got \in {NoBundle, q.manifest}

=============================================================================
