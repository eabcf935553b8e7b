------------------------------- MODULE Operators -------------------------------
(***************************************************************************)
(* Operator sign-in, sessions and the guards of the operator routes, on     *)
(* replicas that share only the object store: the password login with its   *)
(* lockout (auth/admin.go), the GitHub login with its one-time state        *)
(* (auth/oauth.go, auth/session.go), the shared denylist of logged-out      *)
(* sessions with each replica's cache of it (auth/session.go) and the       *)
(* guards of httpapi/router.go.                                             *)
(*                                                                         *)
(* A session token is named by its id and is known to hold what Issue       *)
(* signed into it.  Calls to the object store and to GitHub are steps.      *)
(***************************************************************************)
EXTENDS Naturals, Sequences

CONSTANTS
    Replicas,
    Slots,        \* requests in progress at the same time
    Sessions,     \* bound: session ids that are ever issued
    States,       \* bound: OAuth states that are ever issued
    Mixes,        \* sets of requests: each behaviour draws on one of them
    TeamRequired, \* is AllowedTeam configured?
    LockAfter,    \* failures that lock a login, 5
    LockFor,      \* how long, 15 minutes
    StateLife,    \* how long an OAuth state is good, 10 minutes
    SessionLife,  \* how long a session is, at most an hour
    Grace,        \* how much longer a cache entry counts, a minute
    MaxNow,       \* bound: when the clock stops
    MaxFaults,    \* bound: store calls that fail
    MaxRestarts,  \* bound: replicas that restart
    Nothing       \* no credential

\* "get" is an operator route with a safe method, "operate" one without,
\* "publish" the route that also takes a CI token.
Guarded == {"get", "operate", "publish", "logout"}
Ops == Guarded \cup {"login", "github", "callback"}

\* GitHub Actions tokens, from an allow-listed repository and from another.
CITokens == {"listed", "unlisted"}

\* right: the password is.  matches: the XSRF header matches its cookie, or the
\* state cookie matches the state.
Call == [op : Ops, bearer : Sessions \cup CITokens \cup {Nothing},
         cookie : Sessions \cup {Nothing}, matches : BOOLEAN,
         right : BOOLEAN, state : States]

ASSUME OperatorsAssumption ==
    /\ Replicas # {} /\ States # {}
    /\ \A m \in Mixes : m # {} /\ m \subseteq Call
    /\ Nothing \notin Sessions \cup CITokens
    /\ Sessions \cap CITokens = {}
    /\ TeamRequired \in BOOLEAN
    /\ LockAfter \in Nat \ {0} /\ LockFor \in Nat \ {0}
    /\ StateLife \in Nat \ {0} /\ SessionLife \in Nat \ {0} /\ Grace \in Nat
    /\ MaxNow \in Nat /\ MaxFaults \in Nat /\ MaxRestarts \in Nat

VARIABLES
    now,
    expiry,    \* when each session expires, 0 before it is issued
    denylist,  \* auth/session-denylist/: the sessions it names
    cache,     \* Denylist.local of each replica
    pending,   \* OAuthStateStore of each replica: when a state expires, or 0
    minted,    \* the states that were ever issued
    failures,  \* AdminAuthenticator of each replica, for one client and user
    lastFail,
    slot,      \* the requests
    answer,    \* how a request was answered in the last step, or ""
    mix,       \* what this behaviour draws on
    guesses,   \* history: when a replica weighed wrong passwords
    passes,    \* history: how many callbacks each state let pass
    ended,     \* history: sessions whose logout reached the store
    dropped,   \* history: sessions a replica has logged out
    faults, restarts

vars == <<now, expiry, denylist, cache, pending, minted, failures, lastFail,
          slot, answer, mix, guesses, passes, ended, dropped, faults, restarts>>

passwords == <<failures, lastFail, guesses>>
oauth == <<pending, minted, passes>>
revocation == <<denylist, cache, ended, dropped>>
budget == <<mix, faults, restarts>>

-----------------------------------------------------------------------------

\* late is history: whether the session was logged out, for the replica that
\* serves the request, when it came in.
NoSlot == [pc |-> "idle", call |-> Nothing, at |-> Nothing, late |-> FALSE]

\* authenticateSession: the bearer token counts, and without one the cookie.
Presented(c) == IF c.bearer # Nothing THEN c.bearer ELSE c.cookie

On(q, there) ==
    /\ slot' = [slot EXCEPT ![q].pc = there]
    /\ answer' = ""
Reply(q, code) ==
    /\ slot' = [slot EXCEPT ![q] = NoSlot]
    /\ answer' = code

Issued == {s \in Sessions : expiry[s] # 0}

Start(q, x, c) ==
    LET s == Presented(c)
    IN  /\ slot[q].pc = "idle"
        /\ {c.bearer, c.cookie} \cap Sessions \subseteq Issued
        /\ c.op = "callback" => c.state \in minted
        /\ slot' = [slot EXCEPT ![q] =
             [pc |-> IF c.op \in Guarded THEN "guard" ELSE c.op, call |-> c,
              at |-> x, late |-> s \in ended \cup dropped[x]]]
        /\ answer' = ""
        /\ UNCHANGED <<now, expiry, revocation, oauth, passwords, budget>>

-----------------------------------------------------------------------------
(* Guards and the denylist. *)

\* The header is compared with the cookie only when a session cookie is sent.
CSRFRefuses(c) == c.op # "get" /\ c.cookie # Nothing /\ ~c.matches

\* Variant with a bug: the header counts only for a cookie that authenticates.
AdmitBearer(q) ==
    LET c == slot[q].call
    IN  IF CSRFRefuses(c) /\ c.bearer = Nothing THEN Reply(q, "csrf")
        ELSE IF c.op = "logout" THEN On(q, "revoke") ELSE Reply(q, "accepted")

\* The session is good: the request passes, and a logout goes on.
Admit(q) ==
    LET c == slot[q].call
    IN  IF CSRFRefuses(c) THEN Reply(q, "csrf")
        ELSE IF c.op = "logout" THEN On(q, "revoke") ELSE Reply(q, "accepted")

\* Variant with a bug: the cache forgets a session before it expires.
CountsEarly(s) == now + 1 < expiry[s]

\* A cache entry counts until a while after the session has expired.
Counts(s) == now < expiry[s] + Grace

\* What the guards decide about a CI token, with the key set at hand.
CIVerdict(c) ==
    CASE c.op \in {"get", "operate"} -> "tokenType"
      [] c.op = "publish" -> IF c.bearer = "listed" THEN "accepted" ELSE "forbidden"
      [] c.op = "logout" -> "unauthorized"

\* Verify looks at the token and at the cache; only then at the store.
Guard(q) ==
    LET c == slot[q].call
        s == Presented(c)
    IN  /\ slot[q].pc = "guard"
        /\ \/ s = Nothing /\ Reply(q, "unauthorized")
           \/ s \in CITokens /\ Reply(q, CIVerdict(c))
           \/ /\ s \in Sessions
              /\ IF now >= expiry[s] THEN Reply(q, "unauthorized")
                 ELSE IF s \notin cache[slot[q].at] THEN On(q, "denylist")
                 ELSE IF Counts(s) THEN Reply(q, "unauthorized") ELSE Admit(q)
        /\ UNCHANGED <<now, expiry, revocation, oauth, passwords, budget>>

\* Variant with a bug: whatever is not found out counts as revoked.
ReadDenylistClosed(q) ==
    /\ slot[q].pc = "denylist"
    /\ Reply(q, "unauthorized")
    /\ UNCHANGED <<now, expiry, revocation, oauth, passwords, budget>>

ReadDenylist(q) ==
    LET s == Presented(slot[q].call)
        x == slot[q].at
    IN  /\ slot[q].pc = "denylist"
        /\ \/ /\ s \in denylist
              /\ cache' = [cache EXCEPT ![x] = @ \cup {s}]
              /\ Reply(q, "unauthorized")
           \/ s \notin denylist /\ Admit(q) /\ UNCHANGED cache
        /\ UNCHANGED <<now, expiry, denylist, ended, dropped, oauth, passwords,
                       budget>>

\* Logout: the replica's own cache first ...
RevokeHere(q) ==
    LET s == Presented(slot[q].call)
        x == slot[q].at
    IN  /\ slot[q].pc = "revoke"
        /\ cache' = [cache EXCEPT ![x] = @ \cup {s}]
        /\ dropped' = [dropped EXCEPT ![x] = @ \cup {s}]
        /\ On(q, "revoke store")
        /\ UNCHANGED <<now, expiry, denylist, ended, oauth, passwords, budget>>

\* ... then the store.  An object that is there already is as good.
RevokeInStore(q) ==
    LET s == Presented(slot[q].call)
    IN  /\ slot[q].pc = "revoke store"
        /\ denylist' = denylist \cup {s}
        /\ ended' = ended \cup {s}
        /\ Reply(q, "accepted")
        /\ UNCHANGED <<now, expiry, cache, dropped, oauth, passwords, budget>>

-----------------------------------------------------------------------------
(* Signing in. *)

Issue(q) ==
    /\ slot[q].pc = "issue"
    /\ \E s \in Sessions \ Issued :
          expiry' = [expiry EXCEPT ![s] = now + SessionLife]
    /\ Reply(q, "session")
    /\ UNCHANGED <<now, revocation, oauth, passwords, budget>>

\* The guesses that matter to the lockout: the last LockAfter + 1.
Guessed(old) ==
    LET all == Append(old, now)
    IN  IF Len(all) > LockAfter + 1 THEN Tail(all) ELSE all

\* Variant with a bug: one guess more.
LockedLater(x) == failures[x] > LockAfter /\ now - lastFail[x] < LockFor

\* Five failures lock the login for a while.
Locked(x) == failures[x] >= LockAfter /\ now - lastFail[x] < LockFor

\* Variant with a bug: a refused attempt starts the lockout anew.
LoginExtending(q) ==
    LET x == slot[q].at
    IN  /\ slot[q].pc = "login"
        /\ \/ /\ Locked(x) /\ Reply(q, "tooMany")
              /\ lastFail' = [lastFail EXCEPT ![x] = now]
              /\ UNCHANGED <<failures, guesses>>
           \/ /\ ~Locked(x) /\ ~slot[q].call.right
              /\ failures' = [failures EXCEPT ![x] = @ + 1]
              /\ lastFail' = [lastFail EXCEPT ![x] = now]
              /\ guesses' = [guesses EXCEPT ![x] = Guessed(@)]
              /\ Reply(q, "unauthorized")
        /\ UNCHANGED <<now, expiry, revocation, oauth, budget>>

\* Authenticate, under its mutex: after the lockout the count starts again.
Login(q) ==
    LET x == slot[q].at
        count == IF failures[x] >= LockAfter THEN 0 ELSE failures[x]
    IN  /\ slot[q].pc = "login"
        /\ \/ Locked(x) /\ Reply(q, "tooMany") /\ UNCHANGED passwords
           \/ /\ ~Locked(x) /\ slot[q].call.right
              /\ failures' = [failures EXCEPT ![x] = 0]
              /\ guesses' = [guesses EXCEPT ![x] = <<>>]
              /\ On(q, "issue") /\ UNCHANGED lastFail
           \/ /\ ~Locked(x) /\ ~slot[q].call.right
              /\ failures' = [failures EXCEPT ![x] = count + 1]
              /\ lastFail' = [lastFail EXCEPT ![x] = now]
              /\ guesses' = [guesses EXCEPT ![x] = Guessed(@)]
              /\ Reply(q, "unauthorized")
        /\ UNCHANGED <<now, expiry, revocation, oauth, budget>>

\* The state is kept in the memory of the replica that issued it.
GitHubLogin(q) ==
    /\ slot[q].pc = "github"
    /\ \E o \in States \ minted :
          /\ minted' = minted \cup {o}
          /\ pending' = [pending EXCEPT ![slot[q].at][o] = now + StateLife]
    /\ Reply(q, "redirect")
    /\ UNCHANGED <<now, expiry, passes, revocation, passwords, budget>>

\* Variant with a bug: the state is only looked up.
ConsumeNot(q) ==
    LET o == slot[q].call.state
        until == pending[slot[q].at][o]
        good == slot[q].call.matches /\ until # 0 /\ now < until
    IN  /\ slot[q].pc = "callback"
        /\ passes' = [passes EXCEPT ![o] = IF good THEN @ + 1 ELSE @]
        /\ IF good THEN On(q, "exchange") ELSE Reply(q, "unauthorized")
        /\ UNCHANGED <<now, expiry, pending, minted, revocation, passwords, budget>>

\* The callback's state must match its cookie; Consume deletes it, good or not.
Consume(q) ==
    LET o == slot[q].call.state
        x == slot[q].at
        good == pending[x][o] # 0 /\ now < pending[x][o]
    IN  /\ slot[q].pc = "callback"
        /\ IF slot[q].call.matches
           THEN /\ pending' = [pending EXCEPT ![x][o] = 0]
                /\ passes' = [passes EXCEPT ![o] = IF good THEN @ + 1 ELSE @]
                /\ IF good THEN On(q, "exchange") ELSE Reply(q, "unauthorized")
           ELSE Reply(q, "unauthorized") /\ UNCHANGED <<pending, passes>>
        /\ UNCHANGED <<now, expiry, minted, revocation, passwords, budget>>

\* What GitHub says to the three calls of a callback is left open: the code is
\* exchanged, the membership is active, and so is the one in the team.
AskGitHub(q) ==
    /\ \/ slot[q].pc = "exchange" /\ (On(q, "member") \/ Reply(q, "unauthorized"))
       \/ /\ slot[q].pc = "member"
          /\ \/ On(q, IF TeamRequired THEN "team" ELSE "issue")
             \/ Reply(q, "forbidden") \/ Reply(q, "unauthorized")
       \/ /\ slot[q].pc = "team"
          /\ On(q, "issue") \/ Reply(q, "forbidden") \/ Reply(q, "unauthorized")
    /\ UNCHANGED <<now, expiry, oauth, revocation, passwords, budget>>

-----------------------------------------------------------------------------
(* Failures, restarts and time. *)

\* A store read that fails counts as revoked; a store write of a logout that
\* fails is dropped, and the logout is answered all the same.
StoreFails(q) ==
    /\ faults < MaxFaults /\ faults' = faults + 1
    /\ \/ slot[q].pc = "denylist" /\ Reply(q, "unauthorized")
       \/ slot[q].pc = "revoke store" /\ Reply(q, "accepted")
    /\ UNCHANGED <<now, expiry, revocation, oauth, passwords, mix, restarts>>

\* A replica restarts: what it kept in memory and its requests are gone.
Restart(x) ==
    /\ restarts < MaxRestarts /\ restarts' = restarts + 1
    /\ cache' = [cache EXCEPT ![x] = {}]
    /\ dropped' = [dropped EXCEPT ![x] = {}]
    /\ pending' = [pending EXCEPT ![x] = [o \in States |-> 0]]
    /\ failures' = [failures EXCEPT ![x] = 0]
    /\ lastFail' = [lastFail EXCEPT ![x] = 0]
    /\ guesses' = [guesses EXCEPT ![x] = <<>>]
    /\ slot' = [q \in Slots |-> IF slot[q].at = x THEN NoSlot ELSE slot[q]]
    /\ answer' = ""
    /\ UNCHANGED <<now, expiry, denylist, minted, passes, ended, mix, faults>>

Tick ==
    /\ now < MaxNow
    /\ now' = now + 1
    /\ answer' = ""
    /\ UNCHANGED <<expiry, slot, revocation, oauth, passwords, budget>>

Init ==
    /\ now = 0
    /\ expiry = [s \in Sessions |-> 0]
    /\ denylist = {}
    /\ cache = [x \in Replicas |-> {}]
    /\ pending = [x \in Replicas |-> [o \in States |-> 0]]
    /\ minted = {}
    /\ failures = [x \in Replicas |-> 0]
    /\ lastFail = [x \in Replicas |-> 0]
    /\ slot = [q \in Slots |-> NoSlot]
    /\ answer = ""
    /\ mix \in Mixes
    /\ guesses = [x \in Replicas |-> <<>>]
    /\ passes = [o \in States |-> 0]
    /\ ended = {}
    /\ dropped = [x \in Replicas |-> {}]
    /\ faults = 0 /\ restarts = 0

Step(q) ==
    \/ Guard(q) \/ ReadDenylist(q) \/ RevokeHere(q) \/ RevokeInStore(q)
    \/ Issue(q) \/ Login(q) \/ GitHubLogin(q) \/ Consume(q) \/ AskGitHub(q)

Next ==
    \/ \E q \in Slots :
          \/ \E x \in Replicas, c \in mix : Start(q, x, c)
          \/ Step(q)
          \/ StoreFails(q)
    \/ \E x \in Replicas : Restart(x)
    \/ Tick

Spec == Init /\ [][Next]_vars

-----------------------------------------------------------------------------
(* Properties.                                                              *)

Pcs == {"idle", "guard", "denylist", "revoke", "revoke store", "issue", "login",
        "github", "callback", "exchange", "member", "team"}
Replies == {"", "accepted", "unauthorized", "forbidden", "csrf", "tokenType",
            "session", "tooMany", "redirect"}

\* Type correctness; the count of failures stays below the lockout's threshold
\* or at it, and a state is pending on one replica only.
TypeOK ==
    /\ now \in 0 .. MaxNow
    /\ expiry \in [Sessions -> 0 .. MaxNow + SessionLife]
    /\ denylist \subseteq Issued /\ ended \subseteq denylist
    /\ cache \in [Replicas -> SUBSET Issued]
    /\ dropped \in [Replicas -> SUBSET Issued]
    /\ pending \in [Replicas -> [States -> 0 .. MaxNow + StateLife]]
    /\ minted \subseteq States
    /\ \A x, y \in Replicas, o \in minted :
          pending[x][o] # 0 /\ pending[y][o] # 0 => x = y
    /\ failures \in [Replicas -> 0 .. LockAfter]
    /\ lastFail \in [Replicas -> 0 .. MaxNow]
    /\ slot \in [Slots -> [pc : Pcs, call : Call \cup {Nothing},
                           at : Replicas \cup {Nothing}, late : BOOLEAN]]
    /\ answer \in Replies

\* This step answers the request in q with the code.
Answers(q, code) ==
    slot[q].pc # "idle" /\ slot'[q] = NoSlot /\ answer' = code

\* A session that was logged out is refused everywhere from the next request
\* on: by every replica when the logout reached the store, and by the replica
\* that served the logout even when it did not; with the store failing, with
\* caches that forget, and after restarts.
LogoutIsFinal ==
    [][\A q \in Slots :
          Answers(q, "accepted") /\ Presented(slot[q].call) \in Sessions
             => ~slot[q].late]_vars

\* Only a logout ends a session early: while no store call has failed, a session
\* that no replica has begun to log out is not refused before it expires, on any
\* of the guarded routes.
LiveSessionsPass ==
    [][\A q \in Slots :
          LET s == Presented(slot[q].call)
          IN  Answers(q, "unauthorized") /\ faults' = 0 =>
                \/ s \notin Sessions \/ slot[q].call.op \notin Guarded
                \/ now >= expiry[s] \/ s \in ended
                \/ \E x \in Replicas : s \in dropped[x]]_vars

\* Whatever mixture of credentials a request carries, and whichever of the three
\* guards sees it: it passes with a session, and then with the XSRF header if it
\* brought a session cookie and changes something, or as an allow-listed CI
\* publish.
PassesAreEarned ==
    [][\A q \in Slots :
          LET c == slot[q].call
          IN  Answers(q, "accepted") =>
                \/ Presented(c) \in Issued
                     /\ (c.op = "get" \/ c.cookie = Nothing \/ c.matches)
                \/ c.op = "publish" /\ c.bearer = "listed"]_vars

\* An OAuth state lets one callback pass, however many carry it at once.
StatesPassOnce == \A o \in States : passes[o] <= 1

\* No replica weighs LockAfter + 1 wrong passwords in a row within the lockout's
\* time, wherever in the count the lockouts fall.
GuessesAreSpaced ==
    \A x \in Replicas :
        LET g == guesses[x]
        IN  Len(g) = LockAfter + 1 => g[LockAfter + 1] - g[1] >= LockFor

\* A login is refused unweighed only for so long after the last password that
\* was weighed: attempts during the lockout do not prolong it.
LockoutIsNotExtended ==
    [][\A q \in Slots :
          Answers(q, "tooMany") =>
            LET g == guesses[slot[q].at]
            IN  g # <<>> /\ now - g[Len(g)] < LockFor]_vars

=============================================================================
