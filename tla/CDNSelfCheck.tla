----------------------------- MODULE CDNSelfCheck -----------------------------
(***************************************************************************)
(* The background check of internal/httpapi/cdn_selfcheck.go: the registry  *)
(* signs a probe path, fetches it through CDN_BASE_URL and wants the        *)
(* signature echoed by its own /cdn handler.  /ready reports the status.    *)
(*                                                                         *)
(* Behind CDN_BASE_URL there may be several backends at a time (a rolling   *)
(* update, a load balancer being changed); a probe is answered by one of    *)
(* them.  The check is one goroutine: an attempt is one step.               *)
(***************************************************************************)
EXTENDS Integers, Sequences

CONSTANTS
    InitialBackoff, MaxBackoff, Deadline,   \* the durations of the same names
    ProbeTime,            \* bound: how long an attempt may take
    Reachable,            \* the backends that may be behind CDN_BASE_URL
    MisconfiguredAfter    \* wrong answers that prove a misconfiguration

Backends == {"replica", "older", "rekeyed", "elsewhere", "overloaded",
             "unreachable", "mistyped"}

ASSUME ReachableAssumption == Reachable \subseteq Backends /\ Reachable # {}

ASSUME TimeAssumption ==
    /\ InitialBackoff \in Nat \ {0}
    /\ MaxBackoff \in Nat /\ MaxBackoff >= InitialBackoff
    /\ Deadline \in Nat
    /\ ProbeTime \in Nat
    /\ MisconfiguredAfter \in Nat \ {0}

VARIABLES
    phase,      \* where Run is; "off" when the check is disabled
    backoff,    \* the next wait of the startup phase
    elapsed,    \* time since Run started, in the startup phase
    status,     \* what Result reports
    reason,     \* the answer the status is about, "" for none
    transient,  \* lastTransient: the last inconclusive answer of the startup
    wrong,      \* wrong answers since the last right one
    backends,   \* what CDN_BASE_URL reaches at present
    recent      \* history: the last MisconfiguredAfter conclusive verdicts

vars == <<phase, backoff, elapsed, status, reason, transient, wrong, backends,
          recent>>

-----------------------------------------------------------------------------
(* One attempt. *)

\* What a GET of a probe URL comes back with.  A replica with the probe route
\* and the signing secret echoes the signature; one with another secret, or a
\* clock past the five minutes, forbids it; one that predates the route has no
\* such object.
Answer(b) ==
    CASE b = "replica"     -> "echo"
      [] b = "rekeyed"     -> "forbidden"
      [] b = "older"       -> "registry 404"
      [] b = "elsewhere"   -> "foreign"
      [] b = "overloaded"  -> "5xx"
      [] b = "unreachable" -> "no answer"
      [] b = "mistyped"    -> "no url"

Unclear == {"5xx", "no answer", "registry 404"}

\* Variant with a bug: an older replica's 404 counts as a wrong answer.
StrictVerdict(a) ==
    CASE a = "echo"                  -> "right"
      [] a \in {"5xx", "no answer"}  -> "unclear"
      [] OTHER                       -> "wrong"

\* probe: only the echo is right; a network error, a 5xx and the registry's
\* own 404 prove nothing.
Verdict(a) ==
    CASE a = "echo"     -> "right"
      [] a \in Unclear  -> "unclear"
      [] OTHER          -> "wrong"

Smaller(m, n) == IF m <= n THEN m ELSE n
LastOf(s, n) == SubSeq(s, IF Len(s) > n THEN Len(s) - n + 1 ELSE 1, Len(s))

\* The count matters up to the threshold only.
Count(n) == Smaller(n, MisconfiguredAfter)

\* Variant with a bug: an inconclusive answer starts the count again.
ObserveConsecutive(a) ==
    CASE Verdict(a) = "right" -> [status |-> "ok", wrong |-> 0, reason |-> ""]
      [] Verdict(a) = "wrong" /\ wrong + 1 >= MisconfiguredAfter ->
            [status |-> "misconfigured", wrong |-> Count(wrong + 1), reason |-> a]
      [] Verdict(a) = "wrong" /\ wrong + 1 < MisconfiguredAfter ->
            [status |-> status, wrong |-> wrong + 1, reason |-> reason]
      [] OTHER -> [status |-> status, wrong |-> 0, reason |-> reason]

\* Variant with a bug: a status once settled is kept.
ObserveOnce(a) ==
    CASE status \in {"ok", "misconfigured"} ->
            [status |-> status, wrong |-> wrong, reason |-> reason]
      [] status \notin {"ok", "misconfigured"} /\ Verdict(a) = "right" ->
            [status |-> "ok", wrong |-> 0, reason |-> ""]
      [] status \notin {"ok", "misconfigured"} /\ Verdict(a) = "wrong" ->
            [status |-> IF wrong + 1 >= MisconfiguredAfter THEN "misconfigured"
                        ELSE status,
             wrong |-> Count(wrong + 1), reason |-> a]
      [] OTHER -> [status |-> status, wrong |-> wrong, reason |-> reason]

\* observe: what an answer makes of the status and the count.
Observe(a) ==
    CASE Verdict(a) = "right" -> [status |-> "ok", wrong |-> 0, reason |-> ""]
      [] Verdict(a) = "wrong" /\ wrong + 1 >= MisconfiguredAfter ->
            [status |-> "misconfigured", wrong |-> Count(wrong + 1), reason |-> a]
      [] Verdict(a) = "wrong" /\ wrong + 1 < MisconfiguredAfter ->
            [status |-> status, wrong |-> wrong + 1, reason |-> reason]
      [] OTHER -> [status |-> status, wrong |-> wrong, reason |-> reason]

Remember(a) ==
    recent' = IF Verdict(a) = "unclear" THEN recent
              ELSE LastOf(Append(recent, Verdict(a)), MisconfiguredAfter)

-----------------------------------------------------------------------------
(* Run. *)

Init ==
    /\ phase \in {"startup", "off"}
    /\ backoff = InitialBackoff
    /\ elapsed = 0
    /\ status = IF phase = "off" THEN "disabled" ELSE "pending"
    /\ reason = "" /\ transient = "" /\ wrong = 0
    /\ backends \in (SUBSET Reachable) \ {{}}
    /\ recent = <<>>

\* An answer that settles the status ends the startup phase.
Settle(seen) ==
    /\ seen.status \in {"ok", "misconfigured"}
    /\ phase' = "steady"
    /\ status' = seen.status /\ reason' = seen.reason
    /\ UNCHANGED <<backoff, elapsed>>

\* Variant with a bug: the deadline is never compared.
WaitForEver(seen, now) ==
    /\ seen.status \notin {"ok", "misconfigured"}
    /\ backoff' = Smaller(2 * backoff, MaxBackoff)
    /\ elapsed' = Smaller(now, Deadline)
    /\ status' = seen.status /\ reason' = seen.reason
    /\ UNCHANGED phase

\* Variant with a bug: the wait doubles without its cap.
WaitDoubling(seen, now) ==
    /\ seen.status \notin {"ok", "misconfigured"}
    /\ backoff' = 2 * backoff
    /\ IF now + backoff' < Deadline
       THEN /\ elapsed' = now
            /\ status' = seen.status /\ reason' = seen.reason
            /\ UNCHANGED phase
       ELSE /\ elapsed' = Deadline
            /\ phase' = "steady"
            /\ status' = "unverified" /\ reason' = transient'

\* Otherwise the wait doubles, and the startup phase gives up when the next
\* attempt would come after the deadline.
WaitOrGiveUp(seen, now) ==
    LET next == Smaller(2 * backoff, MaxBackoff)
    IN  /\ seen.status \notin {"ok", "misconfigured"}
        /\ backoff' = next
        /\ \/ /\ now + next < Deadline
              /\ elapsed' = now
              /\ status' = seen.status /\ reason' = seen.reason
              /\ UNCHANGED phase
           \/ /\ now + next >= Deadline
              /\ elapsed' = Deadline
              /\ phase' = "steady"
              /\ status' = "unverified" /\ reason' = transient'

\* One round of the startup loop: wait, probe, and decide how to go on.
StartupProbe ==
    /\ phase = "startup"
    /\ \E b \in backends, d \in 0 .. ProbeTime :
          LET a == Answer(b)
              seen == Observe(a)
          IN  /\ transient' = IF Verdict(a) = "unclear" THEN a ELSE transient
              /\ wrong' = seen.wrong
              /\ Remember(a)
              /\ Settle(seen) \/ WaitOrGiveUp(seen, elapsed + backoff + d)
    /\ UNCHANGED backends

\* A tick of the steady phase.
SteadyProbe ==
    /\ phase = "steady"
    /\ \E b \in backends :
          LET seen == Observe(Answer(b))
          IN  /\ status' = seen.status
              /\ reason' = seen.reason
              /\ wrong' = seen.wrong
              /\ Remember(Answer(b))
    /\ UNCHANGED <<phase, backoff, elapsed, transient, backends>>

\* The context ends: Run returns and the last status stays.
Stop ==
    /\ phase \in {"startup", "steady"}
    /\ phase' = "stopped"
    /\ UNCHANGED <<backoff, elapsed, status, reason, transient, wrong, backends,
                   recent>>

\* CDN_BASE_URL comes to reach one backend more, or one less.
Reroute ==
    /\ \E b \in Reachable : backends' \in {backends \cup {b}, backends \ {b}} \ {{}}
    /\ UNCHANGED <<phase, backoff, elapsed, status, reason, transient, wrong,
                   recent>>

Probe == StartupProbe \/ SteadyProbe

Next == Probe \/ Stop \/ Reroute

Spec == Init /\ [][Next]_vars

\* The goroutine runs for as long as the process does; a timer always fires.
FairSpec == Spec /\ WF_vars(Probe)

-----------------------------------------------------------------------------
(* Properties.                                                              *)

Phases == {"startup", "steady", "stopped", "off"}
Statuses == {"disabled", "pending", "ok", "misconfigured", "unverified"}
Verdicts == {"right", "wrong"}

\* Type correctness: the wait stays within its cap and the count within its
\* threshold.
TypeOK ==
    /\ phase \in Phases
    /\ backoff \in InitialBackoff .. MaxBackoff
    /\ elapsed \in 0 .. Deadline
    /\ status \in Statuses
    /\ reason \in {Answer(b) : b \in Backends} \cup {""}
    /\ transient \in Unclear \cup {""}
    /\ wrong \in 0 .. MisconfiguredAfter
    /\ backends \in (SUBSET Reachable) \ {{}}
    /\ recent \in Seq(Verdicts) /\ Len(recent) <= MisconfiguredAfter

WrongOnes == {i \in DOMAIN recent : recent[i] = "wrong"}

\* The status is a function of the conclusive answers: "misconfigured" when the
\* last MisconfiguredAfter of them were all wrong, "ok" when one of those was
\* right, and neither while fewer, all wrong, have come in.  Inconclusive
\* answers between them, the change of phase and giving up change nothing.  When
\* the startup phase gives up, the reason it reports is an inconclusive answer it
\* really got.
StatusFollowsAnswers ==
    phase # "off" =>
        /\ status = "ok" <=> \E i \in DOMAIN recent : recent[i] = "right"
        /\ status = "misconfigured" <=>
              DOMAIN recent = WrongOnes /\ Len(recent) = MisconfiguredAfter
        /\ status = "unverified" => reason \in Unclear

\* A rolling update of this registry, with replicas that are older, overloaded
\* or not reachable for a while, never reports a misconfiguration.
Updating == backends \subseteq {"replica", "older", "overloaded", "unreachable"}
UpdatesAreNotMisconfigurations ==
    []Updating => [](status # "misconfigured")

\* The startup phase ends, whatever answers.
StartupEnds == phase = "startup" ~> phase # "startup"

Running == phase \in {"startup", "steady"}

\* Once CDN_BASE_URL reaches only replicas of this registry, a running check
\* comes to report ok, and once it reaches only something else, misconfigured.
StatusConverges ==
    /\ <>[](Running /\ backends = {"replica"}) => <>[](status = "ok")
    /\ <>[](Running /\ backends \subseteq {"rekeyed", "elsewhere", "mistyped"})
          => <>[](status = "misconfigured")

=============================================================================
