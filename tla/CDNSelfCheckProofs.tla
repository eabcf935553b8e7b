-------------------------- MODULE CDNSelfCheckProofs --------------------------
(***************************************************************************)
(* The safety properties of CDNSelfCheck, proved for every choice of the    *)
(* durations, of the threshold and of the backends.                         *)
(*                                                                         *)
(* The argument: the count of wrong answers is the length of the run of     *)
(* wrong verdicts at the end of the history (Counted), and the status says  *)
(* whether that run is as long as the threshold, and if not whether there   *)
(* is a right verdict before it (Reported).  Giving up is explained by an   *)
(* inconclusive answer because, without one, the time that is left always   *)
(* suffices for the wrong answers that are missing (Explained).             *)
(***************************************************************************)
EXTENDS CDNSelfCheck, SequenceTheorems, TLAPS

-----------------------------------------------------------------------------
(* The inductive invariants. *)

Counted ==
    /\ wrong <= Len(recent)
    /\ \A i \in 1 .. Len(recent) : i > Len(recent) - wrong => recent[i] = "wrong"
    /\ wrong < Len(recent) => recent[Len(recent) - wrong] = "right"

\* What the status says while the check runs, and after it was stopped.
Reported ==
    phase # "off" =>
        /\ status # "disabled"
        /\ status = "misconfigured" <=> wrong = MisconfiguredAfter
        /\ status = "ok" <=> wrong < Len(recent)
        /\ phase = "startup" => status = "pending"

\* The startup phase has time for as many attempts as prove a
\* misconfiguration, at the longest wait.  By default it has 15 minutes for 3
\* attempts, at most a minute apart and of at most 10 seconds.
Round == MaxBackoff + ProbeTime
DeadlineIsLong == (MisconfiguredAfter - 1) * Round + MaxBackoff < Deadline

\* As long as every answer was wrong, the startup phase has time left for all
\* the wrong answers that are missing.
TimeLeft == elapsed + (MisconfiguredAfter - 1 - wrong) * Round + MaxBackoff < Deadline

Explained ==
    /\ phase = "startup" /\ transient = "" => TimeLeft
    /\ phase # "off" /\ status = "unverified" => reason \in Unclear

-----------------------------------------------------------------------------
(* The history of verdicts. *)

LEMMA SmallerIs ==
    ASSUME NEW m \in Int, NEW n \in Int
    PROVE  /\ Smaller(m, n) \in {m, n}
           /\ Smaller(m, n) <= m /\ Smaller(m, n) <= n
BY DEF Smaller

\* The history after one more conclusive verdict.
LEMMA Remembered ==
    ASSUME NEW s \in Seq(Verdicts), NEW v \in Verdicts, NEW m \in Nat \ {0},
           Len(s) <= m
    PROVE  LET t == LastOf(Append(s, v), m)
               skip == IF Len(s) = m THEN 1 ELSE 0
           IN  /\ t \in Seq(Verdicts)
               /\ Len(t) = Len(s) + 1 - skip
               /\ t[Len(t)] = v
               /\ \A i \in 1 .. Len(s) - skip : t[i] = s[i + skip]
<1> DEFINE u == Append(s, v)
           n == Len(s)
           skip == IF n = m THEN 1 ELSE 0
           t == LastOf(u, m)
<1>1. /\ u \in Seq(Verdicts) /\ Len(u) = n + 1 /\ u[n + 1] = v
      /\ n \in Nat /\ \A i \in 1 .. n : u[i] = s[i]
    OBVIOUS
<1>2. t = SubSeq(u, skip + 1, n + 1)
    <2>1. CASE n = m
        <3>1. Len(u) > m /\ Len(u) - m + 1 = 2
            BY <1>1, <2>1
        <3> QED
            BY <1>1, <2>1, <3>1 DEF LastOf
    <2>2. CASE n < m
        BY <1>1, <2>2 DEF LastOf
    <2> QED
        BY <1>1, <2>1, <2>2
<1>3. skip \in {0, 1} /\ skip <= n
    BY <1>1
<1> HIDE DEF u, n, skip, t
<1>4. \A i \in (skip + 1) .. (n + 1) : u[i] \in Verdicts
    BY <1>1, <1>3
<1>5. /\ t \in Seq(Verdicts)
      /\ Len(t) = IF skip + 1 <= n + 1 THEN (n + 1) - (skip + 1) + 1 ELSE 0
      /\ \A i \in 1 .. (n + 1) - (skip + 1) + 1 : t[i] = u[(skip + 1) + i - 1]
    BY <1>1, <1>2, <1>3, <1>4, SubSeqProperties
<1>6. Len(t) = n + 1 - skip /\ \A i \in 1 .. n + 1 - skip : t[i] = u[i + skip]
    BY <1>1, <1>3, <1>5
<1>7. t[Len(t)] = v
    BY <1>1, <1>3, <1>6
<1>8. \A i \in 1 .. n - skip : t[i] = s[i + skip]
    BY <1>1, <1>3, <1>6
<1> QED
    BY <1>5, <1>6, <1>7, <1>8 DEF t, u, n, skip

LEMMA VerdictsAre ==
    ASSUME NEW a
    PROVE  /\ Verdict(a) \in Verdicts \cup {"unclear"}
           /\ Verdict(a) = "unclear" <=> a \in Unclear
BY DEF Verdict, Verdicts, Unclear

LEMMA AnswersAre ==
    ASSUME NEW b \in Backends
    PROVE  Answer(b) # ""
BY DEF Backends, Answer

\* What one answer makes of the status, the count and the history.
Taken(a) ==
    /\ wrong' = Observe(a).wrong
    /\ Remember(a)

\* The count after a conclusive verdict is again the run of wrong ones at the
\* end, and it says what the status is to be.
LEMMA CountsOn ==
    ASSUME TypeOK, Counted, NEW a, Taken(a)
    PROVE  /\ Counted'
           /\ wrong' \in 0 .. MisconfiguredAfter
           /\ recent' \in Seq(Verdicts) /\ Len(recent') <= MisconfiguredAfter
           /\ wrong' = MisconfiguredAfter <=>
                 IF Verdict(a) = "unclear" THEN wrong = MisconfiguredAfter
                 ELSE Verdict(a) = "wrong" /\ wrong + 1 >= MisconfiguredAfter
           /\ wrong' < Len(recent') <=>
                 IF Verdict(a) = "wrong"
                 THEN wrong < Len(recent) /\ wrong + 1 < MisconfiguredAfter
                 ELSE Verdict(a) = "right" \/ wrong < Len(recent)
<1> DEFINE m == MisconfiguredAfter
           n == Len(recent)
           k == Len(recent')
<1>0. /\ m \in Nat \ {0} /\ wrong \in 0 .. m
      /\ recent \in Seq(Verdicts) /\ n \in Nat /\ n <= m
    <2>1. m \in Nat \ {0}
        BY TimeAssumption
    <2>2. wrong \in 0 .. m /\ recent \in Seq(Verdicts) /\ n <= m
        BY DEF TypeOK
    <2>3. n \in Nat
        BY <2>2
    <2> QED
        BY <2>1, <2>2, <2>3
<1>1. CASE Verdict(a) = "unclear"
    <2>1. wrong' = wrong /\ recent' = recent
        BY <1>1 DEF Taken, Observe, Remember
    <2> QED
        BY <1>0, <1>1, <2>1 DEF Counted
<1>2. CASE Verdict(a) \in Verdicts
    <2> DEFINE skip == IF n = m THEN 1 ELSE 0
    <2>1. recent' = LastOf(Append(recent, Verdict(a)), m)
        BY <1>2 DEF Taken, Remember, Verdicts
    <2>2. /\ recent' \in Seq(Verdicts) /\ k = n + 1 - skip
          /\ recent'[k] = Verdict(a)
          /\ \A i \in 1 .. n - skip : recent'[i] = recent[i + skip]
        <3>1. LET t == LastOf(Append(recent, Verdict(a)), m)
              IN  /\ t \in Seq(Verdicts)
                  /\ Len(t) = n + 1 - skip
                  /\ t[Len(t)] = Verdict(a)
                  /\ \A i \in 1 .. n - skip : t[i] = recent[i + skip]
            BY <1>0, <1>2, Remembered
        <3> QED
            BY <2>1, <3>1
    <2>3. skip \in {0, 1} /\ (skip = 1 <=> n = m) /\ k \in Nat /\ k <= m
        BY <1>0, <2>2
    <2>4. CASE Verdict(a) = "right"
        <3>1. wrong' = 0
            BY <2>4 DEF Taken, Observe
        <3>2. Counted'
            BY <1>0, <2>2, <2>3, <2>4, <3>1 DEF Counted
        <3> QED
            BY <1>0, <2>2, <2>3, <2>4, <3>1, <3>2
    <2>5. CASE Verdict(a) = "wrong"
        <3>1. wrong' = IF wrong + 1 >= m THEN m ELSE wrong + 1
            BY <1>0, <2>5 DEF Taken, Observe, Count, Smaller
        <3>2. wrong <= n
            BY DEF Counted
        <3> HIDE DEF skip
        <3>3. wrong' <= k
            BY <1>0, <2>2, <2>3, <3>1, <3>2
        <3>4. ASSUME NEW i \in 1 .. k, i > k - wrong'
              PROVE  recent'[i] = "wrong"
            <4>1. CASE i = k
                BY <2>2, <2>5, <4>1
            <4>2. CASE i # k
                <5>1. i \in 1 .. n - skip /\ i + skip \in 1 .. n
                    BY <1>0, <2>2, <2>3, <4>2
                <5>2. i + skip > n - wrong
                    BY <1>0, <2>2, <2>3, <3>1, <3>2, <3>4, <4>2
                <5>3. recent[i + skip] = "wrong"
                    BY <1>0, <5>1, <5>2 DEF Counted
                <5> QED
                    BY <2>2, <5>1, <5>3
            <4> QED
                BY <4>1, <4>2
        <3>5. ASSUME wrong' < k
              PROVE  recent'[k - wrong'] = "right"
            <4>1. wrong' = wrong + 1 /\ wrong < n
                BY <1>0, <2>2, <2>3, <3>1, <3>2, <3>5
            <4>2. k - wrong' \in 1 .. n - skip /\ (k - wrong') + skip = n - wrong
                BY <1>0, <2>2, <2>3, <3>5, <4>1
            <4>3. recent[n - wrong] = "right"
                BY <4>1 DEF Counted
            <4> QED
                BY <2>2, <4>2, <4>3
        <3>6. Counted'
            BY <3>3, <3>4, <3>5 DEF Counted
        <3>7. wrong' \in 0 .. m /\ (wrong' = m <=> wrong + 1 >= m)
            BY <1>0, <3>1
        <3>8. wrong' < k <=> wrong < n /\ wrong + 1 < m
            BY <1>0, <2>2, <2>3, <3>1, <3>2
        <3> QED
            BY <2>2, <2>3, <2>5, <3>6, <3>7, <3>8
    <2> QED
        BY <1>2, <2>4, <2>5 DEF Verdicts
<1> QED
    BY <1>1, <1>2, VerdictsAre

-----------------------------------------------------------------------------
(* The attempts, one conjunct at a time. *)

LEMMA TypedTimes ==
    ASSUME TypeOK
    PROVE  /\ InitialBackoff \in Nat \ {0} /\ MaxBackoff \in Nat
           /\ Deadline \in Nat /\ ProbeTime \in Nat /\ MisconfiguredAfter \in Nat \ {0}
           /\ backoff \in Nat /\ InitialBackoff <= backoff /\ backoff <= MaxBackoff
           /\ elapsed \in Nat /\ elapsed <= Deadline
           /\ wrong \in Nat /\ wrong <= MisconfiguredAfter
<1>1. /\ InitialBackoff \in Nat \ {0} /\ MaxBackoff \in Nat
      /\ Deadline \in Nat /\ ProbeTime \in Nat /\ MisconfiguredAfter \in Nat \ {0}
    BY TimeAssumption
<1>2. backoff \in InitialBackoff .. MaxBackoff /\ elapsed \in 0 .. Deadline
      /\ wrong \in 0 .. MisconfiguredAfter
    BY DEF TypeOK
<1> QED
    BY <1>1, <1>2

LEMMA ObservedIs ==
    ASSUME TypeOK, NEW a
    PROVE  /\ Verdict(a) = "right" => Observe(a).status = "ok" /\ Observe(a).reason = ""
           /\ Verdict(a) = "wrong" /\ wrong + 1 >= MisconfiguredAfter =>
                 Observe(a).status = "misconfigured" /\ Observe(a).reason = a
           /\ Verdict(a) = "wrong" /\ wrong + 1 < MisconfiguredAfter =>
                 /\ Observe(a).status = status /\ Observe(a).reason = reason
                 /\ Observe(a).wrong = wrong + 1
           /\ Verdict(a) = "unclear" =>
                 /\ Observe(a).status = status /\ Observe(a).reason = reason
                 /\ Observe(a).wrong = wrong
<1>1. wrong + 1 >= MisconfiguredAfter <=> ~(wrong + 1 < MisconfiguredAfter)
    BY TypedTimes
<1>2. CASE Verdict(a) = "right"
    BY <1>2 DEF Observe
<1>3. CASE Verdict(a) = "wrong"
    BY <1>1, <1>3 DEF Observe
<1>4. CASE Verdict(a) \notin {"right", "wrong"}
    BY <1>4 DEF Observe
<1> QED
    BY <1>2, <1>3, <1>4

LEMMA ObservedCases ==
    ASSUME TypeOK, NEW a
    PROVE  Observe(a).status \in {"ok", "misconfigured", status}
<1>1. wrong + 1 >= MisconfiguredAfter \/ wrong + 1 < MisconfiguredAfter
    BY TypedTimes
<1>2. Verdict(a) \in {"right", "wrong", "unclear"}
    BY VerdictsAre DEF Verdicts
<1> QED
    BY <1>1, <1>2, ObservedIs

\* The next wait is a wait, and no shorter than the last one.
LEMMA NextWait ==
    ASSUME TypeOK
    PROVE  Smaller(2 * backoff, MaxBackoff) \in InitialBackoff .. MaxBackoff
<1>1. 2 * backoff \in Nat /\ 2 * backoff >= backoff
    BY TypedTimes
<1>2. /\ Smaller(2 * backoff, MaxBackoff) \in {2 * backoff, MaxBackoff}
      /\ Smaller(2 * backoff, MaxBackoff) <= MaxBackoff
    BY <1>1, TypedTimes, SmallerIs
<1>3. 2 * backoff >= InitialBackoff /\ MaxBackoff >= InitialBackoff
    BY <1>1, TypedTimes
<1> QED
    BY <1>1, <1>2, <1>3, TypedTimes

LEMMA ReasonsAre ==
    ASSUME NEW b \in Backends
    PROVE  /\ Answer(b) \in {Answer(c) : c \in Backends} \cup {""}
           /\ Unclear \subseteq {Answer(c) : c \in Backends} \cup {""}
<1>1. /\ Answer("overloaded") = "5xx" /\ Answer("unreachable") = "no answer"
      /\ Answer("older") = "registry 404"
    BY DEF Answer
<1>2. {"overloaded", "unreachable", "older"} \subseteq Backends
    BY DEF Backends
<1> QED
    BY <1>1, <1>2 DEF Unclear

\* An attempt reports one of the statuses, with a reason that is an answer.
LEMMA ObservedTypes ==
    ASSUME TypeOK, NEW b \in Backends
    PROVE  /\ Observe(Answer(b)).status \in Statuses
           /\ Observe(Answer(b)).reason \in {Answer(c) : c \in Backends} \cup {""}
<1>1. status \in Statuses /\ reason \in {Answer(c) : c \in Backends} \cup {""}
    BY DEF TypeOK
<1>2. Verdict(Answer(b)) \in {"right", "wrong", "unclear"}
    BY VerdictsAre DEF Verdicts
<1>3. wrong + 1 >= MisconfiguredAfter \/ wrong + 1 < MisconfiguredAfter
    BY TypedTimes
<1> DEFINE a == Answer(b)
<1>4. a \in {Answer(c) : c \in Backends} \cup {""}
    BY ReasonsAre
<1> HIDE DEF a
<1>5. /\ Observe(a).status \in {"ok", "misconfigured", status}
      /\ Observe(a).reason \in {"", a, reason}
    BY <1>2, <1>3, ObservedIs DEF a
<1>6. Observe(a).status \in Statuses
    BY <1>1, <1>5 DEF Statuses
<1>7. Observe(a).reason \in {Answer(c) : c \in Backends} \cup {""}
    BY <1>1, <1>4, <1>5
<1> QED
    BY <1>6, <1>7 DEF a

-----------------------------------------------------------------------------
(* Type correctness, together with the count. *)

LEMMA TypedFirst == Init => TypeOK /\ Counted
<1> SUFFICES ASSUME Init PROVE TypeOK /\ Counted
    OBVIOUS
<1>1. recent = <<>> /\ Len(recent) = 0 /\ wrong = 0
    BY DEF Init
<1>2. Counted
    BY <1>1 DEF Counted
<1>3. phase \in Phases /\ status \in Statuses
    BY DEF Init, Phases, Statuses
<1>4. backoff \in InitialBackoff .. MaxBackoff /\ elapsed \in 0 .. Deadline
    <2>1. backoff = InitialBackoff /\ elapsed = 0
        BY DEF Init
    <2> QED
        BY <2>1, TimeAssumption
<1>5. /\ reason \in {Answer(b) : b \in Backends} \cup {""}
      /\ transient \in Unclear \cup {""}
      /\ backends \in (SUBSET Reachable) \ {{}}
    BY DEF Init
<1>6. wrong \in 0 .. MisconfiguredAfter /\ Len(recent) <= MisconfiguredAfter
    BY <1>1, TimeAssumption
<1>7. recent \in Seq(Verdicts)
    BY <1>1
<1> QED
    BY <1>2, <1>3, <1>4, <1>5, <1>6, <1>7 DEF TypeOK

LEMMA StartupTyped ==
    ASSUME TypeOK, Counted, StartupProbe
    PROVE  TypeOK' /\ Counted'
<1>1. PICK b \in backends, d \in 0 .. ProbeTime :
          LET a == Answer(b)
              seen == Observe(a)
          IN  /\ transient' = IF Verdict(a) = "unclear" THEN a ELSE transient
              /\ wrong' = seen.wrong
              /\ Remember(a)
              /\ Settle(seen) \/ WaitOrGiveUp(seen, elapsed + backoff + d)
    BY DEF StartupProbe
<1>2. b \in Backends /\ d \in Nat
    <2>1. backends \subseteq Backends
        BY ReachableAssumption DEF TypeOK
    <2> QED
        BY <2>1, TypedTimes
<1> DEFINE a == Answer(b)
<1>3. Taken(a)
    BY <1>1 DEF Taken
<1>4. /\ Counted' /\ wrong' \in 0 .. MisconfiguredAfter
      /\ recent' \in Seq(Verdicts) /\ Len(recent') <= MisconfiguredAfter
    BY <1>3, CountsOn
<1>5. transient' \in Unclear \cup {""}
    BY <1>1, VerdictsAre DEF TypeOK
<1>6. backends' \in (SUBSET Reachable) \ {{}}
    BY DEF StartupProbe, TypeOK
<1>7. /\ phase' \in Phases /\ status' \in Statuses
      /\ reason' \in {Answer(c) : c \in Backends} \cup {""}
      /\ backoff' \in InitialBackoff .. MaxBackoff /\ elapsed' \in 0 .. Deadline
    <2>1. /\ Observe(a).status \in Statuses
          /\ Observe(a).reason \in {Answer(c) : c \in Backends} \cup {""}
        BY <1>2, ObservedTypes
    <2>2. transient' \in {Answer(c) : c \in Backends} \cup {""}
        BY <1>2, <1>5, ReasonsAre
    <2>3. /\ backoff \in InitialBackoff .. MaxBackoff /\ elapsed \in 0 .. Deadline
          /\ phase \in Phases
        BY DEF TypeOK
    <2>4. CASE Settle(Observe(a))
        BY <2>1, <2>3, <2>4 DEF Settle, Phases
    <2>5. CASE WaitOrGiveUp(Observe(a), elapsed + backoff + d)
        <3>1. backoff' \in InitialBackoff .. MaxBackoff
            BY <2>5, NextWait DEF WaitOrGiveUp
        <3>2. elapsed' \in 0 .. Deadline
            <4>1. CASE elapsed' = Deadline
                BY <4>1, TypedTimes
            <4>2. CASE elapsed' = elapsed + backoff + d /\ elapsed' + backoff' < Deadline
                BY <1>2, <3>1, <4>2, TypedTimes
            <4> QED
                BY <2>5, <4>1, <4>2 DEF WaitOrGiveUp
        <3>3. phase' \in {phase, "steady"} /\ status' \in {Observe(a).status, "unverified"}
            BY <2>5 DEF WaitOrGiveUp
        <3>4. reason' \in {Observe(a).reason, transient'}
            BY <2>5 DEF WaitOrGiveUp
        <3>5. phase' \in Phases /\ status' \in Statuses
            BY <2>1, <2>3, <3>3 DEF Phases, Statuses
        <3>6. reason' \in {Answer(c) : c \in Backends} \cup {""}
            BY <2>1, <2>2, <3>4
        <3> QED
            BY <3>1, <3>2, <3>5, <3>6
    <2> QED
        BY <1>1, <2>4, <2>5
<1> QED
    BY <1>4, <1>5, <1>6, <1>7 DEF TypeOK

LEMMA SteadyTyped ==
    ASSUME TypeOK, Counted, SteadyProbe
    PROVE  TypeOK' /\ Counted'
<1>1. PICK b \in backends :
          LET seen == Observe(Answer(b))
          IN  /\ status' = seen.status
              /\ reason' = seen.reason
              /\ wrong' = seen.wrong
              /\ Remember(Answer(b))
    BY DEF SteadyProbe
<1>2. b \in Backends
    BY ReachableAssumption DEF TypeOK
<1>3. Taken(Answer(b))
    BY <1>1 DEF Taken
<1>4. /\ Counted' /\ wrong' \in 0 .. MisconfiguredAfter
      /\ recent' \in Seq(Verdicts) /\ Len(recent') <= MisconfiguredAfter
    BY <1>3, CountsOn
<1>5. /\ status' \in Statuses
      /\ reason' \in {Answer(c) : c \in Backends} \cup {""}
    BY <1>1, <1>2, ObservedTypes
<1>6. UNCHANGED <<phase, backoff, elapsed, transient, backends>>
    BY DEF SteadyProbe
<1>7. /\ phase' \in Phases /\ backoff' \in InitialBackoff .. MaxBackoff
      /\ elapsed' \in 0 .. Deadline /\ transient' \in Unclear \cup {""}
      /\ backends' \in (SUBSET Reachable) \ {{}}
    BY <1>6 DEF TypeOK
<1> QED
    BY <1>4, <1>5, <1>7 DEF TypeOK

\* Nothing but an attempt touches the status and the count.
LEMMA OthersTyped ==
    ASSUME TypeOK, Counted, Stop \/ Reroute \/ UNCHANGED vars
    PROVE  TypeOK' /\ Counted'
<1>1. UNCHANGED <<backoff, elapsed, status, reason, transient, wrong, recent>>
    BY DEF Stop, Reroute, vars
<1>2. phase' \in {phase, "stopped"}
    BY DEF Stop, Reroute, vars
<1>3. backends' \in (SUBSET Reachable) \ {{}}
    BY DEF Stop, Reroute, vars, TypeOK
<1>4. Counted'
    BY <1>1 DEF Counted
<1>5. phase' \in Phases
    BY <1>2 DEF TypeOK, Phases
<1> QED
    BY <1>1, <1>3, <1>4, <1>5 DEF TypeOK

LEMMA TypedOn == TypeOK /\ Counted /\ [Next]_vars => TypeOK' /\ Counted'
BY StartupTyped, SteadyTyped, OthersTyped DEF Next, Probe

\* Every state of the check has its type: the wait stays within its cap, the
\* time within the deadline, and the count within the threshold.
THEOREM CDNTypes == Spec => []TypeOK
<1>1. Spec => [](TypeOK /\ Counted)
    BY TypedFirst, TypedOn, PTL DEF Spec
<1> QED
    BY <1>1, PTL

-----------------------------------------------------------------------------
(* The status follows the count.                                            *)

Known == TypeOK /\ Counted /\ Reported

LEMMA KnownFirst == Init => Known
<1> SUFFICES ASSUME Init PROVE Reported
    BY TypedFirst DEF Known
<1>1. /\ phase \in {"startup", "off"} /\ wrong = 0 /\ Len(recent) = 0
      /\ status = IF phase = "off" THEN "disabled" ELSE "pending"
    BY DEF Init
<1>2. wrong # MisconfiguredAfter
    BY <1>1, TimeAssumption
<1> QED
    BY <1>1, <1>2 DEF Reported

\* A running check is not yet settled as long as it is in the startup phase.
LEMMA SettlesOn ==
    ASSUME TypeOK, Counted, Reported, phase # "off", NEW a, Taken(a)
    PROVE  /\ Observe(a).status # "disabled"
           /\ Observe(a).status = "misconfigured" <=> wrong' = MisconfiguredAfter
           /\ Observe(a).status = "ok" <=> wrong' < Len(recent')
<1>1. /\ status # "disabled"
      /\ status = "misconfigured" <=> wrong = MisconfiguredAfter
      /\ status = "ok" <=> wrong < Len(recent)
    BY DEF Reported
<1>2. /\ wrong' = MisconfiguredAfter <=>
            IF Verdict(a) = "unclear" THEN wrong = MisconfiguredAfter
            ELSE Verdict(a) = "wrong" /\ wrong + 1 >= MisconfiguredAfter
      /\ wrong' < Len(recent') <=>
            IF Verdict(a) = "wrong"
            THEN wrong < Len(recent) /\ wrong + 1 < MisconfiguredAfter
            ELSE Verdict(a) = "right" \/ wrong < Len(recent)
    BY CountsOn
<1>3. /\ wrong + 1 >= MisconfiguredAfter <=> ~(wrong + 1 < MisconfiguredAfter)
      /\ wrong = MisconfiguredAfter => wrong + 1 >= MisconfiguredAfter
    BY TypedTimes
<1>4. CASE Verdict(a) = "right"
    BY <1>2, <1>4, ObservedIs
<1>5. CASE Verdict(a) = "unclear"
    BY <1>1, <1>2, <1>5, ObservedIs
<1>6. CASE Verdict(a) = "wrong" /\ wrong + 1 >= MisconfiguredAfter
    BY <1>2, <1>3, <1>6, ObservedIs
<1>7. CASE Verdict(a) = "wrong" /\ wrong + 1 < MisconfiguredAfter
    BY <1>1, <1>2, <1>3, <1>7, ObservedIs
<1> QED
    BY <1>3, <1>4, <1>5, <1>6, <1>7, VerdictsAre DEF Verdicts

LEMMA StartupReports ==
    ASSUME Known, StartupProbe
    PROVE  Reported'
<1>1. PICK b \in backends, d \in 0 .. ProbeTime :
          LET a == Answer(b)
              seen == Observe(a)
          IN  /\ wrong' = seen.wrong
              /\ Remember(a)
              /\ Settle(seen) \/ WaitOrGiveUp(seen, elapsed + backoff + d)
    BY DEF StartupProbe
<1> DEFINE a == Answer(b)
<1>2. /\ TypeOK /\ Counted /\ Reported
      /\ phase = "startup"
    BY DEF Known, StartupProbe
<1>3. Taken(a) /\ phase # "off"
    BY <1>1, <1>2 DEF Taken
<1> HIDE DEF a
<1>4. /\ Observe(a).status # "disabled"
      /\ Observe(a).status = "misconfigured" <=> wrong' = MisconfiguredAfter
      /\ Observe(a).status = "ok" <=> wrong' < Len(recent')
    BY <1>2, <1>3, SettlesOn
<1>5. CASE Settle(Observe(a))
    <2>1. status' = Observe(a).status /\ phase' = "steady"
        BY <1>5 DEF Settle
    <2> QED
        BY <1>4, <2>1 DEF Reported
<1>6. CASE WaitOrGiveUp(Observe(a), elapsed + backoff + d)
    <2>1. /\ Observe(a).status \notin {"ok", "misconfigured"}
          /\ \/ status' = Observe(a).status /\ phase' = phase
             \/ status' = "unverified" /\ phase' = "steady"
        BY <1>6 DEF WaitOrGiveUp
    <2>2. status = "pending"
        BY <1>2 DEF Reported
    <2>3. Observe(a).status = "pending"
        <3>1. Observe(a).status \in {"ok", "misconfigured", status}
            BY <1>2, ObservedCases
        <3> QED
            BY <2>1, <2>2, <3>1
    <2> QED
        BY <1>2, <1>4, <2>1, <2>3 DEF Reported
<1> QED
    BY <1>1, <1>5, <1>6 DEF a

LEMMA KnownOn == Known /\ [Next]_vars => Known'
<1> SUFFICES ASSUME Known, [Next]_vars PROVE Reported'
    BY TypedOn DEF Known
<1>1. TypeOK /\ Counted /\ Reported
    BY DEF Known
<1>2. CASE StartupProbe
    BY <1>2, StartupReports
<1>3. CASE SteadyProbe
    <2>1. PICK b \in backends :
              LET seen == Observe(Answer(b))
              IN  /\ status' = seen.status
                  /\ wrong' = seen.wrong
                  /\ Remember(Answer(b))
        BY <1>3 DEF SteadyProbe
    <2>2. phase = "steady" /\ phase' = "steady"
        BY <1>3 DEF SteadyProbe
    <2>3. Taken(Answer(b))
        BY <2>1 DEF Taken
    <2>4. /\ Observe(Answer(b)).status # "disabled"
          /\ Observe(Answer(b)).status = "misconfigured" <=> wrong' = MisconfiguredAfter
          /\ Observe(Answer(b)).status = "ok" <=> wrong' < Len(recent')
        BY <1>1, <2>2, <2>3, SettlesOn
    <2> QED
        BY <2>1, <2>2, <2>4 DEF Reported
<1>4. CASE Stop \/ Reroute \/ UNCHANGED vars
    <2>1. UNCHANGED <<status, wrong, recent>>
        BY <1>4 DEF Stop, Reroute, vars
    <2>2. phase' = phase \/ (phase # "off" /\ phase' = "stopped")
        BY <1>4 DEF Stop, Reroute, vars
    <2> QED
        BY <1>1, <2>1, <2>2 DEF Reported
<1> QED
    BY <1>2, <1>3, <1>4 DEF Next, Probe

-----------------------------------------------------------------------------
(* Giving up: there was an inconclusive answer.                             *)

\* An attempt that is not settled leaves time for the attempts still missing.
LEMMA TimeGoesBy ==
    ASSUME NEW m \in Nat, NEW w \in Nat, NEW r \in Nat, NEW e \in Nat, NEW f \in Nat,
           NEW x \in Nat, NEW d \in Nat,
           w + 1 < m, f <= e + r, e + (m - 1 - w) * r + x < d
    PROVE  /\ f + (m - 1 - (w + 1)) * r + x < d
           /\ f + x < d
<1> DEFINE left == m - 1 - (w + 1)
<1>1. left \in Nat /\ m - 1 - w = left + 1
    OBVIOUS
<1>2. (left + 1) * r = left * r + r /\ left * r \in Nat
    BY <1>1
<1> HIDE DEF left
<1>3. e + (left * r + r) + x < d
    BY <1>1, <1>2
<1> QED
    BY <1>2, <1>3 DEF left

LEMMA StartupExplains ==
    ASSUME Known, Explained, StartupProbe
    PROVE  Explained'
<1>0. TypeOK /\ Counted /\ Reported'
    BY StartupReports DEF Known
<1>1. PICK b \in backends, d \in 0 .. ProbeTime :
          LET a == Answer(b)
              seen == Observe(a)
          IN  /\ transient' = IF Verdict(a) = "unclear" THEN a ELSE transient
              /\ wrong' = seen.wrong
              /\ Remember(a)
              /\ Settle(seen) \/ WaitOrGiveUp(seen, elapsed + backoff + d)
    BY DEF StartupProbe
<1> DEFINE a == Answer(b)
           now == elapsed + backoff + d
<1>2. now \in Nat /\ Round \in Nat /\ now <= elapsed + Round
    BY <1>0, TypedTimes DEF Round
<1>3. phase = "startup"
    BY DEF StartupProbe
<1>4. Verdict(a) \in {"right", "wrong", "unclear"}
    BY VerdictsAre DEF Verdicts
<1>5. transient' = "" => transient = "" /\ Verdict(a) # "unclear"
    BY <1>1, VerdictsAre DEF Unclear
<1>6. transient' \in Unclear \cup {""}
    BY <1>0, <1>1, VerdictsAre DEF TypeOK
<1> HIDE DEF a, now
<1>7. CASE Settle(Observe(a))
    BY <1>7 DEF Settle, Explained
<1>8. CASE WaitOrGiveUp(Observe(a), now)
    <2> DEFINE next == Smaller(2 * backoff, MaxBackoff)
    <2>1. /\ Observe(a).status \notin {"ok", "misconfigured"}
          /\ \/ /\ now + next < Deadline /\ elapsed' = now
                /\ phase' = phase /\ status' = Observe(a).status
             \/ /\ now + next >= Deadline /\ phase' = "steady"
                /\ status' = "unverified" /\ reason' = transient'
        BY <1>8 DEF WaitOrGiveUp
    <2>2. next \in Nat /\ next <= MaxBackoff
        BY <1>0, NextWait, TypedTimes
    <2> HIDE DEF next
    <2>3. ASSUME transient' = ""
          PROVE  /\ now + (MisconfiguredAfter - 1 - wrong') * Round + MaxBackoff < Deadline
                 /\ now + next < Deadline
        <3>1. TimeLeft
            BY <1>3, <1>5, <2>3 DEF Explained
        <3>2. Verdict(a) = "wrong" /\ wrong + 1 < MisconfiguredAfter
            <4>1. Verdict(a) # "unclear"
                BY <1>5, <2>3
            <4>2. Verdict(a) # "right"
                BY <2>1, <1>0, ObservedIs
            <4>3. Verdict(a) = "wrong"
                BY <1>4, <4>1, <4>2
            <4>4. ~(wrong + 1 >= MisconfiguredAfter)
                BY <2>1, <4>3, <1>0, ObservedIs
            <4> QED
                BY <4>3, <4>4, <1>0, TypedTimes
        <3>3. wrong' = wrong + 1
            BY <1>1, <3>2, <1>0, ObservedIs DEF a
        <3>4. /\ now + (MisconfiguredAfter - 1 - (wrong + 1)) * Round + MaxBackoff < Deadline
              /\ now + MaxBackoff < Deadline
            BY <1>2, <3>1, <3>2, <1>0, TypedTimes, TimeGoesBy DEF TimeLeft
        <3>5. now + next < Deadline
            BY <1>2, <2>2, <3>4, <1>0, TypedTimes
        <3> QED
            BY <3>3, <3>4, <3>5
    <2>4. ASSUME phase' = "startup", transient' = ""
          PROVE  TimeLeft'
        <3>1. elapsed' = now
            BY <2>1, <2>4
        <3> QED
            BY <2>3, <2>4, <3>1 DEF TimeLeft, Round
    <2>5. ASSUME status' = "unverified", phase' # "startup"
          PROVE  reason' \in Unclear
        <3>1. now + next >= Deadline /\ reason' = transient'
            BY <1>3, <2>1, <2>5
        <3>2. ~(now + next < Deadline)
            BY <1>2, <2>2, <3>1, <1>0, TypedTimes
        <3> QED
            BY <1>6, <2>3, <3>1, <3>2
    <2> QED
        BY <1>0, <2>4, <2>5 DEF Explained, Reported
<1> QED
    BY <1>1, <1>7, <1>8 DEF a, now

LEMMA ExplainedOn == Known /\ Explained /\ [Next]_vars => Explained'
<1> SUFFICES ASSUME Known, Explained, [Next]_vars PROVE Explained'
    OBVIOUS
<1>1. CASE StartupProbe
    BY <1>1, StartupExplains
<1>2. CASE SteadyProbe
    <2>1. PICK b \in backends : status' = Observe(Answer(b)).status
                                /\ reason' = Observe(Answer(b)).reason
        BY <1>2 DEF SteadyProbe
    <2>2. phase = "steady" /\ phase' = "steady"
        BY <1>2 DEF SteadyProbe
    <2>3. status' = "unverified" => status = "unverified" /\ reason' = reason
        <3>1. wrong + 1 >= MisconfiguredAfter \/ wrong + 1 < MisconfiguredAfter
            BY TypedTimes DEF Known
        <3>2. Verdict(Answer(b)) \in {"right", "wrong", "unclear"}
            BY VerdictsAre DEF Verdicts
        <3> QED
            BY <2>1, <3>1, <3>2, ObservedIs DEF Known
    <2> QED
        BY <2>2, <2>3 DEF Explained
<1>3. CASE Stop \/ Reroute \/ UNCHANGED vars
    <2>1. UNCHANGED <<elapsed, status, reason, transient, wrong>>
        BY <1>3 DEF Stop, Reroute, vars
    <2>2. phase' = phase \/ (phase # "off" /\ phase' = "stopped")
        BY <1>3 DEF Stop, Reroute, vars
    <2>3. TimeLeft' = TimeLeft
        BY <2>1 DEF TimeLeft, Round
    <2> QED
        BY <2>1, <2>2, <2>3 DEF Explained
<1> QED
    BY <1>1, <1>2, <1>3 DEF Next, Probe

LEMMA ExplainedFirst == ASSUME DeadlineIsLong PROVE Init => Explained
<1> SUFFICES ASSUME Init PROVE Explained
    OBVIOUS
<1>1. elapsed = 0 /\ wrong = 0 /\ status # "unverified"
    BY DEF Init
<1>2. MisconfiguredAfter - 1 - wrong = MisconfiguredAfter - 1
    BY <1>1, TimeAssumption
<1>3. (MisconfiguredAfter - 1) * Round \in Nat /\ MaxBackoff \in Nat /\ Deadline \in Nat
    BY TimeAssumption DEF Round
<1>4. TimeLeft
    BY <1>1, <1>2, <1>3 DEF TimeLeft, DeadlineIsLong
<1> QED
    BY <1>1, <1>4 DEF Explained

LEMMA KnownSaysAll == Known /\ Explained => StatusFollowsAnswers
<1> SUFFICES ASSUME Known, Explained, phase # "off"
             PROVE  /\ status = "ok" <=> \E i \in DOMAIN recent : recent[i] = "right"
                    /\ status = "misconfigured" <=>
                          DOMAIN recent = WrongOnes /\ Len(recent) = MisconfiguredAfter
                    /\ status = "unverified" => reason \in Unclear
    BY DEF StatusFollowsAnswers
<1> DEFINE m == MisconfiguredAfter
           n == Len(recent)
<1>1. recent \in Seq(Verdicts) /\ n <= m
    BY DEF Known, TypeOK
<1>2. n \in Nat /\ DOMAIN recent = 1 .. n
    BY <1>1
<1>3. m \in Nat \ {0} /\ wrong \in Nat /\ wrong <= n
    BY TypedTimes DEF Known, Counted
<1>4. wrong < n => n - wrong \in 1 .. n /\ recent[n - wrong] = "right"
    BY <1>2, <1>3 DEF Known, Counted
<1>5. wrong = n => \A i \in 1 .. n : recent[i] = "wrong"
    BY <1>2, <1>3 DEF Known, Counted
<1>6. /\ status = "misconfigured" <=> wrong = m
      /\ status = "ok" <=> wrong < n
    BY DEF Known, Reported
<1> HIDE DEF n, m
<1>7. wrong < n \/ wrong = n
    <2>1. n \in Nat
        BY <1>2
    <2> QED
        BY <1>3, <2>1
<1>8. status = "ok" <=> \E i \in DOMAIN recent : recent[i] = "right"
    <2>1. CASE wrong < n
        BY <1>2, <1>4, <1>6, <2>1
    <2>2. CASE wrong = n
        BY <1>2, <1>3, <1>5, <1>6, <2>2
    <2> QED
        BY <1>7, <2>1, <2>2
<1>9. status = "misconfigured" <=> DOMAIN recent = WrongOnes /\ n = m
    <2>1. ASSUME wrong = m PROVE DOMAIN recent = WrongOnes /\ n = m
        <3>1. n = m /\ wrong = n
            BY <1>1, <1>2, <1>3, <2>1
        <3> QED
            BY <1>2, <1>5, <3>1 DEF WrongOnes
    <2>2. ASSUME DOMAIN recent = WrongOnes, n = m PROVE wrong = m
        <3>1. \A i \in 1 .. n : recent[i] = "wrong"
            BY <1>2, <2>2 DEF WrongOnes
        <3>2. ~(wrong < n)
            BY <1>4, <3>1
        <3> QED
            BY <1>7, <2>2, <3>2
    <2> QED
        BY <1>6, <2>1, <2>2
<1>10. status = "unverified" => reason \in Unclear
    BY DEF Explained
<1> QED
    BY <1>8, <1>9, <1>10 DEF n, m

\* With a deadline that leaves time to prove a misconfiguration, the status of a
\* check that was not disabled is the one its conclusive answers ask for, and a
\* check that gave up reports an inconclusive answer it got.
THEOREM StatusIsOfAnswers ==
    ASSUME DeadlineIsLong
    PROVE  Spec => []StatusFollowsAnswers
<1>1. Init => Known /\ Explained
    BY KnownFirst, ExplainedFirst
<1>2. Known /\ Explained /\ [Next]_vars => (Known /\ Explained)'
    BY KnownOn, ExplainedOn
<1>3. Known /\ Explained => StatusFollowsAnswers
    BY KnownSaysAll
<1> QED
    BY <1>1, <1>2, <1>3, PTL DEF Spec

-----------------------------------------------------------------------------
(* A rolling update. *)

Quiet == wrong = 0 /\ status # "misconfigured"

LEMMA UpdatingAnswers ==
    ASSUME Updating, NEW b \in backends
    PROVE  Verdict(Answer(b)) \in {"right", "unclear"}
<1>1. b \in {"replica", "older", "overloaded", "unreachable"}
    BY DEF Updating
<1>2. Answer(b) \in {"echo", "registry 404", "5xx", "no answer"}
    BY <1>1 DEF Answer
<1> QED
    BY <1>2 DEF Verdict, Unclear

LEMMA QuietAnswer ==
    ASSUME Updating, Quiet, NEW b \in backends
    PROVE  /\ Observe(Answer(b)).wrong = 0
           /\ Observe(Answer(b)).status # "misconfigured"
<1>1. CASE Verdict(Answer(b)) = "right"
    BY <1>1 DEF Observe
<1>2. CASE Verdict(Answer(b)) = "unclear"
    BY <1>2 DEF Observe, Quiet
<1> QED
    BY <1>1, <1>2, UpdatingAnswers

LEMMA QuietOn == Updating /\ Quiet /\ [Next]_vars => Quiet'
<1> SUFFICES ASSUME Updating, Quiet, [Next]_vars PROVE Quiet'
    OBVIOUS
<1>1. CASE StartupProbe
    <2>1. PICK b \in backends, d \in 0 .. ProbeTime :
              LET seen == Observe(Answer(b))
              IN  /\ wrong' = seen.wrong
                  /\ Settle(seen) \/ WaitOrGiveUp(seen, elapsed + backoff + d)
        BY <1>1 DEF StartupProbe
    <2>2. status' \in {Observe(Answer(b)).status, "unverified"}
        BY <2>1 DEF Settle, WaitOrGiveUp
    <2> QED
        BY <2>1, <2>2, QuietAnswer DEF Quiet
<1>2. CASE SteadyProbe
    BY <1>2, QuietAnswer DEF SteadyProbe, Quiet
<1>3. CASE Stop \/ Reroute \/ UNCHANGED vars
    BY <1>3 DEF Stop, Reroute, vars, Quiet
<1> QED
    BY <1>1, <1>2, <1>3 DEF Next, Probe

\* As long as CDN_BASE_URL reaches replicas of this registry only, older,
\* overloaded or unreachable ones among them, no misconfiguration is reported.
THEOREM UpdatesAreQuiet == Spec => UpdatesAreNotMisconfigurations
<1>1. Init => Quiet
    BY DEF Init, Quiet
<1>2. Quiet => status # "misconfigured"
    BY DEF Quiet
<1> QED
    BY <1>1, <1>2, QuietOn, PTL DEF Spec, UpdatesAreNotMisconfigurations

=============================================================================
