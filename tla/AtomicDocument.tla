---------------------------- MODULE AtomicDocument ----------------------------
(***************************************************************************)
(* What storage.WriteWithRetry promises the services that keep a JSON       *)
(* document in the object store: the document is changed by whole updates,  *)
(* one at a time, each applied to the document as it is at that moment.     *)
(*                                                                         *)
(*   - an update that was answered with success took effect, once;          *)
(*   - one that was refused, or gave up after conflicts, did not, and the   *)
(*     refusal was right at some moment while the request ran;              *)
(*   - one that failed otherwise, or whose process crashed, took effect at  *)
(*     most once, whole.                                                    *)
(***************************************************************************)
CONSTANTS
    Requests,        \* requests that update the document
    Calls,           \* what they may ask for
    Initial,         \* the document before the first update
    Refusal(_, _),   \* why a call refuses a document, "" when it does not
    Result(_, _, _)  \* what a call, with the request's identity, makes of it

VARIABLES
    doc,       \* the document
    asked,     \* what each request asks for, a set of at most one call
    verdict,   \* "performed", or the refusal the document once justified
    answered   \* the answer of each request, "" before

vars == <<doc, asked, verdict, answered>>

Init ==
    /\ doc = Initial
    /\ asked = [r \in Requests |-> {}]
    /\ verdict = [r \in Requests |-> ""]
    /\ answered = [r \in Requests |-> ""]

Running(r) == asked[r] # {} /\ answered[r] = ""

\* What is left of a verdict once the request has ended.
Kept(r) == IF verdict[r] = "performed" THEN "performed" ELSE ""

Ask(r, c) ==
    /\ asked[r] = {}
    /\ asked' = [asked EXCEPT ![r] = {c}]
    /\ UNCHANGED <<doc, verdict, answered>>

\* The document, as it is now, is weighed.
Judge(r) ==
    /\ Running(r) /\ verdict[r] # "performed"
    /\ \E c \in asked[r] : verdict' = [verdict EXCEPT ![r] = Refusal(c, doc)]
    /\ UNCHANGED <<doc, asked, answered>>

\* The update takes effect on the document as it is now.
Perform(r) ==
    /\ Running(r) /\ verdict[r] # "performed"
    /\ \E c \in asked[r] : Refusal(c, doc) = "" /\ doc' = Result(c, r, doc)
    /\ verdict' = [verdict EXCEPT ![r] = "performed"]
    /\ UNCHANGED <<asked, answered>>

Answer(r, code) ==
    /\ Running(r)
    /\ CASE code = "ok"                        -> verdict[r] = "performed"
         [] code = "storageConflict"           -> verdict[r] # "performed"
         [] code \in {"unavailable", "lost"}   -> TRUE
         [] OTHER                              -> verdict[r] = code
    /\ answered' = [answered EXCEPT ![r] = code]
    /\ verdict' = [verdict EXCEPT ![r] = Kept(r)]
    /\ UNCHANGED <<doc, asked>>

\* The same with its answer, when the caller sees no moment between them.
PerformAndAnswer(r, code) ==
    /\ Running(r) /\ verdict[r] # "performed"
    /\ \E c \in asked[r] : Refusal(c, doc) = "" /\ doc' = Result(c, r, doc)
    /\ verdict' = [verdict EXCEPT ![r] = "performed"]
    /\ answered' = [answered EXCEPT ![r] = code]
    /\ UNCHANGED asked

\* A crash ends every request that is running.
Crash ==
    /\ answered' = [r \in Requests |-> IF Running(r) THEN "lost" ELSE answered[r]]
    /\ verdict' = [r \in Requests |-> Kept(r)]
    /\ UNCHANGED <<doc, asked>>

Codes == {"ok", "storageConflict", "unavailable", "lost", "conflict",
          "notFound", "internalError"}

Next ==
    \/ \E r \in Requests :
          \/ \E c \in Calls : Ask(r, c)
          \/ Judge(r) \/ Perform(r)
          \/ \E code \in Codes : Answer(r, code)
          \/ \E code \in {"ok", "unavailable"} : PerformAndAnswer(r, code)
    \/ Crash

Spec == Init /\ [][Next]_vars

=============================================================================
