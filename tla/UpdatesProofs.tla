----------------------------- MODULE UpdatesProofs -----------------------------
(***************************************************************************)
(* Registry changes its plugin states as AtomicDocument says, proved for    *)
(* every set of plugins, versions, jars, requests and calls, with all the   *)
(* faults and with the cleanup.                                             *)
(*                                                                         *)
(* A request that is told by its document to go on, and finds the           *)
(* generation unchanged, holds the stored document (Snapshot); so its write *)
(* is the update of the abstract document as it is at that moment.          *)
(***************************************************************************)
EXTENDS Updates, RegistryProofs

-----------------------------------------------------------------------------
(* The inductive invariant. *)

BeforeUpdate == {"idle", "check", "probe", "jar", "manifest", "notes"}

\* The record of a request, by where it is.
Tracked(r) ==
    /\ call[r] \in Calls
    /\ pc[r] \in BeforeUpdate => asked[r] = {} /\ verdict[r] = "" /\ answered[r] = ""
    /\ InWriteWithRetry(r) =>
          asked[r] = {call[r]} /\ verdict[r] # "performed" /\ answered[r] = ""
    /\ pc[r] = "update" => verdict[r] = Refusal(call[r], mem[r].seen)
    /\ (pc[r] \in AfterUpdate \/ reply[r] = "ok") /\ call[r].op # "rebuild" =>
          asked[r] = {call[r]} /\ verdict[r] = "performed" /\ answered[r] = "ok"

RecordType ==
    /\ asked = [r \in Requests |-> asked[r]]
    /\ verdict = [r \in Requests |-> verdict[r]]
    /\ answered = [r \in Requests |-> answered[r]]

Recorded == RecordType /\ \A r \in Requests : Tracked(r)

Sound == TypeOK /\ Snapshot /\ Kept

-----------------------------------------------------------------------------
(* How a request moves past WriteWithRetry. *)

LEMMA StepsAround ==
    ASSUME TypeOK, NEW r \in Requests, Acts(r)
    PROVE  \/ \E c \in Calls : Start(r, c)
           \/ Load(r) \/ Update(r)
           \/ pc[r] = "update" /\ Commit(r) /\ End(r, "unavailable")
           \/ /\ InWriteWithRetry(r) /\ UNCHANGED plugin
              /\ \E code \in {"lost", "unavailable"} : End(r, code)
           \/ /\ pc[r] \in BeforeUpdate \ {"idle"} /\ UNCHANGED <<plugin, call>>
              /\ pc'[r] \in (BeforeUpdate \ {"idle"}) \cup {"load", "done"}
           \/ /\ pc[r] \in AfterUpdate /\ UNCHANGED <<plugin, call>>
              /\ pc'[r] \in AfterUpdate \cup {"done"}
<1>0. pc \in [Requests -> Pcs]
    BY DEF TypeOK
<1>a. CASE \E c \in Calls : Start(r, c)
    BY <1>a
<1>b. CASE Lost(r) \/ Refused(r)
    <2>1. r \in Active /\ UNCHANGED <<plugin, call>> /\ pc'[r] = "done"
        BY <1>0, <1>b DEF Lost, Refused, End
    <2>2. InWriteWithRetry(r) => \E code \in {"lost", "unavailable"} : End(r, code)
        BY <1>b DEF Lost, Refused, InWriteWithRetry
    <2>3. \/ InWriteWithRetry(r) \/ pc[r] \in BeforeUpdate \ {"idle"} \/ pc[r] \in AfterUpdate
        BY <1>0, <2>1 DEF Active, Pcs, InWriteWithRetry, BeforeUpdate, AfterUpdate
    <2> QED
        BY <2>1, <2>2, <2>3
<1>c. CASE Dropped(r)
    <2>1. UNCHANGED <<plugin, call>>
        BY <1>c DEF Dropped
    <2>2. \/ pc[r] = "probe" /\ pc'[r] = "jar"
          \/ pc[r] = "purge" /\ pc'[r] = "list"
          \/ pc[r] = "delete" /\ pc'[r] = "delete"
          \/ pc[r] = "row" /\ pc'[r] = "row"
          \/ pc[r] = "row manifest" /\ pc'[r] = "row"
        BY <1>0, <1>c DEF Dropped
    <2> QED
        BY <2>1, <2>2 DEF BeforeUpdate, AfterUpdate
<1>d. CASE Late(r)
    <2>1. UNCHANGED call /\ pc'[r] = "done"
        BY <1>0, <1>d DEF Late, End
    <2>2. \/ pc[r] \in {"jar", "manifest", "notes", "write index"} /\ UNCHANGED plugin
          \/ pc[r] = "update" /\ Commit(r) /\ End(r, "unavailable")
        BY <1>d DEF Late
    <2> QED
        BY <2>1, <2>2 DEF BeforeUpdate, AfterUpdate
<1>e. CASE Check(r) \/ Probe(r) \/ PutJar(r) \/ PutManifest(r) \/ PutNotes(r)
    <2>1. UNCHANGED <<plugin, call>>
        BY <1>e DEF Check, Probe, PutJar, PutManifest, PutNotes, Answer, End, Goto
    <2>2. /\ pc[r] \in {"check", "probe", "jar", "manifest", "notes"}
          /\ pc'[r] \in {"probe", "jar", "manifest", "notes", "load", "done"}
        BY <1>0, <1>e DEF Check, Probe, PutJar, PutManifest, PutNotes, Answer, End, Goto
    <2> QED
        BY <2>1, <2>2 DEF BeforeUpdate
<1>f. CASE Load(r) \/ Update(r)
    BY <1>f
<1>g. CASE ListToPurge(r) \/ DeleteNext(r) \/ ListPlugins(r) \/ ReadState(r) \/ ReadManifest(r)
    <2>1. UNCHANGED <<plugin, call>>
        BY <1>g DEF ListToPurge, DeleteNext, ListPlugins, ReadState, ReadManifest, Goto
    <2>2. /\ pc[r] \in {"purge", "delete", "list", "row", "row manifest"}
          /\ pc'[r] \in {"delete", "list", "row", "row manifest", "index"}
        BY <1>0, <1>g DEF ListToPurge, DeleteNext, ListPlugins, ReadState, ReadManifest, Goto
    <2> QED
        BY <2>1, <2>2 DEF AfterUpdate
<1>h. CASE ReadIndex(r) \/ WriteIndex(r)
    <2>1. UNCHANGED <<plugin, call>>
        BY <1>h DEF ReadIndex, WriteIndex, Retry, Answer, End, Goto
    <2>2. /\ pc[r] \in {"index", "write index"}
          /\ pc'[r] \in {"index", "write index", "done"}
        BY <1>0, <1>h DEF ReadIndex, WriteIndex, Retry, Answer, End, Goto
    <2> QED
        BY <2>1, <2>2 DEF AfterUpdate
<1> QED
    BY <1>a, <1>b, <1>c, <1>d, <1>e, <1>f, <1>g, <1>h DEF Acts, Step

\* What Update does, by its outcome.
LEMMA UpdateSteps ==
    ASSUME TypeOK, NEW r \in Requests, Update(r)
    PROVE  /\ pc[r] = "update" /\ UNCHANGED call
           /\ \/ /\ Refusal(call[r], mem[r].seen) # "" /\ UNCHANGED plugin
                 /\ pc'[r] = "done" /\ reply'[r] = Refusal(call[r], mem[r].seen)
              \/ /\ Commit(r)
                 /\ \/ pc'[r] \in {"purge", "list"} /\ UNCHANGED reply
                    \/ pc'[r] = "done" /\ reply'[r] = "ok"
              \/ /\ UNCHANGED plugin
                 /\ \/ pc'[r] = "load" /\ UNCHANGED reply
                    \/ pc'[r] = "done" /\ reply'[r] = "storageConflict"
<1>0. pc \in [Requests -> Pcs] /\ reply \in [Requests -> Replies]
    BY DEF TypeOK
<1>1. pc[r] = "update"
    BY DEF Update
<1>2. CASE Refusal(call[r], mem[r].seen) # "" /\ Answer(r, Refusal(call[r], mem[r].seen))
             /\ UNCHANGED plugin
    BY <1>0, <1>1, <1>2 DEF Answer, End
<1>3. CASE Commit(r) /\ call[r].op = "advise" /\ Answer(r, "ok")
    BY <1>0, <1>1, <1>3 DEF Answer, End
<1>4. CASE Commit(r) /\ Goto(r, AfterCommit(call[r]))
    BY <1>0, <1>1, <1>4 DEF Goto, AfterCommit
<1>5. CASE UNCHANGED plugin /\ Retry(r, "load", "storageConflict")
    BY <1>0, <1>1, <1>5 DEF Retry, Answer, End, Goto
<1> QED
    BY <1>2, <1>3, <1>4, <1>5 DEF Update

LEMMA RefusalValues ==
    ASSUME NEW c, NEW s
    PROVE  Refusal(c, s) \in {"", "notFound", "internalError", "conflict"}
BY DEF Refusal

-----------------------------------------------------------------------------
(* What the record says after a step. *)

LEMMA RecordOf ==
    ASSUME Record, NEW r \in Requests
    PROVE  /\ asked'[r] = IF Entered(r) THEN {call'[r]} ELSE asked[r]
           /\ verdict'[r] = Verdict(r)
           /\ answered'[r] = IF Left(r) THEN Returned(r) ELSE answered[r]
BY DEF Record

LEMMA RecordTypeKept ==
    ASSUME Record
    PROVE  RecordType'
BY DEF Record, RecordType

\* The record of a request that does not move stays.
LEMMA RecordStays ==
    ASSUME Record, NEW r \in Requests, pc'[r] = pc[r]
    PROVE  asked'[r] = asked[r] /\ verdict'[r] = verdict[r] /\ answered'[r] = answered[r]
BY RecordOf DEF Entered, Left, InWriteWithRetry, Verdict

LEMMA OthersTracked ==
    ASSUME Record, NEW r \in Requests, Tracked(r), pc'[r] = pc[r], call'[r] = call[r],
           mem'[r] = mem[r], reply'[r] = reply[r]
    PROVE  Tracked(r)'
BY RecordStays DEF Tracked, InWriteWithRetry

\* A commit makes a new generation.
LEMMA CommitsShow ==
    ASSUME TypeOK, Snapshot, NEW r \in Requests, pc[r] = "update", Commit(r)
    PROVE  plugin' # plugin /\ plugin' = ResultOf(call[r], r, plugin)
           /\ RefusalOf(call[r], plugin) = ""
<1> DEFINE p == call[r].plugin
<1>1. /\ p \in Plugins /\ plugin[p].gen \in Nat
      /\ mem[r].seen = plugin[p]
    BY CommitEffect DEF TypeOK, Snapshot, Commit
<1>2. plugin' = [plugin EXCEPT ![p] = [gen |-> plugin[p].gen + 1,
                                       doc |-> Mutate(call[r], plugin[p].doc)]]
    BY <1>1 DEF Commit
<1>3. plugin'[p].gen = plugin[p].gen + 1
    BY <1>1, <1>2 DEF TypeOK
<1>4. plugin' = ResultOf(call[r], r, plugin)
    BY <1>2 DEF ResultOf
<1>5. RefusalOf(call[r], plugin) = ""
    BY <1>1 DEF RefusalOf, Commit
<1>6. plugin' # plugin
    BY <1>1, <1>3
<1> QED
    BY <1>4, <1>5, <1>6

-----------------------------------------------------------------------------
(* The record is right. *)

\* Success, or work after plugin.json, comes from a commit.
LEMMA SuccessTracked ==
    ASSUME TypeOK, Snapshot, Kept, Record, NEW r \in Requests, Acts(r), Tracked(r),
           pc'[r] \in AfterUpdate \/ reply'[r] = "ok", call'[r].op # "rebuild"
    PROVE  asked'[r] = {call'[r]} /\ verdict'[r] = "performed" /\ answered'[r] = "ok"
<1>1. pc'[r] \in AfterUpdate \cup {"done"}
    BY RepliesAreLast
<1>2. ~InWriteWithRetry(r)'
    BY <1>1 DEF InWriteWithRetry, AfterUpdate
<1>3. CASE pc[r] \in AfterUpdate /\ call'[r] = call[r]
    <2>1. ~InWriteWithRetry(r) /\ pc[r] # "load"
        BY <1>3 DEF InWriteWithRetry, AfterUpdate
    <2>2. asked'[r] = asked[r] /\ verdict'[r] = verdict[r] /\ answered'[r] = answered[r]
        BY <1>2, <2>1, RecordOf DEF Entered, Left, Verdict
    <2> QED
        BY <1>3, <2>2 DEF Tracked
<1>4. CASE pc[r] = "update" /\ Commit(r) /\ call'[r] = call[r]
    <2>1. InWriteWithRetry(r) /\ Left(r) /\ ~Entered(r)
        BY <1>2, <1>4 DEF InWriteWithRetry, Left, Entered
    <2>2. plugin' # plugin
        BY <1>4, CommitsShow
    <2>3. verdict'[r] = "performed" /\ asked'[r] = asked[r]
        BY <1>4, <2>1, <2>2, RecordOf DEF Verdict
    <2>4. Returned(r) = "ok"
        BY DEF Returned, AfterUpdate
    <2> QED
        BY <1>4, <2>1, <2>3, <2>4, RecordOf DEF Tracked
<1> QED
    BY <1>3, <1>4, SuccessIsEarned

\* The rest of what Tracked says, for a request that moves.
Underway(r) ==
    /\ call[r] \in Calls
    /\ pc[r] \in BeforeUpdate => asked[r] = {} /\ verdict[r] = "" /\ answered[r] = ""
    /\ InWriteWithRetry(r) =>
          asked[r] = {call[r]} /\ verdict[r] # "performed" /\ answered[r] = ""
    /\ pc[r] = "update" => verdict[r] = Refusal(call[r], mem[r].seen)

LEMMA EnteredTracked ==
    ASSUME Record, NEW r \in Requests, Tracked(r), pc[r] \in BeforeUpdate,
           pc'[r] \in BeforeUpdate \cup {"load", "list", "done"}, call'[r] \in Calls
    PROVE  /\ Underway(r)'
           /\ asked'[r] = IF pc'[r] = "load" THEN {call'[r]} ELSE {}
           /\ verdict'[r] = verdict[r] /\ answered'[r] = answered[r]
<1>1. ~InWriteWithRetry(r) /\ ~Left(r) /\ pc[r] # "load"
    BY DEF InWriteWithRetry, Left, BeforeUpdate
<1>2. InWriteWithRetry(r)' <=> pc'[r] = "load"
    BY DEF InWriteWithRetry, BeforeUpdate
<1>3. Entered(r) <=> pc'[r] = "load"
    BY <1>1, <1>2 DEF Entered
<1>4. asked[r] = {} /\ verdict[r] = "" /\ answered[r] = ""
    BY DEF Tracked
<1>5. /\ asked'[r] = IF pc'[r] = "load" THEN {call'[r]} ELSE {}
      /\ verdict'[r] = verdict[r] /\ answered'[r] = answered[r]
    BY <1>1, <1>3, <1>4, RecordOf DEF Verdict
<1>6. pc'[r] # "update" /\ (pc'[r] \in BeforeUpdate => pc'[r] # "load")
    BY DEF BeforeUpdate
<1> QED
    BY <1>2, <1>4, <1>5, <1>6 DEF Underway

LEMMA LoadTracked ==
    ASSUME TypeOK, Record, NEW r \in Requests, Tracked(r), Load(r)
    PROVE  /\ Underway(r)'
           /\ asked'[r] = asked[r] /\ answered'[r] = answered[r]
           /\ verdict'[r] = RefusalOf(call[r], plugin)
<1>1. /\ pc[r] = "load" /\ pc'[r] = "update" /\ call'[r] = call[r]
      /\ mem'[r].seen = plugin[call[r].plugin]
    BY DEF Load, Goto, TypeOK, Mem
<1>2. InWriteWithRetry(r) /\ ~Entered(r) /\ ~Left(r)
    BY <1>1 DEF InWriteWithRetry, Entered, Left
<1>3. /\ asked'[r] = asked[r] /\ answered'[r] = answered[r]
      /\ verdict'[r] = Refusal(call'[r], mem'[r].seen)
    BY <1>1, <1>2, RecordOf DEF Verdict
<1>4. verdict'[r] # "performed"
    BY <1>3, RefusalValues
<1>5. pc'[r] \notin BeforeUpdate
    BY <1>1 DEF BeforeUpdate
<1> QED
    BY <1>1, <1>2, <1>3, <1>4, <1>5 DEF Underway, Tracked, RefusalOf

\* An attempt that conflicted: WriteWithRetry goes on.
LEMMA RetryTracked ==
    ASSUME Record, NEW r \in Requests, Tracked(r), pc[r] = "update", pc'[r] = "load",
           call'[r] = call[r]
    PROVE  /\ Underway(r)'
           /\ asked'[r] = asked[r] /\ verdict'[r] = verdict[r] /\ answered'[r] = answered[r]
<1>1. InWriteWithRetry(r) /\ ~Entered(r) /\ ~Left(r)
    BY DEF InWriteWithRetry, Entered, Left
<1>2. asked'[r] = asked[r] /\ verdict'[r] = verdict[r] /\ answered'[r] = answered[r]
    BY <1>1, RecordOf DEF Verdict
<1>3. pc'[r] \notin BeforeUpdate
    BY DEF BeforeUpdate
<1> QED
    BY <1>1, <1>2, <1>3 DEF Underway, Tracked

LEMMA LeftTracked ==
    ASSUME Record, NEW r \in Requests, Tracked(r), InWriteWithRetry(r),
           pc'[r] \in AfterUpdate \cup {"done"}, call'[r] = call[r]
    PROVE  /\ Underway(r)'
           /\ asked'[r] = asked[r]
           /\ verdict'[r] = IF plugin' # plugin THEN "performed" ELSE ""
           /\ answered'[r] = IF pc'[r] = "done" THEN reply'[r] ELSE "ok"
<1>1. ~InWriteWithRetry(r)' /\ pc'[r] \notin BeforeUpdate /\ pc'[r] # "update"
    BY DEF InWriteWithRetry, AfterUpdate, BeforeUpdate
<1>2. ~Entered(r) /\ Left(r)
    BY <1>1 DEF Entered, Left
<1>3. /\ asked'[r] = asked[r]
      /\ verdict'[r] = IF plugin' # plugin THEN "performed" ELSE ""
      /\ answered'[r] = IF pc'[r] = "done" THEN reply'[r] ELSE "ok"
    BY <1>1, <1>2, RecordOf DEF Verdict, Returned
<1> QED
    BY <1>1, <1>3 DEF Underway, Tracked

LEMMA AfterTracked ==
    ASSUME Record, NEW r \in Requests, Tracked(r), pc[r] \in AfterUpdate,
           pc'[r] \in AfterUpdate \cup {"done"}, call'[r] = call[r]
    PROVE  /\ Underway(r)'
           /\ asked'[r] = asked[r] /\ verdict'[r] = verdict[r] /\ answered'[r] = answered[r]
<1>1. /\ ~InWriteWithRetry(r)' /\ pc'[r] \notin BeforeUpdate /\ pc'[r] # "update"
      /\ ~InWriteWithRetry(r) /\ pc[r] # "load"
    BY DEF InWriteWithRetry, AfterUpdate, BeforeUpdate
<1>2. ~Entered(r) /\ ~Left(r)
    BY <1>1 DEF Entered, Left
<1>3. asked'[r] = asked[r] /\ verdict'[r] = verdict[r] /\ answered'[r] = answered[r]
    BY <1>1, <1>2, RecordOf DEF Verdict
<1> QED
    BY <1>1, <1>3 DEF Underway, Tracked

-----------------------------------------------------------------------------
(* Every step is one of AtomicDocument, or none. *)

\* Only the request that moves is recorded.
LEMMA RecordFrame ==
    ASSUME TypeOK, RecordType, Record, NEW r \in Requests, Acts(r)
    PROVE  /\ asked' = [asked EXCEPT ![r] = asked'[r]]
           /\ verdict' = [verdict EXCEPT ![r] = verdict'[r]]
           /\ answered' = [answered EXCEPT ![r] = answered'[r]]
<1>1. \A q \in Requests \ {r} :
         asked'[q] = asked[q] /\ verdict'[q] = verdict[q] /\ answered'[q] = answered[q]
    BY OthersStay, RecordStays
<1>2. RecordType'
    BY RecordTypeKept
<1> QED
    BY <1>1, <1>2 DEF RecordType

LEMMA NothingRecorded ==
    ASSUME TypeOK, RecordType, Record, NEW r \in Requests, Acts(r), UNCHANGED plugin,
           asked'[r] = asked[r], verdict'[r] = verdict[r], answered'[r] = answered[r]
    PROVE  UNCHANGED States!vars
<1>1. asked' = asked /\ verdict' = verdict /\ answered' = answered
    BY RecordFrame DEF RecordType
<1> QED
    BY <1>1 DEF States!vars

LEMMA AskRefines ==
    ASSUME TypeOK, RecordType, Record, NEW r \in Requests, Acts(r), Tracked(r),
           pc[r] \in BeforeUpdate, pc'[r] \in BeforeUpdate \cup {"load", "list", "done"},
           call'[r] \in Calls, UNCHANGED plugin
    PROVE  Underway(r)' /\ [States!Next]_States!vars
<1>1. /\ Underway(r)'
      /\ asked'[r] = IF pc'[r] = "load" THEN {call'[r]} ELSE {}
      /\ verdict'[r] = verdict[r] /\ answered'[r] = answered[r]
    BY EnteredTracked
<1>2. asked[r] = {}
    BY DEF Tracked
<1>3. CASE pc'[r] # "load"
    BY <1>1, <1>2, <1>3, NothingRecorded
<1>4. CASE pc'[r] = "load"
    <2>1. /\ asked' = [asked EXCEPT ![r] = {call'[r]}]
          /\ verdict' = verdict /\ answered' = answered
        BY <1>1, <1>4, RecordFrame DEF RecordType
    <2>2. States!Ask(r, call'[r])
        BY <1>2, <2>1 DEF States!Ask
    <2> QED
        BY <1>1, <2>2 DEF States!Next
<1> QED
    BY <1>3, <1>4

LEMMA JudgeRefines ==
    ASSUME TypeOK, RecordType, Record, NEW r \in Requests, Acts(r), Tracked(r), Load(r)
    PROVE  Underway(r)' /\ [States!Next]_States!vars
<1>1. /\ Underway(r)'
      /\ asked'[r] = asked[r] /\ answered'[r] = answered[r]
      /\ verdict'[r] = RefusalOf(call[r], plugin)
    BY LoadTracked
<1>2. asked[r] = {call[r]} /\ verdict[r] # "performed" /\ answered[r] = ""
    BY DEF Tracked, InWriteWithRetry, Load
<1>3. /\ asked' = asked /\ answered' = answered
      /\ verdict' = [verdict EXCEPT ![r] = RefusalOf(call[r], plugin)]
    BY <1>1, RecordFrame DEF RecordType
<1>4. States!Judge(r)
    BY <1>2, <1>3 DEF States!Judge, States!Running, Load
<1> QED
    BY <1>1, <1>4 DEF States!Next

\* A write that takes effect is the request's update of the stored document.
LEMMA PerformRefines ==
    ASSUME TypeOK, Snapshot, RecordType, Record, NEW r \in Requests, Acts(r), Tracked(r),
           pc[r] = "update", Commit(r), call'[r] = call[r],
           \/ pc'[r] \in AfterUpdate
           \/ pc'[r] = "done" /\ reply'[r] \in {"ok", "unavailable"}
    PROVE  Underway(r)' /\ [States!Next]_States!vars
<1> DEFINE code == IF pc'[r] = "done" THEN reply'[r] ELSE "ok"
<1>1. InWriteWithRetry(r)
    BY DEF InWriteWithRetry
<1>2. /\ plugin' # plugin /\ plugin' = ResultOf(call[r], r, plugin)
      /\ RefusalOf(call[r], plugin) = ""
    BY CommitsShow
<1>3. /\ Underway(r)' /\ asked'[r] = asked[r]
      /\ verdict'[r] = "performed" /\ answered'[r] = code
    BY <1>1, <1>2, LeftTracked
<1>4. asked[r] = {call[r]} /\ verdict[r] # "performed" /\ answered[r] = ""
    BY <1>1 DEF Tracked
<1>5. code \in {"ok", "unavailable"}
    BY DEF AfterUpdate
<1> HIDE DEF code
<1>6. /\ asked' = asked
      /\ verdict' = [verdict EXCEPT ![r] = "performed"]
      /\ answered' = [answered EXCEPT ![r] = code]
    BY <1>3, RecordFrame DEF RecordType
<1>7. States!PerformAndAnswer(r, code)
    BY <1>2, <1>4, <1>6 DEF States!PerformAndAnswer, States!Running
<1> QED
    BY <1>3, <1>5, <1>7 DEF States!Next

\* A request that gives up, or is refused, changes nothing.
LEMMA AnswerRefines ==
    ASSUME TypeOK, RecordType, Record, NEW r \in Requests, Acts(r), Tracked(r),
           InWriteWithRetry(r), UNCHANGED plugin, pc'[r] = "done", call'[r] = call[r],
           \/ reply'[r] \in {"storageConflict", "lost", "unavailable"}
           \/ /\ reply'[r] = verdict[r]
              /\ reply'[r] \in {"notFound", "internalError", "conflict"}
    PROVE  Underway(r)' /\ [States!Next]_States!vars
<1>1. /\ Underway(r)' /\ asked'[r] = asked[r]
      /\ verdict'[r] = "" /\ answered'[r] = reply'[r]
    BY LeftTracked DEF AfterUpdate
<1>2. asked[r] = {call[r]} /\ verdict[r] # "performed" /\ answered[r] = ""
    BY DEF Tracked
<1>3. /\ asked' = asked
      /\ verdict' = [verdict EXCEPT ![r] = ""]
      /\ answered' = [answered EXCEPT ![r] = reply'[r]]
    <2>1. /\ asked' = [asked EXCEPT ![r] = asked'[r]]
          /\ verdict' = [verdict EXCEPT ![r] = verdict'[r]]
          /\ answered' = [answered EXCEPT ![r] = answered'[r]]
        BY RecordFrame
    <2>2. asked' = asked
        BY <1>1, <2>1 DEF RecordType
    <2> QED
        BY <1>1, <2>1, <2>2
<1>4. States!Answer(r, reply'[r])
    BY <1>2, <1>3 DEF States!Answer, States!Running, States!Kept
<1>5. reply'[r] \in States!Codes
    BY DEF States!Codes
<1> QED
    BY <1>1, <1>4, <1>5 DEF States!Next

LEMMA UpdateRefines ==
    ASSUME TypeOK, Snapshot, RecordType, Record, NEW r \in Requests, Acts(r), Tracked(r),
           Update(r)
    PROVE  Underway(r)' /\ [States!Next]_States!vars
<1>1. pc[r] = "update" /\ call'[r] = call[r] /\ InWriteWithRetry(r)
    BY UpdateSteps DEF InWriteWithRetry
<1>2. CASE /\ Refusal(call[r], mem[r].seen) # "" /\ UNCHANGED plugin
           /\ pc'[r] = "done" /\ reply'[r] = Refusal(call[r], mem[r].seen)
    <2>1. reply'[r] = verdict[r] /\ reply'[r] \in {"notFound", "internalError", "conflict"}
        BY <1>1, <1>2, RefusalValues DEF Tracked
    <2> QED
        BY <1>1, <1>2, <2>1, AnswerRefines
<1>3. CASE Commit(r) /\ \/ pc'[r] \in {"purge", "list"} /\ UNCHANGED reply
                        \/ pc'[r] = "done" /\ reply'[r] = "ok"
    BY <1>1, <1>3, PerformRefines DEF AfterUpdate
<1>4. CASE UNCHANGED plugin /\ pc'[r] = "load"
    <2>1. /\ Underway(r)'
          /\ asked'[r] = asked[r] /\ verdict'[r] = verdict[r] /\ answered'[r] = answered[r]
        BY <1>1, <1>4, RetryTracked
    <2> QED
        BY <1>4, <2>1, NothingRecorded
<1>5. CASE UNCHANGED plugin /\ pc'[r] = "done" /\ reply'[r] = "storageConflict"
    BY <1>1, <1>5, AnswerRefines
<1> QED
    BY <1>2, <1>3, <1>4, <1>5, UpdateSteps

\* An End in place.
LEMMA EndShows ==
    ASSUME TypeOK, NEW r \in Requests, NEW code, End(r, code)
    PROVE  pc'[r] = "done" /\ reply'[r] = code /\ call'[r] = call[r]
BY DEF End, TypeOK

LEMMA ActRefines ==
    ASSUME TypeOK, Snapshot, RecordType, Record, NEW r \in Requests, Acts(r), Tracked(r)
    PROVE  Underway(r)' /\ [States!Next]_States!vars
<1>1. call[r] \in Calls
    BY DEF Tracked
<1>a. CASE \E c \in Calls : Start(r, c)
    <2>1. PICK c \in Calls : Start(r, c)
        BY <1>a
    <2>2. /\ pc[r] \in BeforeUpdate /\ call'[r] = c /\ UNCHANGED plugin
          /\ pc'[r] \in BeforeUpdate \cup {"load", "list", "done"}
        BY <2>1 DEF Start, FirstStep, BeforeUpdate, TypeOK
    <2> QED
        BY <2>2, AskRefines
<1>b. CASE Load(r)
    BY <1>b, JudgeRefines
<1>c. CASE Update(r)
    BY <1>c, UpdateRefines
<1>d. CASE pc[r] = "update" /\ Commit(r) /\ End(r, "unavailable")
    BY <1>d, EndShows, PerformRefines
<1>e. CASE /\ InWriteWithRetry(r) /\ UNCHANGED plugin
           /\ \E code \in {"lost", "unavailable"} : End(r, code)
    <2>1. pc'[r] = "done" /\ reply'[r] \in {"lost", "unavailable"} /\ call'[r] = call[r]
        BY <1>e, EndShows
    <2> QED
        BY <1>e, <2>1, AnswerRefines
<1>f. CASE /\ pc[r] \in BeforeUpdate \ {"idle"} /\ UNCHANGED <<plugin, call>>
           /\ pc'[r] \in (BeforeUpdate \ {"idle"}) \cup {"load", "done"}
    BY <1>1, <1>f, AskRefines
<1>g. CASE /\ pc[r] \in AfterUpdate /\ UNCHANGED <<plugin, call>>
           /\ pc'[r] \in AfterUpdate \cup {"done"}
    <2>1. /\ Underway(r)'
          /\ asked'[r] = asked[r] /\ verdict'[r] = verdict[r] /\ answered'[r] = answered[r]
        BY <1>g, AfterTracked
    <2> QED
        BY <1>g, <2>1, NothingRecorded
<1> QED
    BY <1>a, <1>b, <1>c, <1>d, <1>e, <1>f, <1>g, StepsAround

LEMMA NextRefines ==
    ASSUME Sound, Recorded, RecordedNext
    PROVE  Recorded' /\ [States!Next]_States!vars
<1>1. /\ TypeOK /\ Snapshot /\ Kept /\ RecordType /\ Record
      /\ \A q \in Requests : Tracked(q)
    BY DEF Sound, Recorded, RecordedNext
<1>2. RecordType'
    BY <1>1, RecordTypeKept
<1>3. ASSUME NEW r \in Requests, Acts(r)
      PROVE  Recorded' /\ [States!Next]_States!vars
    <2>1. Underway(r)' /\ [States!Next]_States!vars
        BY <1>1, <1>3, ActRefines
    <2>2. /\ pc'[r] \in AfterUpdate \/ reply'[r] = "ok"
          /\ call'[r].op # "rebuild"
          => asked'[r] = {call'[r]} /\ verdict'[r] = "performed" /\ answered'[r] = "ok"
        BY <1>1, <1>3, SuccessTracked
    <2>3. Tracked(r)'
        BY <2>1, <2>2 DEF Tracked, Underway
    <2>4. ASSUME NEW q \in Requests, q # r
          PROVE  Tracked(q)'
        BY <1>1, <1>3, <2>4, OthersStay, OthersTracked
    <2> QED
        BY <1>2, <2>1, <2>3, <2>4 DEF Recorded
<1>4. CASE Sweep \/ SweepLost
    <2>1. UNCHANGED <<plugin, index, pc, call, mem, reply>>
        BY <1>4, SweepWritesNoState
    <2>2. \A q \in Requests : Tracked(q)'
        BY <1>1, <2>1, OthersTracked
    <2>3. \A q \in Requests :
             asked'[q] = asked[q] /\ verdict'[q] = verdict[q] /\ answered'[q] = answered[q]
        BY <1>1, <2>1, RecordStays
    <2>4. asked' = asked /\ verdict' = verdict /\ answered' = answered
        BY <1>1, <1>2, <2>3 DEF RecordType
    <2>5. UNCHANGED States!vars
        BY <2>1, <2>4 DEF States!vars
    <2> QED
        BY <1>2, <2>2, <2>5 DEF Recorded
<1> QED
    BY <1>3, <1>4 DEF RecordedNext, Next, Acts

LEMMA StutterRefines ==
    ASSUME Recorded, UNCHANGED <<vars, record>>
    PROVE  Recorded' /\ UNCHANGED States!vars
<1>1. UNCHANGED <<plugin, pc, call, mem, reply, asked, verdict, answered>>
    BY DEF vars, record
<1>2. RecordType'
    BY <1>1 DEF Recorded, RecordType
<1>3. \A r \in Requests : Tracked(r)'
    BY <1>1 DEF Recorded, Tracked, InWriteWithRetry
<1> QED
    BY <1>1, <1>2, <1>3 DEF Recorded, States!vars

LEMMA InitRefines ==
    ASSUME RecordedInit
    PROVE  Recorded /\ States!Init
<1>1. /\ asked = [r \in Requests |-> {}]
      /\ verdict = [r \in Requests |-> ""]
      /\ answered = [r \in Requests |-> ""]
    BY DEF RecordedInit
<1>2. RecordType
    BY <1>1 DEF RecordType
<1>3. ASSUME NEW r \in Requests
      PROVE  Tracked(r)
    <2>1. pc[r] = "idle" /\ reply[r] = "" /\ call[r] \in Calls
        BY DataAssumption DEF RecordedInit, Init
    <2> QED
        BY <1>1, <2>1 DEF Tracked, InWriteWithRetry, AfterUpdate
<1>4. plugin = ShelfPlugins
    BY DEF RecordedInit, Init, ShelfPlugins
<1> QED
    BY <1>1, <1>2, <1>3, <1>4 DEF Recorded, States!Init

-----------------------------------------------------------------------------
(* The theorems. *)

LEMMA RecordingIsFree == RecordedSpec => Spec
<1>1. RecordedInit => Init
    BY DEF RecordedInit
<1>2. [RecordedNext]_<<vars, record>> => [Next]_vars
    BY DEF RecordedNext
<1> QED
    BY <1>1, <1>2, PTL DEF RecordedSpec, Spec

LEMMA SoundAlways == RecordedSpec => []Sound
<1>1. TypeOK /\ Snapshot /\ Kept /\ [Next]_vars => Kept'
    BY NextKept
<1>2. Spec => []Kept
    BY InitKept, TypeCorrect, SnapshotIsCurrent, <1>1, PTL DEF Spec
<1>3. TypeOK /\ Snapshot /\ Kept => Sound
    BY DEF Sound
<1> QED
    BY RecordingIsFree, TypeCorrect, SnapshotIsCurrent, <1>2, <1>3, PTL

LEMMA RecordedAlways == RecordedSpec => []Recorded
<1>1. RecordedInit => Recorded
    BY InitRefines
<1>2. Sound /\ Recorded /\ [RecordedNext]_<<vars, record>> => Recorded'
    BY NextRefines, StutterRefines
<1> QED
    BY SoundAlways, <1>1, <1>2, PTL DEF RecordedSpec

\* The plugin states change by whole updates, one at a time, each computed from
\* the state it replaces, whatever the requests and the cleanup do.
THEOREM UpdatesAreAtomic == RecordedSpec => PluginStatesAreAtomic
<1>1. RecordedInit => States!Init
    BY InitRefines
<1>2. Sound /\ Recorded /\ [RecordedNext]_<<vars, record>> => [States!Next]_States!vars
    BY NextRefines, StutterRefines
<1> QED
    BY SoundAlways, RecordedAlways, <1>1, <1>2, PTL
       DEF RecordedSpec, PluginStatesAreAtomic, States!Spec

\* A request answered with success has had its update performed, and
\* WriteWithRetry told it so.
THEOREM SuccessFollowsUpdate == RecordedSpec => []SuccessIsPerformed
<1>1. Recorded => SuccessIsPerformed
    BY DEF Recorded, Tracked, SuccessIsPerformed
<1> QED
    BY RecordedAlways, <1>1, PTL

=============================================================================
