------------------------------ MODULE LocalStore ------------------------------
(***************************************************************************)
(* The local object store of internal/storage/local.go, under the two ways  *)
(* the services use it: WriteWithRetry on a document that is never deleted  *)
(* (here auth/authorized_keys.json with the operations of Licences), and    *)
(* artifacts that are written if absent and deleted.                        *)
(*                                                                         *)
(* An object is a file and a .gen file with its generation; a map in memory *)
(* mirrors the .gen files and is what a write compares.  A mutex guards     *)
(* Read and Write, but not the files that Delete removes.  Every system     *)
(* call is a step.  A crash wipes the memory; the next start reads the      *)
(* .gen files again.                                                        *)
(***************************************************************************)
EXTENDS Licences, FiniteSets

CONSTANTS
    Threads,      \* requests to the store, each running once
    Updates,      \* the licence operations that may be asked for
    Mixes,        \* bound: the sets of requests that come in together
    Artifacts,    \* paths of objects that are written if absent and deleted
    Jars,         \* what is written there
    Works,        \* the artifact requests that may come in
    MaxAttempts,  \* maxAttempts of WriteWithRetry
    MaxCrashes,   \* bound: how often the process crashes
    FaultKinds,   \* which system calls may fail
    MaxFaults,    \* bound: how many of them do
    Absent,       \* no file
    NoGen,        \* no .gen file
    Torn          \* a .gen file that is empty

Path == "authorized_keys"      \* the one document
Paths == {Path} \cup Artifacts

Work == [op : {"put", "delete"}, path : Artifacts, jar : Jars]

ASSUME StoreAssumption ==
    /\ Keys = Threads
    /\ Updates \subseteq LicenceCall /\ Updates # {}
    /\ Works \subseteq Work
    /\ \A m \in Mixes : m \subseteq Updates \cup Works
    /\ Path \notin Artifacts
    /\ Absent \notin Jars
    /\ NoGen \notin Nat /\ Torn \notin Nat /\ NoGen # Torn
    /\ MaxAttempts \in Nat \ {0}
    /\ MaxCrashes \in Nat /\ MaxFaults \in Nat

VARIABLES
    file,      \* the data file of each path
    genFile,   \* its .gen file
    gens,      \* LocalStore.generations; 0 where there is no entry
    lock,      \* the threads that hold LocalStore.mu (one at most)
    host,      \* the process: "up", "down", or "broken" when it cannot start
    pc, call, mem, reply,
    effect,    \* history: the threads whose write took effect
    owner,     \* history: the answered put an artifact's content is due to
    loose,     \* history: artifacts a delete left half done or overlapped
    crashes, faults

vars == <<file, genFile, gens, lock, host, pc, call, mem, reply, effect, owner,
          loose, crashes, faults>>

disk == <<file, genFile>>
history == <<effect, owner, loose>>
budget == <<crashes, faults>>

-----------------------------------------------------------------------------

NoMem == [gen |-> 0, doc |-> NoDocument, tries |-> 0]

PathOf(t) ==
    IF call[t].op \in {"put", "delete"} THEN call[t].path ELSE Path

Goto(t, there) ==
    /\ pc' = [pc EXCEPT ![t] = there]
    /\ UNCHANGED <<call, reply>>

Answer(t, code) ==
    /\ pc' = [pc EXCEPT ![t] = "done"]
    /\ reply' = [reply EXCEPT ![t] = code]
    /\ mem' = [mem EXCEPT ![t] = NoMem]
    /\ UNCHANGED call

Unlock == lock' = {}

Active == {t \in Threads : pc[t] \notin {"idle", "done"}}

\* Deleting a path: from the removal of its file to the end of its map entry.
Deleting(o) ==
    {t \in Active : pc[t] \in {"delete gen", "delete entry"} /\ PathOf(t) = o}
Writing(o) ==
    {t \in Active : pc[t] \in {"rename", "truncate", "gen"} /\ PathOf(t) = o}

\* A request starts.
Start(t, c) ==
    /\ host = "up" /\ pc[t] = "idle"
    /\ \E m \in Mixes :
          c \in m /\ \A u \in Threads : pc[u] # "idle" => call[u] \in m
    /\ call' = [call EXCEPT ![t] = c]
    /\ pc' = [pc EXCEPT ![t] =
                CASE c.op = "put"    -> "write"
                  [] c.op = "delete" -> "delete file"
                  [] OTHER           -> "read"]
    /\ UNCHANGED <<disk, gens, lock, host, mem, reply, history, budget>>

-----------------------------------------------------------------------------
(* WriteWithRetry and Write. *)

\* Read, under the read lock: the file and the generation belong together.  An
\* absent file is no object, whatever the map says.  What is read after the last
\* conflict is not used.
Read(t) ==
    /\ pc[t] = "read" /\ lock = {}
    /\ IF mem[t].tries = MaxAttempts THEN Answer(t, "storageConflict")
       ELSE /\ mem' = [mem EXCEPT ![t].doc = file[Path],
                          ![t].gen = IF file[Path] = NoDocument THEN 0
                                     ELSE gens[Path]]
            /\ Goto(t, "write")
    /\ UNCHANGED <<disk, gens, lock, host, history, budget>>

\* Variant with a bug: the write compares nothing.
MatchesAlways(t) == TRUE

\* The precondition of Write.
Matches(t) == mem[t].gen = gens[PathOf(t)]

\* Write takes the lock, compares the generation and writes the .tmp file; a
\* mismatch releases it.  The loop of WriteWithRetry reads again, up to maxAttempts
\* times; a put is one write with generation 0.
Write(t) ==
    LET update == call[t].op \notin {"put", "delete"}
        refusal == IF update THEN LicenceRefusal(call[t], mem[t].doc) ELSE ""
    IN  /\ pc[t] = "write"
        /\ \/ /\ refusal # "" /\ Answer(t, refusal)
              /\ UNCHANGED lock
           \/ /\ refusal = "" /\ lock = {} /\ Matches(t)
              /\ lock' = {t}
              /\ Goto(t, "rename") /\ UNCHANGED mem
           \/ /\ refusal = "" /\ lock = {} /\ ~Matches(t)
              /\ IF ~update THEN Answer(t, "storageConflict")
                 ELSE /\ mem' = [mem EXCEPT ![t].tries = @ + 1]
                      /\ Goto(t, "read")
              /\ UNCHANGED lock
        /\ UNCHANGED <<disk, gens, host, history, budget>>

\* The .tmp file becomes the object and the map follows, under the lock.
Rename(t) ==
    LET o == PathOf(t)
    IN  /\ pc[t] = "rename"
        /\ file' = [file EXCEPT ![o] =
                      IF o = Path THEN WithLicence(call[t], t, mem[t].doc)
                      ELSE call[t].jar]
        /\ gens' = [gens EXCEPT ![o] = @ + 1]
        /\ effect' = effect \cup {t}
        /\ loose' = IF Deleting(o) = {} THEN loose ELSE loose \cup {o}
        /\ Goto(t, "truncate")
        /\ UNCHANGED <<genFile, lock, host, mem, owner, budget>>

\* os.WriteFile truncates the .gen file before it writes it.
Truncate(t) ==
    /\ pc[t] = "truncate"
    /\ genFile' = [genFile EXCEPT ![PathOf(t)] = Torn]
    /\ Goto(t, "gen")
    /\ UNCHANGED <<file, gens, lock, host, mem, history, budget>>

\* Variant with a bug: an error path forgets the deferred unlock.
WriteGenHolding(t) ==
    LET o == PathOf(t)
    IN  /\ pc[t] = "gen"
        /\ genFile' = [genFile EXCEPT ![o] = gens[o]]
        /\ Answer(t, "ok")
        /\ owner' = owner
        /\ UNCHANGED <<file, gens, lock, host, effect, loose, budget>>

\* Variant with a bug: the write is answered before .gen is on the disk.
WriteGenLater(t) ==
    LET o == PathOf(t)
    IN  /\ pc[t] = "gen"
        /\ Unlock
        /\ Answer(t, "ok")
        /\ owner' = [owner EXCEPT ![o] = {}]
        /\ UNCHANGED <<disk, gens, host, effect, loose, budget>>

WriteGen(t) ==
    LET o == PathOf(t)
    IN  /\ pc[t] = "gen"
        /\ genFile' = [genFile EXCEPT ![o] = gens[o]]
        /\ Unlock
        /\ Answer(t, "ok")
        /\ owner' = [owner EXCEPT ![o] =
                       IF o = Path \/ file[o] # call[t].jar \/ Deleting(o) # {}
                       THEN {} ELSE {t}]
        /\ UNCHANGED <<file, gens, host, effect, loose, budget>>

-----------------------------------------------------------------------------
(* Delete. *)

\* The file goes first, without the lock.
DeleteFile(t) ==
    LET o == PathOf(t)
    IN  /\ pc[t] = "delete file"
        /\ file' = [file EXCEPT ![o] = Absent]
        /\ owner' = [owner EXCEPT ![o] = {}]
        /\ loose' = IF Writing(o) \cup Deleting(o) = {} THEN loose
                    ELSE loose \cup {o}
        /\ Goto(t, "delete gen")
        /\ UNCHANGED <<genFile, gens, lock, host, mem, effect, budget>>

DeleteGen(t) ==
    /\ pc[t] = "delete gen"
    /\ genFile' = [genFile EXCEPT ![PathOf(t)] = NoGen]
    /\ Goto(t, "delete entry")
    /\ UNCHANGED <<file, gens, lock, host, mem, history, budget>>

\* Variant with a bug: the generation of the deleted object stays.
DeleteEntryKept(t) ==
    /\ pc[t] = "delete entry" /\ lock = {}
    /\ Answer(t, "ok")
    /\ UNCHANGED <<disk, gens, lock, host, history, budget>>

\* Only the map entry is deleted under the lock.
DeleteEntry(t) ==
    /\ pc[t] = "delete entry" /\ lock = {}
    /\ gens' = [gens EXCEPT ![PathOf(t)] = 0]
    /\ Answer(t, "ok")
    /\ UNCHANGED <<disk, lock, host, history, budget>>

-----------------------------------------------------------------------------
(* Faults and crashes. *)

Fault(kind) ==
    /\ kind \in FaultKinds /\ faults < MaxFaults
    /\ faults' = faults + 1
    /\ UNCHANGED crashes

\* A system call returns an error: the rename or the read without effect, the
\* .gen file after the object and the map have changed.
Failed(t) ==
    /\ Fault("failed")
    /\ pc[t] \in {"read", "rename", "truncate", "gen", "delete file"}
    /\ Answer(t, "unavailable")
    /\ lock' = lock \ {t}
    /\ UNCHANGED <<disk, gens, host, history>>

\* The removal of a .gen file fails; Delete ignores that.
GenStays(t) ==
    /\ Fault("ignored")
    /\ pc[t] = "delete gen"
    /\ Goto(t, "delete entry")
    /\ loose' = loose \cup {PathOf(t)}
    /\ UNCHANGED <<disk, gens, lock, host, mem, effect, owner>>

\* The process dies: the memory is gone, and so are the requests.
Crash ==
    /\ host = "up" /\ crashes < MaxCrashes
    /\ crashes' = crashes + 1
    /\ host' = "down"
    /\ gens' = [o \in Paths |-> 0]
    /\ lock' = {}
    /\ pc' = [t \in Threads |-> IF t \in Active THEN "done" ELSE pc[t]]
    /\ reply' = [t \in Threads |-> IF t \in Active THEN "lost" ELSE reply[t]]
    /\ mem' = [t \in Threads |-> NoMem]
    /\ loose' = loose \cup {o \in Artifacts : Deleting(o) # {}}
    /\ UNCHANGED <<disk, call, effect, owner, faults>>

\* Variant with a bug: the generations start again with every process.
RestartFresh ==
    /\ host = "down"
    /\ IF \E o \in Paths : genFile[o] = Torn
       THEN host' = "broken" /\ UNCHANGED gens
       ELSE host' = "up" /\ UNCHANGED gens
    /\ UNCHANGED <<disk, lock, pc, call, mem, reply, history, budget>>

\* NewLocalStore loads every .gen file; one that is no number is an error, and
\* the process does not start.
Restart ==
    /\ host = "down"
    /\ IF \E o \in Paths : genFile[o] = Torn
       THEN host' = "broken" /\ UNCHANGED gens
       ELSE /\ host' = "up"
            /\ gens' = [o \in Paths |-> IF genFile[o] = NoGen THEN 0
                                        ELSE genFile[o]]
    /\ UNCHANGED <<disk, lock, pc, call, mem, reply, history, budget>>

-----------------------------------------------------------------------------

Init ==
    /\ file = [o \in Paths |-> IF o = Path THEN NoDocument ELSE Absent]
    /\ genFile = [o \in Paths |-> NoGen]
    /\ gens = [o \in Paths |-> 0]
    /\ lock = {}
    /\ host = "up"
    /\ pc = [t \in Threads |-> "idle"]
    /\ call = [t \in Threads |-> CHOOSE c \in Updates : TRUE]
    /\ mem = [t \in Threads |-> NoMem]
    /\ reply = [t \in Threads |-> ""]
    /\ effect = {}
    /\ owner = [o \in Paths |-> {}]
    /\ loose = {}
    /\ crashes = 0 /\ faults = 0

Step(t) ==
    \/ Read(t) \/ Write(t) \/ Rename(t) \/ Truncate(t) \/ WriteGen(t)
    \/ DeleteFile(t) \/ DeleteGen(t) \/ DeleteEntry(t)

Next ==
    \/ \E t \in Threads :
          \/ \E c \in Updates \cup Works : Start(t, c)
          \/ Step(t)
          \/ Failed(t) \/ GenStays(t)
    \/ Crash
    \/ Restart

Spec == Init /\ [][Next]_vars

\* A system call returns and a goroutine that waits for the mutex gets it.
FairSpec == Spec /\ \A t \in Threads : SF_vars(Step(t))

-----------------------------------------------------------------------------
(* Properties.                                                              *)

Pcs == {"idle", "read", "write", "rename", "truncate", "gen", "delete file",
        "delete gen", "delete entry", "done"}

Content(o) == IF o = Path THEN Document \cup {NoDocument} ELSE Jars \cup {Absent}

\* Type correctness; in it, at most one thread holds the mutex, and it is one
\* that is writing.
TypeOK ==
    /\ \A o \in Paths : file[o] \in Content(o)
    /\ genFile \in [Paths -> Nat \cup {NoGen, Torn}]
    /\ gens \in [Paths -> Nat]
    /\ lock = {t \in Threads : pc[t] \in {"rename", "truncate", "gen"}}
    /\ Cardinality(lock) <= 1
    /\ host \in {"up", "down", "broken"}
    /\ pc \in [Threads -> Pcs]
    /\ call \in [Threads -> Updates \cup Works]
    /\ mem \in [Threads -> [gen : Nat, doc : Document \cup {NoDocument},
                             tries : 0 .. MaxAttempts]]

IsUpdate(t) == call[t].op \notin {"put", "delete"}

\* The document as AtomicDocument has it.  An update takes effect with its
\* rename; what a request makes of the document it holds is its verdict.
Doc == INSTANCE AtomicDocument WITH
    Requests <- Threads, Calls <- Updates, Initial <- NoDocument,
    Refusal <- LicenceRefusal, Result <- WithLicence,
    doc <- file[Path],
    asked <- [t \in Threads |->
                IF pc[t] = "idle" \/ ~IsUpdate(t) THEN {} ELSE {call[t]}],
    verdict <- [t \in Threads |->
                  IF ~IsUpdate(t) THEN ""
                  ELSE IF t \in effect THEN "performed"
                  ELSE IF pc[t] = "write" THEN LicenceRefusal(call[t], mem[t].doc)
                  ELSE ""],
    answered <- [t \in Threads |-> IF IsUpdate(t) THEN reply[t] ELSE ""]

\* The document changes by whole updates, one at a time: none is lost, none is
\* applied twice, and what was answered holds, also over crashes at any system
\* call, failing calls and restarts.
UpdatesAreAtomic == Doc!Spec

Issued(d) == UNION {KeysOf(d, c) : c \in Customers}

\* A key that was in the document and is no longer, because its customer was
\* revoked, never comes back: no stale copy of the document is written.
RevokedKeysStayRevoked ==
    [][\A t \in effect : t \in Issued(file'[Path]) => t \in Issued(file[Path])]_vars

\* An artifact whose write was answered with success keeps that content until a
\* delete removes it, unless the delete was already under way: a later write
\* finds its generation, also after a crash.
PutIsKept ==
    \A o \in Artifacts : \A t \in owner[o] : file[o] = call[t].jar

\* Where there is no artifact one can be written: an absent file with a
\* generation, which refuses every write, is left behind only by a delete that
\* was interrupted, met a write of the same path or could not remove .gen.
AbsentIsWritable ==
    \A o \in Artifacts :
        (host = "up" /\ file[o] = Absent /\ gens[o] # 0)
            => Deleting(o) # {} \/ o \in loose

\* The store starts again after a crash unless a write was cut short.
BrokenByInterruptedWrite ==
    host = "broken" =>
        \E t \in effect : reply[t] \in {"lost", "unavailable"}

\* Every request to the store comes to its answer: nobody keeps the mutex.
CallsReturn == \A t \in Threads : t \in Active ~> t \notin Active

=============================================================================
