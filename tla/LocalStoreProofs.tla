---------------------------- MODULE LocalStoreProofs ----------------------------
(***************************************************************************)
(* Proofs about LocalStore, for any requests, licence operations, artifacts  *)
(* and attempts, with crashes and failing system calls.                      *)
(***************************************************************************)
EXTENDS LocalStore, FiniteSetTheorems, TLAPS

-----------------------------------------------------------------------------
(* The inductive invariant, in parts. *)

Docs == Document \cup {NoDocument}
Holding == {"rename", "truncate", "gen"}
Replies == {"", "ok", "storageConflict", "unavailable", "lost", "conflict",
            "notFound", "internalError"}

\* TypeOK but for the lock, with the history variables.
Typed ==
    /\ DOMAIN file = Paths /\ \A o \in Paths : file[o] \in Content(o)
    /\ genFile \in [Paths -> Nat \cup {NoGen, Torn}]
    /\ gens \in [Paths -> Nat]
    /\ host \in {"up", "down", "broken"}
    /\ pc \in [Threads -> Pcs]
    /\ call \in [Threads -> Updates \cup Works]
    /\ mem \in [Threads -> [gen : Nat, doc : Docs, tries : 0 .. MaxAttempts]]
    /\ reply \in [Threads -> Replies]
    /\ effect \subseteq Threads
    /\ DOMAIN owner = Paths
    /\ loose \subseteq Artifacts

\* One thread at most is between the comparison of the generation and the .gen file.
Mutex ==
    /\ lock = {t \in Threads : pc[t] \in Holding}
    /\ \A t, u \in lock : t = u

\* What a thread is and has done, by where it is.
ThreadOK(t) ==
    /\ host # "up" => pc[t] \in {"idle", "done"}
    /\ reply[t] = "" <=> pc[t] # "done"
    /\ pc[t] = "idle" => mem[t] = NoMem
    /\ pc[t] = "read" => IsUpdate(t)
    /\ pc[t] \in {"write", "rename", "truncate", "gen"} => call[t].op # "delete"
    /\ pc[t] \in {"delete file", "delete gen", "delete entry"} => call[t].op = "delete"
    /\ pc[t] \in {"truncate", "gen"} => t \in effect
    /\ pc[t] \notin {"truncate", "gen", "done"} => t \notin effect
    /\ pc[t] = "write" /\ IsUpdate(t) => mem[t].tries < MaxAttempts
    /\ pc[t] = "write" /\ ~IsUpdate(t) => mem[t].gen = 0

\* The document a thread holds is the stored one if the generations agree, and
\* they do once the thread has the lock.
Fresh(t) ==
    IsUpdate(t) =>
      /\ pc[t] = "write" =>
            /\ mem[t].gen <= gens[Path]
            /\ mem[t].gen = gens[Path] => mem[t].doc = file[Path]
      /\ pc[t] = "rename" =>
            /\ mem[t].doc = file[Path]
            /\ LicenceRefusal(call[t], mem[t].doc) = ""

\* The document has no generation before it is there.
NoDocNoGen == file[Path] = NoDocument => gens[Path] = 0 /\ genFile[Path] = NoGen

Sound == Typed /\ Mutex /\ \A t \in Threads : ThreadOK(t)
Current == NoDocNoGen /\ \A t \in Threads : Fresh(t)

\* A path that is being written has its generation in the map.
WriterHasGen ==
    \A t \in Threads : pc[t] \in {"truncate", "gen"} => gens[PathOf(t)] # 0

\* An artifact that is due to a put: nobody is replacing or deleting it, and its
\* generation keeps the next put away, also after a restart.
Due(o) ==
    \A t \in owner[o] :
        /\ pc[t] = "done" /\ file[o] = call[t].jar
        /\ genFile[o] \notin {NoGen, 0}
        /\ host = "up" => gens[o] # 0
        /\ Writing(o) = {} /\ Deleting(o) = {}
Owned == \A o \in Artifacts : owner[o] \subseteq Threads /\ Due(o)

\* An artifact without a file: its generation is about to go, or is known to be left.
Vacant ==
    /\ \A t \in Threads :
          pc[t] \in {"truncate", "gen"} /\ file[PathOf(t)] = Absent
             => PathOf(t) \in loose \cup {Path}
    /\ \A o \in Artifacts :
          file[o] = Absent /\ genFile[o] # NoGen =>
             o \in loose \/ \E t \in Threads : pc[t] = "delete gen" /\ PathOf(t) = o

\* A .gen file that is cut short: its writer is at it, or was interrupted.
TornOK ==
    \A o \in Paths : genFile[o] = Torn =>
        \E t \in effect :
            (pc[t] = "gen" /\ PathOf(t) = o) \/ reply[t] \in {"lost", "unavailable"}

-----------------------------------------------------------------------------
(* What the operators return. *)

LEMMA CallTyped ==
    ASSUME Typed, NEW t \in Threads
    PROVE  /\ IsUpdate(t) => call[t] \in Updates /\ call[t] \in LicenceCall /\ PathOf(t) = Path
           /\ ~IsUpdate(t) => /\ call[t] \in Works /\ call[t].jar \in Jars
                              /\ PathOf(t) \in Artifacts /\ PathOf(t) # Path
           /\ PathOf(t) \in Paths
<1>1. \A c \in Updates : c.op \notin {"put", "delete"} /\ c \in LicenceCall
  BY StoreAssumption DEF LicenceCall
<1>2. \A c \in Works : /\ c.op \in {"put", "delete"}
                       /\ c.path \in Artifacts /\ c.path # Path /\ c.jar \in Jars
  BY StoreAssumption DEF Work
<1>3. call[t] \in Updates \cup Works
  BY DEF Typed
<1>4. CASE call[t] \in Updates
  BY <1>1, <1>4 DEF IsUpdate, PathOf, Paths
<1>5. CASE call[t] \in Works
  BY <1>2, <1>5 DEF IsUpdate, PathOf, Paths
<1> QED
  BY <1>3, <1>4, <1>5

\* The refusals are none of the other answers.
LEMMA RefusalTyped ==
    ASSUME NEW c \in LicenceCall, NEW d
    PROVE  LicenceRefusal(c, d) \in {"", "conflict", "notFound", "internalError"}
<1>1. c.op \in {"create", "revoke", "rotate"}
  BY DEF LicenceCall
<1>2. CASE c.op = "create"
  BY <1>2 DEF LicenceRefusal
<1>3. CASE c.op # "create" /\ d = NoDocument
  BY <1>3 DEF LicenceRefusal
<1>4. CASE c.op # "create" /\ d # NoDocument
  BY <1>4 DEF LicenceRefusal
<1> QED
  BY <1>2, <1>3, <1>4

\* An operation that is not refused writes a document; it may add its own key.
LEMMA WithLicenceTyped ==
    ASSUME NEW c \in LicenceCall, NEW k \in Keys, NEW d \in Docs, LicenceRefusal(c, d) = ""
    PROVE  /\ WithLicence(c, k, d) \in Document
           /\ \A x \in Customers :
                 KeysOf(WithLicence(c, k, d), x) \subseteq KeysOf(d, x) \cup {k}
<1> DEFINE h == Held(d)
           w == WithLicence(c, k, d)
           x == c.customer
<1>1. /\ c.op \in {"create", "revoke", "rotate"}
      /\ x \in Customers /\ c.until \in Instants
  BY DEF LicenceCall
<1>2. h \in Document
  BY DEF Docs, Held, NoEntitlements, Document
<1>3. \A e \in Document : Held(e) = e
  <2>1. NoDocument \notin Document
    BY LicenceAssumption DEF Document, Entitlement
  <2> QED
    BY <2>1 DEF Held
<1>4. NoEntitlement \notin Entitlement
  BY LicenceAssumption DEF Entitlement
<1>5. ASSUME NEW e \in Entitlement \cup {NoEntitlement},
             w = [h EXCEPT ![x] = e],
             e # NoEntitlement => e.keys \subseteq KeysOf(d, x) \cup {k}
      PROVE  /\ w \in Document
             /\ \A y \in Customers : KeysOf(w, y) \subseteq KeysOf(d, y) \cup {k}
  <2>1. w \in Document
    BY <1>1, <1>2, <1>5 DEF Document
  <2>2. Held(w) = w
    BY <1>3, <2>1
  <2>3. \A y \in Customers : w[y] = IF y = x THEN e ELSE h[y]
    BY <1>1, <1>2, <1>5 DEF Document
  <2> HIDE DEF w, h
  <2>4. ASSUME NEW y \in Customers
        PROVE  KeysOf(w, y) \subseteq KeysOf(d, y) \cup {k}
    <3>1. CASE y = x
      BY <1>5, <2>2, <2>3, <3>1 DEF KeysOf
    <3>2. CASE y # x
      BY <2>2, <2>3, <3>2 DEF KeysOf, h
    <3> QED
      BY <3>1, <3>2
  <2> QED
    BY <2>1, <2>4
<1>6. CASE c.op = "create"
  <2>1. w = [h EXCEPT ![x] = [keys |-> {k}, until |-> c.until]]
    BY <1>6 DEF WithLicence
  <2>2. [keys |-> {k}, until |-> c.until] \in Entitlement
    BY <1>1 DEF Entitlement
  <2> QED
    BY <1>5, <2>1, <2>2
<1>7. CASE c.op = "revoke"
  <2>1. w = [h EXCEPT ![x] = NoEntitlement]
    BY <1>7 DEF WithLicence
  <2> QED
    BY <1>5, <2>1
<1>8. CASE c.op = "rotate"
  <2>1. d # NoDocument /\ h = d
    BY <1>8 DEF LicenceRefusal, Held
  <2>2. d[x] # NoEntitlement
    BY <1>8, <2>1 DEF LicenceRefusal
  <2>3. h[x] \in Entitlement
    BY <1>1, <1>2, <2>1, <2>2 DEF Document
  <2> DEFINE e == [h[x] EXCEPT !.keys = @ \cup {k}]
  <2>4. w = [h EXCEPT ![x] = e]
    BY <1>1, <1>2, <1>8 DEF WithLicence, Document
  <2>5. e \in Entitlement /\ e.keys = h[x].keys \cup {k}
    BY <2>3 DEF Entitlement
  <2>6. KeysOf(d, x) = h[x].keys
    BY <2>1, <2>2 DEF KeysOf
  <2> HIDE DEF e
  <2> QED
    BY <1>5, <2>4, <2>5, <2>6
<1> QED
  BY <1>1, <1>6, <1>7, <1>8

-----------------------------------------------------------------------------
(* How a thread moves. *)

\* Only t moves.
Alone(t) == \A u \in Threads \ {t} :
    /\ pc'[u] = pc[u] /\ call'[u] = call[u]
    /\ mem'[u] = mem[u] /\ reply'[u] = reply[u]

LEMMA NextGeneration == \A g \in Nat : g + 1 \in Nat /\ g + 1 > g
OBVIOUS

LEMMA NoMemTyped == NoMem \in [gen : Nat, doc : Docs, tries : 0 .. MaxAttempts]
BY StoreAssumption DEF NoMem, Docs

LEMMA GotoIs ==
    ASSUME Typed, NEW t \in Threads, NEW there \in Pcs, Goto(t, there)
    PROVE  /\ pc' \in [Threads -> Pcs] /\ pc'[t] = there
           /\ call' = call /\ reply' = reply
           /\ \A u \in Threads \ {t} : pc'[u] = pc[u]
BY DEF Typed, Goto

LEMMA AnswerIs ==
    ASSUME Typed, NEW t \in Threads, NEW code \in Replies, Answer(t, code)
    PROVE  /\ pc' \in [Threads -> Pcs] /\ pc'[t] = "done"
           /\ call' = call
           /\ reply' \in [Threads -> Replies] /\ reply'[t] = code
           /\ mem' \in [Threads -> [gen : Nat, doc : Docs, tries : 0 .. MaxAttempts]]
           /\ mem'[t] = NoMem
           /\ Alone(t)
<1>1. "done" \in Pcs
  BY DEF Pcs
<1> QED
  BY <1>1, NoMemTyped DEF Typed, Answer, Alone

LEMMA OthersThreadOK ==
    ASSUME NEW u \in Threads, ThreadOK(u),
           pc'[u] = pc[u], call'[u] = call[u], mem'[u] = mem[u], reply'[u] = reply[u],
           u \in effect' <=> u \in effect, host = "up" => host' = "up"
    PROVE  ThreadOK(u)'
BY DEF ThreadOK, IsUpdate

\* The three ways a step treats the mutex.
LEMMA LockStays ==
    ASSUME Mutex, NEW t \in Threads, lock' = lock,
           pc'[t] \in Holding <=> pc[t] \in Holding,
           \A u \in Threads \ {t} : pc'[u] = pc[u]
    PROVE  Mutex'
BY DEF Mutex

LEMMA LockTaken ==
    ASSUME Mutex, NEW t \in Threads, lock = {}, lock' = {t}, pc'[t] \in Holding,
           \A u \in Threads \ {t} : pc'[u] = pc[u]
    PROVE  Mutex'
BY DEF Mutex

LEMMA LockGiven ==
    ASSUME Mutex, NEW t \in Threads, lock' = lock \ {t}, pc'[t] \notin Holding,
           \A u \in Threads \ {t} : pc'[u] = pc[u]
    PROVE  Mutex'
BY DEF Mutex

\* The holder gives the mutex up by emptying the lock.
LEMMA HolderIsAlone ==
    ASSUME Mutex, NEW t \in Threads, pc[t] \in Holding
    PROVE  lock = {t} /\ lock \ {t} = {}
BY DEF Mutex

-----------------------------------------------------------------------------
(* Sound: typing, the mutex, and what each thread is. *)

LEMMA SoundStart ==
    ASSUME Sound, NEW t \in Threads, NEW c \in Updates \cup Works, Start(t, c)
    PROVE  Sound'
<1> DEFINE there == CASE c.op = "put"    -> "write"
                      [] c.op = "delete" -> "delete file"
                      [] OTHER           -> "read"
<1>0. there \in {"write", "delete file", "read"}
  BY DEF Start
<1>1. /\ host = "up" /\ pc[t] = "idle"
      /\ call' = [call EXCEPT ![t] = c]
      /\ pc' = [pc EXCEPT ![t] = there]
      /\ UNCHANGED <<disk, gens, lock, host, mem, reply, history>>
  BY DEF Start
<1> HIDE DEF there
<1>2. Typed /\ ThreadOK(t) /\ Mutex
  BY DEF Sound
<1>3. /\ pc' \in [Threads -> Pcs] /\ pc'[t] = there
      /\ call' \in [Threads -> Updates \cup Works] /\ call'[t] = c
      /\ \A u \in Threads \ {t} : pc'[u] = pc[u] /\ call'[u] = call[u]
  BY <1>0, <1>1, <1>2 DEF Typed, Pcs
<1>4. Typed'
  BY <1>1, <1>2, <1>3 DEF Typed, disk, history
<1>5. Mutex'
  BY <1>0, <1>1, <1>2, <1>3, LockStays DEF Holding
<1>6. ThreadOK(t)'
  <2>1. /\ reply'[t] = "" /\ mem'[t] = NoMem /\ t \notin effect' /\ host' = "up"
    BY <1>1, <1>2 DEF ThreadOK, history
  <2>2. c.op = "delete" <=> there = "delete file"
    BY DEF there
  <2>3. c.op \in {"put", "delete"} <=> there # "read"
    BY DEF there
  <2>4. NoMem.gen = 0
    BY DEF NoMem
  <2>5. IsUpdate(t)' <=> there = "read"
    BY <1>0, <1>3, <2>3 DEF IsUpdate
  <2> QED
    BY <1>0, <1>3, <2>1, <2>2, <2>4, <2>5 DEF ThreadOK
<1>7. \A u \in Threads \ {t} : ThreadOK(u)'
  BY <1>1, <1>3, OthersThreadOK DEF Sound, history
<1> QED
  BY <1>4, <1>5, <1>6, <1>7 DEF Sound

LEMMA SoundRead ==
    ASSUME Sound, NEW t \in Threads, Read(t)
    PROVE  Sound'
<1>1. Typed /\ Mutex /\ ThreadOK(t) /\ (\A u \in Threads : ThreadOK(u))
  BY DEF Sound
<1>2. /\ pc[t] = "read" /\ lock = {} /\ IsUpdate(t) /\ t \notin effect
      /\ UNCHANGED <<file, genFile, gens, lock, host, effect, owner, loose>>
  BY <1>1 DEF Read, ThreadOK, disk, history
<1>3. CASE mem[t].tries = MaxAttempts
  <2>1. Answer(t, "storageConflict")
    BY <1>3 DEF Read
  <2>2. "storageConflict" \in Replies
    BY DEF Replies
  <2>3. /\ pc' \in [Threads -> Pcs] /\ pc'[t] = "done"
        /\ call' = call
        /\ reply' \in [Threads -> Replies] /\ reply'[t] = "storageConflict"
        /\ mem' \in [Threads -> [gen : Nat, doc : Docs, tries : 0 .. MaxAttempts]]
        /\ mem'[t] = NoMem
        /\ Alone(t)
    BY <1>1, <2>1, <2>2, AnswerIs
  <2>4. Typed'
    BY <1>1, <1>2, <2>3 DEF Typed
  <2>5. Mutex'
    BY <1>1, <1>2, <2>3, LockStays DEF Holding, Alone
  <2>6. ThreadOK(t)'
    BY <1>1, <1>2, <2>3 DEF ThreadOK
  <2>7. \A u \in Threads \ {t} : ThreadOK(u)'
    BY <1>1, <1>2, <2>3, OthersThreadOK DEF Alone
  <2> QED
    BY <2>4, <2>5, <2>6, <2>7 DEF Sound
<1>4. CASE mem[t].tries # MaxAttempts
  <2> DEFINE g == IF file[Path] = NoDocument THEN 0 ELSE gens[Path]
  <2>1. /\ Goto(t, "write")
        /\ mem' = [mem EXCEPT ![t].doc = file[Path], ![t].gen = g]
    BY <1>4 DEF Read
  <2>2. /\ pc' \in [Threads -> Pcs] /\ pc'[t] = "write"
        /\ call' = call /\ reply' = reply
        /\ \A u \in Threads \ {t} : pc'[u] = pc[u]
    BY <1>1, <2>1, GotoIs DEF Pcs
  <2>3. file[Path] \in Docs /\ g \in Nat
    BY <1>1 DEF Typed, Content, Docs, Paths
  <2>4. /\ mem' \in [Threads -> [gen : Nat, doc : Docs, tries : 0 .. MaxAttempts]]
        /\ mem'[t].tries = mem[t].tries
        /\ \A u \in Threads \ {t} : mem'[u] = mem[u]
    BY <1>1, <2>1, <2>3 DEF Typed
  <2> HIDE DEF g
  <2>5. Typed'
    BY <1>1, <1>2, <2>2, <2>4 DEF Typed
  <2>6. Mutex'
    BY <1>1, <1>2, <2>2, LockStays DEF Holding
  <2>7. mem[t].tries < MaxAttempts
    <3>1. mem[t].tries \in 0 .. MaxAttempts
      BY <1>1 DEF Typed
    <3> QED
      BY <1>4, <3>1, StoreAssumption
  <2>8. ThreadOK(t)'
    BY <1>1, <1>2, <2>2, <2>4, <2>7 DEF ThreadOK, IsUpdate
  <2>9. \A u \in Threads \ {t} : ThreadOK(u)'
    BY <1>1, <1>2, <2>2, <2>4, OthersThreadOK
  <2> QED
    BY <2>5, <2>6, <2>8, <2>9 DEF Sound
<1> QED
  BY <1>3, <1>4

LEMMA SoundWrite ==
    ASSUME Sound, NEW t \in Threads, Write(t)
    PROVE  Sound'
<1> DEFINE refusal == IF IsUpdate(t) THEN LicenceRefusal(call[t], mem[t].doc) ELSE ""
<1>1. Typed /\ Mutex /\ ThreadOK(t) /\ (\A u \in Threads : ThreadOK(u))
  BY DEF Sound
<1>2. /\ pc[t] = "write" /\ t \notin effect /\ call[t].op # "delete"
      /\ UNCHANGED <<file, genFile, gens, host, effect, owner, loose>>
  BY <1>1 DEF Write, ThreadOK, disk, history
<1>3. \/ refusal # "" /\ Answer(t, refusal) /\ lock' = lock
      \/ lock = {} /\ lock' = {t} /\ Goto(t, "rename") /\ UNCHANGED mem
      \/ ~IsUpdate(t) /\ Answer(t, "storageConflict") /\ lock' = lock
      \/ /\ IsUpdate(t) /\ mem' = [mem EXCEPT ![t].tries = @ + 1]
         /\ Goto(t, "read") /\ lock' = lock
  BY DEF Write, IsUpdate
<1>4. refusal \in Replies
  BY <1>1, CallTyped, RefusalTyped DEF Replies
<1> HIDE DEF refusal
<1>5. ASSUME NEW code \in Replies \ {""}, Answer(t, code), lock' = lock
      PROVE  Sound'
  <2>1. /\ pc' \in [Threads -> Pcs] /\ pc'[t] = "done"
        /\ call' = call
        /\ reply' \in [Threads -> Replies] /\ reply'[t] = code
        /\ mem' \in [Threads -> [gen : Nat, doc : Docs, tries : 0 .. MaxAttempts]]
        /\ mem'[t] = NoMem
        /\ Alone(t)
    BY <1>1, <1>5, AnswerIs
  <2>2. Typed'
    BY <1>1, <1>2, <2>1 DEF Typed
  <2>3. Mutex'
    BY <1>1, <1>2, <1>5, <2>1, LockStays DEF Holding, Alone
  <2>4. ThreadOK(t)'
    BY <1>1, <1>2, <1>5, <2>1 DEF ThreadOK
  <2>5. \A u \in Threads \ {t} : ThreadOK(u)'
    BY <1>1, <1>2, <2>1, OthersThreadOK DEF Alone
  <2> QED
    BY <2>2, <2>3, <2>4, <2>5 DEF Sound
<1>6. CASE lock = {} /\ lock' = {t} /\ Goto(t, "rename") /\ UNCHANGED mem
  <2>1. /\ pc' \in [Threads -> Pcs] /\ pc'[t] = "rename"
        /\ call' = call /\ reply' = reply
        /\ \A u \in Threads \ {t} : pc'[u] = pc[u]
    BY <1>1, <1>6, GotoIs DEF Pcs
  <2>2. Typed'
    BY <1>1, <1>2, <1>6, <2>1 DEF Typed
  <2>3. Mutex'
    BY <1>1, <1>2, <1>6, <2>1, LockTaken DEF Holding
  <2>4. ThreadOK(t)'
    BY <1>1, <1>2, <1>6, <2>1 DEF ThreadOK
  <2>5. \A u \in Threads \ {t} : ThreadOK(u)'
    BY <1>1, <1>2, <1>6, <2>1, OthersThreadOK
  <2> QED
    BY <2>2, <2>3, <2>4, <2>5 DEF Sound
<1>7. CASE /\ IsUpdate(t) /\ mem' = [mem EXCEPT ![t].tries = @ + 1]
           /\ Goto(t, "read") /\ lock' = lock
  <2>1. /\ pc' \in [Threads -> Pcs] /\ pc'[t] = "read"
        /\ call' = call /\ reply' = reply
        /\ \A u \in Threads \ {t} : pc'[u] = pc[u]
    BY <1>1, <1>7, GotoIs DEF Pcs
  <2>2. mem[t].tries + 1 \in 0 .. MaxAttempts
    <3>1. mem[t].tries \in 0 .. MaxAttempts /\ mem[t].tries < MaxAttempts
      BY <1>1, <1>2, <1>7 DEF Typed, ThreadOK
    <3> QED
      BY <3>1, StoreAssumption
  <2>3. /\ mem' \in [Threads -> [gen : Nat, doc : Docs, tries : 0 .. MaxAttempts]]
        /\ \A u \in Threads \ {t} : mem'[u] = mem[u]
    BY <1>1, <1>7, <2>2 DEF Typed
  <2>4. Typed'
    BY <1>1, <1>2, <2>1, <2>3 DEF Typed
  <2>5. Mutex'
    BY <1>1, <1>2, <1>7, <2>1, LockStays DEF Holding
  <2>6. ThreadOK(t)'
    BY <1>1, <1>2, <1>7, <2>1 DEF ThreadOK, IsUpdate
  <2>7. \A u \in Threads \ {t} : ThreadOK(u)'
    BY <1>1, <1>2, <2>1, <2>3, OthersThreadOK
  <2> QED
    BY <2>4, <2>5, <2>6, <2>7 DEF Sound
<1>8. "storageConflict" \in Replies \ {""}
  BY DEF Replies
<1> QED
  BY <1>3, <1>4, <1>5, <1>6, <1>7, <1>8

\* What a write puts into an object is of the kind that belongs there.
LEMMA SoundRename ==
    ASSUME Sound, NEW t \in Threads, Rename(t),
           IsUpdate(t) => LicenceRefusal(call[t], mem[t].doc) = ""
    PROVE  Sound'
<1> DEFINE o == PathOf(t)
           new == IF o = Path THEN WithLicence(call[t], t, mem[t].doc) ELSE call[t].jar
<1>1. Typed /\ Mutex /\ ThreadOK(t) /\ (\A u \in Threads : ThreadOK(u))
  BY DEF Sound
<1>2. /\ pc[t] = "rename" /\ Goto(t, "truncate")
      /\ file' = [file EXCEPT ![o] = new]
      /\ gens' = [gens EXCEPT ![o] = @ + 1]
      /\ effect' = effect \cup {t}
      /\ loose' = IF Deleting(o) = {} THEN loose ELSE loose \cup {o}
      /\ UNCHANGED <<genFile, lock, host, mem, owner>>
  BY DEF Rename
<1>3. /\ pc' \in [Threads -> Pcs] /\ pc'[t] = "truncate"
      /\ call' = call /\ reply' = reply
      /\ \A u \in Threads \ {t} : pc'[u] = pc[u]
  BY <1>1, <1>2, GotoIs DEF Pcs
<1>4. new \in Content(o) /\ o \in Paths
  <2>1. CASE IsUpdate(t)
    <3>1. o = Path /\ call[t] \in LicenceCall /\ o \in Paths
      BY <1>1, <2>1, CallTyped
    <3>2. t \in Keys /\ mem[t].doc \in Docs
      BY <1>1, StoreAssumption DEF Typed
    <3>3. new \in Document
      BY <2>1, <3>1, <3>2, WithLicenceTyped
    <3> QED
      BY <3>1, <3>3 DEF Content
  <2>2. CASE ~IsUpdate(t)
    BY <1>1, <2>2, CallTyped DEF Content
  <2> QED
    BY <2>1, <2>2
<1>5. loose' \subseteq Artifacts
  <2>1. CASE IsUpdate(t)
    <3>1. Deleting(o) = {}
      <4>1. o = Path
        BY <1>1, <2>1, CallTyped
      <4>2. \A u \in Threads : pc[u] \in {"delete gen", "delete entry"} => PathOf(u) # Path
        BY <1>1, CallTyped DEF ThreadOK, IsUpdate
      <4> QED
        BY <4>1, <4>2 DEF Deleting, Active
    <3> QED
      BY <1>1, <1>2, <3>1 DEF Typed
  <2>2. CASE ~IsUpdate(t)
    BY <1>1, <1>2, <2>2, CallTyped DEF Typed
  <2> QED
    BY <2>1, <2>2
<1> HIDE DEF new, o
<1>6. Typed'
  <2>1. DOMAIN file' = Paths /\ \A p \in Paths : file'[p] \in Content(p)
    BY <1>1, <1>2, <1>4 DEF Typed
  <2>2. gens' \in [Paths -> Nat]
    <3>1. gens \in [Paths -> Nat]
      BY <1>1 DEF Typed
    <3>2. o \in Paths
      BY <1>4
    <3>3. gens[o] \in Nat
      BY <3>1, <3>2
    <3>4. gens[o] + 1 \in Nat
      BY <3>3, NextGeneration
    <3> QED
      BY <1>2, <3>1, <3>4
  <2> QED
    BY <1>1, <1>2, <1>3, <1>5, <2>1, <2>2 DEF Typed
<1>7. Mutex'
  BY <1>1, <1>2, <1>3, LockStays DEF Holding
<1>8. ThreadOK(t)'
  BY <1>1, <1>2, <1>3 DEF ThreadOK
<1>9. \A u \in Threads \ {t} : ThreadOK(u)'
  BY <1>1, <1>2, <1>3, OthersThreadOK
<1> QED
  BY <1>6, <1>7, <1>8, <1>9 DEF Sound

LEMMA SoundTruncate ==
    ASSUME Sound, NEW t \in Threads, Truncate(t)
    PROVE  Sound'
<1>1. Typed /\ Mutex /\ ThreadOK(t) /\ (\A u \in Threads : ThreadOK(u))
  BY DEF Sound
<1>2. /\ pc[t] = "truncate" /\ Goto(t, "gen")
      /\ genFile' = [genFile EXCEPT ![PathOf(t)] = Torn]
      /\ UNCHANGED <<file, gens, lock, host, mem, effect, owner, loose>>
  BY DEF Truncate, history
<1>3. /\ pc' \in [Threads -> Pcs] /\ pc'[t] = "gen"
      /\ call' = call /\ reply' = reply
      /\ \A u \in Threads \ {t} : pc'[u] = pc[u]
  BY <1>1, <1>2, GotoIs DEF Pcs
<1>4. Typed'
  BY <1>1, <1>2, <1>3 DEF Typed
<1>5. Mutex'
  BY <1>1, <1>2, <1>3, LockStays DEF Holding
<1>6. ThreadOK(t)'
  BY <1>1, <1>2, <1>3 DEF ThreadOK
<1>7. \A u \in Threads \ {t} : ThreadOK(u)'
  BY <1>1, <1>2, <1>3, OthersThreadOK
<1> QED
  BY <1>4, <1>5, <1>6, <1>7 DEF Sound

LEMMA SoundWriteGen ==
    ASSUME Sound, NEW t \in Threads, WriteGen(t)
    PROVE  Sound'
<1>1. Typed /\ Mutex /\ ThreadOK(t) /\ (\A u \in Threads : ThreadOK(u))
  BY DEF Sound
<1>2. /\ pc[t] = "gen" /\ Answer(t, "ok") /\ lock' = {}
      /\ genFile' = [genFile EXCEPT ![PathOf(t)] = gens[PathOf(t)]]
      /\ DOMAIN owner' = DOMAIN owner
      /\ UNCHANGED <<file, gens, host, effect, loose>>
  BY DEF WriteGen, Unlock
<1>3. /\ pc' \in [Threads -> Pcs] /\ pc'[t] = "done"
      /\ call' = call
      /\ reply' \in [Threads -> Replies] /\ reply'[t] = "ok"
      /\ mem' \in [Threads -> [gen : Nat, doc : Docs, tries : 0 .. MaxAttempts]]
      /\ mem'[t] = NoMem
      /\ Alone(t)
  BY <1>1, <1>2, AnswerIs DEF Replies
<1>4. Typed'
  <2>1. gens[PathOf(t)] \in Nat
    BY <1>1, CallTyped DEF Typed
  <2>2. genFile' \in [Paths -> Nat \cup {NoGen, Torn}]
    BY <1>1, <1>2, <2>1 DEF Typed
  <2> QED
    BY <1>1, <1>2, <1>3, <2>2 DEF Typed
<1>5. Mutex'
  BY <1>1, <1>2, <1>3, LockGiven, HolderIsAlone DEF Holding, Alone
<1>6. ThreadOK(t)'
  BY <1>1, <1>2, <1>3 DEF ThreadOK
<1>7. \A u \in Threads \ {t} : ThreadOK(u)'
  BY <1>1, <1>2, <1>3, OthersThreadOK DEF Alone
<1> QED
  BY <1>4, <1>5, <1>6, <1>7 DEF Sound

\* A path that is deleted is the path of an artifact.
LEMMA DeletedIsArtifact ==
    ASSUME Typed, NEW t \in Threads, ThreadOK(t),
           pc[t] \in {"delete file", "delete gen", "delete entry"}
    PROVE  /\ PathOf(t) \in Artifacts /\ PathOf(t) \in Paths /\ PathOf(t) # Path
           /\ ~IsUpdate(t)
<1>1. call[t].op = "delete"
  BY DEF ThreadOK
<1>2. ~IsUpdate(t)
  BY <1>1 DEF IsUpdate
<1> QED
  BY <1>2, CallTyped

LEMMA SoundDeleteFile ==
    ASSUME Sound, NEW t \in Threads, DeleteFile(t)
    PROVE  Sound'
<1> DEFINE o == PathOf(t)
<1>1. Typed /\ Mutex /\ ThreadOK(t) /\ (\A u \in Threads : ThreadOK(u))
  BY DEF Sound
<1>2. /\ pc[t] = "delete file" /\ Goto(t, "delete gen")
      /\ file' = [file EXCEPT ![o] = Absent]
      /\ DOMAIN owner' = DOMAIN owner
      /\ loose' = loose \/ loose' = loose \cup {o}
      /\ UNCHANGED <<genFile, gens, lock, host, mem, effect>>
  BY DEF DeleteFile
<1>3. /\ pc' \in [Threads -> Pcs] /\ pc'[t] = "delete gen"
      /\ call' = call /\ reply' = reply
      /\ \A u \in Threads \ {t} : pc'[u] = pc[u]
  BY <1>1, <1>2, GotoIs DEF Pcs
<1>4. o \in Artifacts /\ o \in Paths /\ o # Path
  BY <1>1, <1>2, DeletedIsArtifact
<1> HIDE DEF o
<1>5. Typed'
  <2>1. Absent \in Content(o)
    BY <1>4 DEF Content
  <2>2. DOMAIN file' = Paths /\ \A p \in Paths : file'[p] \in Content(p)
    BY <1>1, <1>2, <1>4, <2>1 DEF Typed
  <2> QED
    BY <1>1, <1>2, <1>3, <1>4, <2>2 DEF Typed
<1>6. Mutex'
  BY <1>1, <1>2, <1>3, LockStays DEF Holding
<1>7. ThreadOK(t)'
  BY <1>1, <1>2, <1>3 DEF ThreadOK
<1>8. \A u \in Threads \ {t} : ThreadOK(u)'
  BY <1>1, <1>2, <1>3, OthersThreadOK
<1> QED
  BY <1>5, <1>6, <1>7, <1>8 DEF Sound

LEMMA SoundDeleteGen ==
    ASSUME Sound, NEW t \in Threads, pc[t] = "delete gen", Goto(t, "delete entry"),
           genFile' \in {genFile, [genFile EXCEPT ![PathOf(t)] = NoGen]},
           loose' \in {loose, loose \cup {PathOf(t)}},
           UNCHANGED <<file, gens, lock, host, mem, effect, owner>>
    PROVE  Sound'
<1>1. Typed /\ Mutex /\ ThreadOK(t) /\ (\A u \in Threads : ThreadOK(u))
  BY DEF Sound
<1>2. /\ pc' \in [Threads -> Pcs] /\ pc'[t] = "delete entry"
      /\ call' = call /\ reply' = reply
      /\ \A u \in Threads \ {t} : pc'[u] = pc[u]
  BY <1>1, GotoIs DEF Pcs
<1>3. PathOf(t) \in Artifacts /\ PathOf(t) \in Paths
  BY <1>1, DeletedIsArtifact
<1>4. Typed'
  BY <1>1, <1>2, <1>3 DEF Typed
<1>5. Mutex'
  BY <1>1, <1>2, LockStays DEF Holding
<1>6. ThreadOK(t)'
  BY <1>1, <1>2 DEF ThreadOK
<1>7. \A u \in Threads \ {t} : ThreadOK(u)'
  BY <1>1, <1>2, OthersThreadOK
<1> QED
  BY <1>4, <1>5, <1>6, <1>7 DEF Sound

\* A request that is answered and leaves the files and the map well typed.
LEMMA SoundAnswer ==
    ASSUME Sound, NEW t \in Threads, pc[t] # "done",
           NEW code \in Replies \ {""}, Answer(t, code), lock' = lock \ {t},
           gens' \in [Paths -> Nat],
           UNCHANGED <<file, genFile, host, effect, owner, loose>>
    PROVE  Sound'
<1>1. Typed /\ Mutex /\ ThreadOK(t) /\ (\A u \in Threads : ThreadOK(u))
  BY DEF Sound
<1>2. /\ pc' \in [Threads -> Pcs] /\ pc'[t] = "done"
      /\ call' = call
      /\ reply' \in [Threads -> Replies] /\ reply'[t] = code
      /\ mem' \in [Threads -> [gen : Nat, doc : Docs, tries : 0 .. MaxAttempts]]
      /\ mem'[t] = NoMem
      /\ Alone(t)
  BY <1>1, AnswerIs
<1>3. Typed'
  BY <1>1, <1>2 DEF Typed
<1>4. Mutex'
  BY <1>1, <1>2, LockGiven DEF Holding, Alone
<1>5. ThreadOK(t)'
  BY <1>1, <1>2 DEF ThreadOK
<1>6. \A u \in Threads \ {t} : ThreadOK(u)'
  BY <1>1, <1>2, OthersThreadOK DEF Alone
<1> QED
  BY <1>3, <1>4, <1>5, <1>6 DEF Sound

LEMMA SoundDeleteEntry ==
    ASSUME Sound, NEW t \in Threads, DeleteEntry(t)
    PROVE  Sound'
<1>1. /\ pc[t] = "delete entry" /\ lock = {} /\ Answer(t, "ok")
      /\ gens' = [gens EXCEPT ![PathOf(t)] = 0]
      /\ UNCHANGED <<file, genFile, lock, host, effect, owner, loose>>
  BY DEF DeleteEntry, disk, history
<1>2. gens' \in [Paths -> Nat]
  BY <1>1 DEF Sound, Typed
<1>3. "ok" \in Replies \ {""}
  BY DEF Replies
<1> QED
  BY <1>1, <1>2, <1>3, SoundAnswer

LEMMA SoundFailed ==
    ASSUME Sound, NEW t \in Threads, Failed(t)
    PROVE  Sound'
<1>1. /\ pc[t] # "done" /\ Answer(t, "unavailable") /\ lock' = lock \ {t}
      /\ UNCHANGED <<file, genFile, gens, host, effect, owner, loose>>
  BY DEF Failed, disk, history
<1>2. gens' \in [Paths -> Nat]
  BY <1>1 DEF Sound, Typed
<1>3. "unavailable" \in Replies \ {""}
  BY DEF Replies
<1> QED
  BY <1>1, <1>2, <1>3, SoundAnswer

LEMMA CrashIs ==
    ASSUME Typed, Crash
    PROVE  \A t \in Threads :
             /\ mem'[t] = NoMem
             /\ pc[t] \in {"idle", "done"} => pc'[t] = pc[t] /\ reply'[t] = reply[t]
             /\ pc[t] \notin {"idle", "done"} => pc'[t] = "done" /\ reply'[t] = "lost"
<1> SUFFICES ASSUME NEW t \in Threads
             PROVE  /\ mem'[t] = NoMem
                    /\ pc[t] \in {"idle", "done"} => pc'[t] = pc[t] /\ reply'[t] = reply[t]
                    /\ pc[t] \notin {"idle", "done"} => pc'[t] = "done" /\ reply'[t] = "lost"
  OBVIOUS
<1>1. /\ pc' = [u \in Threads |-> IF u \in Active THEN "done" ELSE pc[u]]
      /\ reply' = [u \in Threads |-> IF u \in Active THEN "lost" ELSE reply[u]]
      /\ mem' = [u \in Threads |-> NoMem]
  BY DEF Crash
<1>2. t \in Active <=> pc[t] \notin {"idle", "done"}
  BY DEF Active
<1> HIDE DEF Active
<1> QED
  BY <1>1, <1>2

LEMMA SoundCrash ==
    ASSUME Sound, Crash
    PROVE  Sound'
<1>1. Typed /\ Mutex /\ (\A u \in Threads : ThreadOK(u))
  BY DEF Sound
<1>2. /\ host' = "down" /\ lock' = {}
      /\ gens' = [o \in Paths |-> 0]
      /\ pc' = [t \in Threads |-> IF t \in Active THEN "done" ELSE pc[t]]
      /\ reply' = [t \in Threads |-> IF t \in Active THEN "lost" ELSE reply[t]]
      /\ mem' = [t \in Threads |-> NoMem]
      /\ loose' = loose \cup {o \in Artifacts : Deleting(o) # {}}
      /\ UNCHANGED <<file, genFile, call, effect, owner>>
  BY DEF Crash, disk
<1>3. \A t \in Threads :
             /\ mem'[t] = NoMem
             /\ pc[t] \in {"idle", "done"} => pc'[t] = pc[t] /\ reply'[t] = reply[t]
             /\ pc[t] \notin {"idle", "done"} => pc'[t] = "done" /\ reply'[t] = "lost"
  BY <1>1, CrashIs
<1>4. Typed'
  <2>1. pc' \in [Threads -> Pcs]
    BY <1>1, <1>2 DEF Typed, Pcs
  <2>2. reply' \in [Threads -> Replies]
    BY <1>1, <1>2 DEF Typed, Replies
  <2>3. mem' \in [Threads -> [gen : Nat, doc : Docs, tries : 0 .. MaxAttempts]]
    BY <1>2, NoMemTyped
  <2>4. loose' \subseteq Artifacts /\ gens' \in [Paths -> Nat]
    BY <1>1, <1>2 DEF Typed
  <2> QED
    BY <1>1, <1>2, <2>1, <2>2, <2>3, <2>4 DEF Typed
<1>5. Mutex'
  BY <1>2, <1>3 DEF Mutex, Holding
<1>6. ASSUME NEW t \in Threads
      PROVE  ThreadOK(t)'
  <2>1. CASE pc[t] \in {"idle", "done"}
    BY <1>1, <1>2, <1>3, <2>1 DEF ThreadOK
  <2>2. CASE pc[t] \notin {"idle", "done"}
    BY <1>1, <1>2, <1>3, <2>2 DEF ThreadOK
  <2> QED
    BY <2>1, <2>2
<1> QED
  BY <1>4, <1>5, <1>6 DEF Sound

\* What a restart loads.
LEMMA RestartIs ==
    ASSUME Typed, Restart
    PROVE  /\ host = "down" /\ host' \in {"up", "broken"}
           /\ gens' \in [Paths -> Nat]
           /\ host' = "up" =>
                /\ \A o \in Paths : genFile[o] # Torn
                /\ \A o \in Paths :
                      gens'[o] = IF genFile[o] = NoGen THEN 0 ELSE genFile[o]
           /\ host' = "broken" => gens' = gens /\ \E o \in Paths : genFile[o] = Torn
           /\ UNCHANGED <<file, genFile, lock, pc, call, mem, reply, effect, owner, loose>>
<1>1. CASE \E o \in Paths : genFile[o] = Torn
  BY <1>1 DEF Typed, Restart, disk, history
<1>2. CASE \A o \in Paths : genFile[o] # Torn
  <2>1. \A o \in Paths : genFile[o] \in Nat \cup {NoGen}
    BY <1>2 DEF Typed
  <2>2. gens' = [o \in Paths |-> IF genFile[o] = NoGen THEN 0 ELSE genFile[o]]
    BY <1>2 DEF Restart
  <2>3. gens' \in [Paths -> Nat]
    BY <2>1, <2>2
  <2> QED
    BY <1>2, <2>2, <2>3 DEF Restart, disk, history
<1> QED
  BY <1>1, <1>2

LEMMA SoundRestart ==
    ASSUME Sound, Restart
    PROVE  Sound'
<1>1. Typed /\ Mutex /\ (\A u \in Threads : ThreadOK(u))
  BY DEF Sound
<1>2. /\ host = "down" /\ host' \in {"up", "broken"}
      /\ gens' \in [Paths -> Nat]
      /\ UNCHANGED <<file, genFile, lock, pc, call, mem, reply, effect, owner, loose>>
  BY <1>1, RestartIs
<1>3. Typed' /\ Mutex'
  BY <1>1, <1>2 DEF Typed, Mutex
<1>4. \A t \in Threads : ThreadOK(t)'
  BY <1>1, <1>2 DEF ThreadOK, IsUpdate
<1> QED
  BY <1>3, <1>4 DEF Sound

LEMMA SoundInit ==
    ASSUME Init
    PROVE  Sound
<1>1. Typed
  <2>1. (CHOOSE c \in Updates : TRUE) \in Updates
    BY StoreAssumption
  <2>2. \A o \in Paths : file[o] \in Content(o)
    BY DEF Init, Content, Paths
  <2>3. /\ pc \in [Threads -> Pcs] /\ reply \in [Threads -> Replies]
        /\ mem \in [Threads -> [gen : Nat, doc : Docs, tries : 0 .. MaxAttempts]]
    BY NoMemTyped DEF Init, Pcs, Replies
  <2>4. call \in [Threads -> Updates \cup Works]
    BY <2>1 DEF Init
  <2> QED
    BY <2>2, <2>3, <2>4 DEF Init, Typed
<1>2. Mutex
  BY DEF Init, Mutex, Holding
<1>3. \A t \in Threads : ThreadOK(t)
  BY DEF Init, ThreadOK
<1> QED
  BY <1>1, <1>2, <1>3 DEF Sound

-----------------------------------------------------------------------------
(* Current: the document a thread holds, and WriterHasGen. *)

\* A step of one thread, in terms of the other threads.
StepOf(t) ==
    \/ \E c \in Updates \cup Works : Start(t, c)
    \/ Step(t) \/ Failed(t) \/ GenStays(t)

LEMMA GotoAlone ==
    ASSUME Typed, NEW t \in Threads, NEW there, Goto(t, there), mem' = mem
    PROVE  Alone(t) /\ pc'[t] = there /\ call' = call /\ reply' = reply
BY DEF Typed, Goto, Alone

LEMMA AnswerAlone ==
    ASSUME Typed, NEW t \in Threads, NEW code, Answer(t, code)
    PROVE  /\ Alone(t) /\ pc'[t] = "done" /\ call' = call
           /\ reply'[t] = code /\ mem'[t] = NoMem
BY DEF Typed, Answer, Alone

LEMMA OneThreadMoves ==
    ASSUME Typed, NEW t \in Threads, StepOf(t)
    PROVE  Alone(t) /\ host' = host
<1>1. CASE \E c \in Updates \cup Works : Start(t, c)
  <2>1. PICK c \in Updates \cup Works : Start(t, c)
    BY <1>1
  <2> DEFINE there == CASE c.op = "put"    -> "write"
                        [] c.op = "delete" -> "delete file"
                        [] OTHER           -> "read"
  <2>2. /\ pc' = [pc EXCEPT ![t] = there] /\ call' = [call EXCEPT ![t] = c]
        /\ UNCHANGED <<host, mem, reply>>
    BY <2>1 DEF Start
  <2> HIDE DEF there
  <2> QED
    BY <2>2 DEF Typed, Alone
<1>2. CASE Read(t)
  <2>1. CASE mem[t].tries = MaxAttempts
    BY <1>2, <2>1, AnswerAlone DEF Read
  <2>2. CASE mem[t].tries # MaxAttempts
    BY <1>2, <2>2 DEF Read, Goto, Typed, Alone
  <2> QED
    BY <2>1, <2>2
<1>3. CASE Write(t)
  <2>1. \/ \E code : Answer(t, code)
        \/ Goto(t, "rename") /\ UNCHANGED mem
        \/ mem' = [mem EXCEPT ![t].tries = @ + 1] /\ Goto(t, "read")
    BY <1>3 DEF Write
  <2>2. CASE \E code : Answer(t, code)
    BY <1>3, <2>2, AnswerAlone DEF Write
  <2>3. CASE Goto(t, "rename") /\ UNCHANGED mem
    BY <1>3, <2>3, GotoAlone DEF Write
  <2>4. CASE mem' = [mem EXCEPT ![t].tries = @ + 1] /\ Goto(t, "read")
    BY <1>3, <2>4 DEF Write, Goto, Typed, Alone
  <2> QED
    BY <2>1, <2>2, <2>3, <2>4
<1>4. CASE Rename(t)
  BY <1>4, GotoAlone DEF Rename
<1>5. CASE Truncate(t)
  BY <1>5, GotoAlone DEF Truncate
<1>6. CASE WriteGen(t)
  BY <1>6, AnswerAlone DEF WriteGen
<1>7. CASE DeleteFile(t)
  BY <1>7, GotoAlone DEF DeleteFile
<1>8. CASE DeleteGen(t)
  BY <1>8, GotoAlone DEF DeleteGen
<1>9. CASE DeleteEntry(t)
  BY <1>9, AnswerAlone DEF DeleteEntry
<1>10. CASE Failed(t)
  BY <1>10, AnswerAlone DEF Failed
<1>11. CASE GenStays(t)
  BY <1>11, GotoAlone DEF GenStays
<1> QED
  BY <1>1, <1>2, <1>3, <1>4, <1>5, <1>6, <1>7, <1>8, <1>9, <1>10, <1>11 DEF StepOf, Step

\* Where the thread is before and after each step, and what the step leaves alone.
LEMMA StartIs ==
    ASSUME Typed, NEW t \in Threads, NEW c \in Updates \cup Works, Start(t, c)
    PROVE  /\ pc[t] = "idle" /\ call'[t] = c
           /\ pc'[t] = CASE c.op = "put"    -> "write"
                         [] c.op = "delete" -> "delete file"
                         [] OTHER           -> "read"
           /\ UNCHANGED <<file, genFile, gens, lock, mem, reply, effect, owner, loose>>
<1> DEFINE there == CASE c.op = "put"    -> "write"
                      [] c.op = "delete" -> "delete file"
                      [] OTHER           -> "read"
<1>1. /\ pc[t] = "idle" /\ call' = [call EXCEPT ![t] = c]
      /\ pc' = [pc EXCEPT ![t] = there]
      /\ UNCHANGED <<file, genFile, gens, lock, mem, reply, effect, owner, loose>>
  BY DEF Start, disk, history
<1> HIDE DEF there
<1>2. pc'[t] = there /\ call'[t] = c
  BY <1>1 DEF Typed
<1> USE DEF there
<1> QED
  BY <1>1, <1>2

LEMMA ReadIs ==
    ASSUME Typed, NEW t \in Threads, Read(t)
    PROVE  /\ pc[t] = "read" /\ call' = call
           /\ \/ pc'[t] = "done" /\ mem'[t] = NoMem /\ reply'[t] = "storageConflict"
              \/ /\ pc'[t] = "write" /\ reply' = reply
                 /\ mem'[t].doc = file[Path]
                 /\ mem'[t].gen = IF file[Path] = NoDocument THEN 0 ELSE gens[Path]
           /\ UNCHANGED <<file, genFile, gens, lock, effect, owner, loose>>
<1>1. pc[t] = "read" /\ UNCHANGED <<file, genFile, gens, lock, effect, owner, loose>>
  BY DEF Read, disk, history
<1>2. CASE mem[t].tries = MaxAttempts
  BY <1>1, <1>2, AnswerAlone DEF Read
<1>3. CASE mem[t].tries # MaxAttempts
  <2> DEFINE g == IF file[Path] = NoDocument THEN 0 ELSE gens[Path]
  <2>1. /\ Goto(t, "write")
        /\ mem' = [mem EXCEPT ![t].doc = file[Path], ![t].gen = g]
    BY <1>3 DEF Read
  <2> HIDE DEF g
  <2>2. pc'[t] = "write" /\ call' = call /\ reply' = reply
    BY <2>1 DEF Goto, Typed
  <2>3. mem'[t].doc = file[Path] /\ mem'[t].gen = g
    BY <2>1 DEF Typed
  <2> USE DEF g
  <2> QED
    BY <1>1, <2>2, <2>3
<1> QED
  BY <1>2, <1>3

LEMMA WriteIs ==
    ASSUME Typed, NEW t \in Threads, Write(t)
    PROVE  /\ pc[t] = "write" /\ call' = call
           /\ \/ /\ pc'[t] = "done" /\ mem'[t] = NoMem
                 /\ IsUpdate(t) => reply'[t] = LicenceRefusal(call[t], mem[t].doc)
              \/ /\ pc'[t] = "rename" /\ mem' = mem /\ reply' = reply
                 /\ lock = {} /\ mem[t].gen = gens[PathOf(t)]
                 /\ IsUpdate(t) => LicenceRefusal(call[t], mem[t].doc) = ""
              \/ /\ pc'[t] = "read" /\ reply' = reply
                 /\ IsUpdate(t) /\ LicenceRefusal(call[t], mem[t].doc) = ""
           /\ UNCHANGED <<file, genFile, gens, effect, owner, loose>>
<1> DEFINE refusal == IF IsUpdate(t) THEN LicenceRefusal(call[t], mem[t].doc) ELSE ""
<1>1. pc[t] = "write" /\ UNCHANGED <<file, genFile, gens, effect, owner, loose>>
  BY DEF Write, disk, history
<1>2. \/ refusal # "" /\ Answer(t, refusal)
      \/ refusal = "" /\ lock = {} /\ Matches(t) /\ Goto(t, "rename") /\ UNCHANGED mem
      \/ ~IsUpdate(t) /\ Answer(t, "storageConflict")
      \/ IsUpdate(t) /\ refusal = "" /\ Goto(t, "read")
  BY DEF Write, IsUpdate
<1>3. CASE refusal # "" /\ Answer(t, refusal)
  BY <1>1, <1>3, AnswerAlone
<1>4. CASE refusal = "" /\ lock = {} /\ Matches(t) /\ Goto(t, "rename") /\ UNCHANGED mem
  BY <1>1, <1>4, GotoAlone DEF Matches
<1>5. CASE ~IsUpdate(t) /\ Answer(t, "storageConflict")
  BY <1>1, <1>5, AnswerAlone
<1>6. CASE IsUpdate(t) /\ refusal = "" /\ Goto(t, "read")
  <2>1. pc'[t] = "read" /\ call' = call /\ reply' = reply
    BY <1>6 DEF Goto, Typed
  <2> QED
    BY <1>1, <1>6, <2>1
<1> QED
  BY <1>2, <1>3, <1>4, <1>5, <1>6

LEMMA RenameIs ==
    ASSUME Typed, NEW t \in Threads, Rename(t)
    PROVE  /\ pc[t] = "rename" /\ pc'[t] = "truncate"
           /\ file'[PathOf(t)] = IF IsUpdate(t) THEN WithLicence(call[t], t, mem[t].doc)
                                ELSE call[t].jar
           /\ \A o \in Paths \ {PathOf(t)} : file'[o] = file[o]
           /\ gens' = [gens EXCEPT ![PathOf(t)] = @ + 1]
           /\ effect' = effect \cup {t}
           /\ loose \subseteq loose'
           /\ Deleting(PathOf(t)) # {} => PathOf(t) \in loose'
           /\ UNCHANGED <<genFile, lock, host, call, mem, reply, owner>>
<1>1. /\ pc[t] = "rename" /\ pc'[t] = "truncate"
      /\ UNCHANGED <<genFile, lock, host, call, mem, reply, owner>>
  BY GotoAlone DEF Rename
<1>2. /\ gens' = [gens EXCEPT ![PathOf(t)] = @ + 1]
      /\ effect' = effect \cup {t}
      /\ loose \subseteq loose'
      /\ Deleting(PathOf(t)) # {} => PathOf(t) \in loose'
  BY DEF Rename
<1> DEFINE new == IF PathOf(t) = Path THEN WithLicence(call[t], t, mem[t].doc)
                  ELSE call[t].jar
<1>3. file' = [file EXCEPT ![PathOf(t)] = new]
  BY DEF Rename
<1>4. PathOf(t) \in Paths /\ (PathOf(t) = Path <=> IsUpdate(t))
  BY CallTyped
<1>5. new = IF IsUpdate(t) THEN WithLicence(call[t], t, mem[t].doc) ELSE call[t].jar
  BY <1>4
<1> HIDE DEF new
<1>6. file'[PathOf(t)] = new /\ \A o \in Paths \ {PathOf(t)} : file'[o] = file[o]
  BY <1>3, <1>4 DEF Typed
<1> QED
  BY <1>1, <1>2, <1>5, <1>6

LEMMA TruncateIs ==
    ASSUME Typed, NEW t \in Threads, Truncate(t)
    PROVE  /\ pc[t] = "truncate" /\ pc'[t] = "gen"
           /\ genFile' = [genFile EXCEPT ![PathOf(t)] = Torn]
           /\ UNCHANGED <<file, gens, lock, call, mem, reply, effect, owner, loose>>
BY GotoAlone DEF Truncate, history

LEMMA WriteGenIs ==
    ASSUME Typed, NEW t \in Threads, WriteGen(t)
    PROVE  /\ pc[t] = "gen" /\ pc'[t] = "done" /\ call' = call
           /\ reply'[t] = "ok" /\ mem'[t] = NoMem
           /\ genFile' = [genFile EXCEPT ![PathOf(t)] = gens[PathOf(t)]]
           /\ UNCHANGED <<file, gens, effect, loose>>
BY AnswerAlone DEF WriteGen

LEMMA DeleteFileIs ==
    ASSUME Typed, NEW t \in Threads, DeleteFile(t)
    PROVE  /\ pc[t] = "delete file" /\ pc'[t] = "delete gen"
           /\ file' = [file EXCEPT ![PathOf(t)] = Absent]
           /\ owner' = [owner EXCEPT ![PathOf(t)] = {}]
           /\ UNCHANGED <<genFile, gens, lock, call, mem, reply, effect>>
BY GotoAlone DEF DeleteFile

LEMMA DeleteGenIs ==
    ASSUME Typed, NEW t \in Threads, DeleteGen(t)
    PROVE  /\ pc[t] = "delete gen" /\ pc'[t] = "delete entry"
           /\ genFile' = [genFile EXCEPT ![PathOf(t)] = NoGen]
           /\ UNCHANGED <<file, gens, lock, call, mem, reply, effect, owner, loose>>
BY GotoAlone DEF DeleteGen, history

LEMMA DeleteEntryIs ==
    ASSUME Typed, NEW t \in Threads, DeleteEntry(t)
    PROVE  /\ pc[t] = "delete entry" /\ pc'[t] = "done" /\ lock = {} /\ call' = call
           /\ reply'[t] = "ok" /\ mem'[t] = NoMem
           /\ gens' = [gens EXCEPT ![PathOf(t)] = 0]
           /\ UNCHANGED <<file, genFile, lock, effect, owner, loose>>
BY AnswerAlone DEF DeleteEntry, disk, history

LEMMA FailedIs ==
    ASSUME Typed, NEW t \in Threads, Failed(t)
    PROVE  /\ pc[t] \in {"read", "rename", "truncate", "gen", "delete file"}
           /\ pc'[t] = "done" /\ call' = call
           /\ reply'[t] = "unavailable" /\ mem'[t] = NoMem
           /\ UNCHANGED <<file, genFile, gens, effect, owner, loose>>
BY AnswerAlone DEF Failed, disk, history

LEMMA GenStaysIs ==
    ASSUME Typed, NEW t \in Threads, GenStays(t)
    PROVE  /\ pc[t] = "delete gen" /\ pc'[t] = "delete entry"
           /\ loose' = loose \cup {PathOf(t)}
           /\ UNCHANGED <<file, genFile, gens, lock, call, mem, reply, effect, owner>>
BY GotoAlone DEF GenStays, disk

\* The generation of a path that is being written is in the map.
LEMMA WriterHasGenNext ==
    ASSUME Sound, WriterHasGen, NEW t \in Threads, StepOf(t), Mutex'
    PROVE  WriterHasGen'
<1>1. Typed /\ Mutex /\ Alone(t) /\ gens \in [Paths -> Nat]
  BY OneThreadMoves DEF Sound, Typed
<1>2. ASSUME gens' = gens,
             pc'[t] \in {"truncate", "gen"} => pc[t] \in {"truncate", "gen"} /\ call' = call
      PROVE  WriterHasGen'
  BY <1>1, <1>2 DEF WriterHasGen, Alone, PathOf
<1>3. CASE \E c \in Updates \cup Works : Start(t, c)
  <2>1. gens' = gens /\ pc'[t] \notin {"truncate", "gen"}
    BY <1>1, <1>3, StartIs
  <2> QED
    BY <1>2, <2>1
<1>4. CASE Read(t)
  BY <1>1, <1>2, <1>4, ReadIs
<1>5. CASE Write(t)
  BY <1>1, <1>2, <1>5, WriteIs
<1>6. CASE Rename(t)
  <2>1. /\ pc[t] = "rename" /\ call' = call /\ lock' = lock /\ PathOf(t) \in Paths
        /\ gens' = [gens EXCEPT ![PathOf(t)] = @ + 1]
    BY <1>1, <1>6, RenameIs, CallTyped
  <2>2. \A u \in Threads \ {t} : pc[u] \notin Holding
    BY <1>1, <2>1, HolderIsAlone DEF Mutex, Holding
  <2>3. gens'[PathOf(t)] # 0
    <3>1. gens[PathOf(t)] \in Nat
      BY <1>1, <2>1
    <3>2. gens'[PathOf(t)] = gens[PathOf(t)] + 1
      BY <1>1, <2>1
    <3> QED
      BY <3>1, <3>2
  <2> QED
    BY <1>1, <2>1, <2>2, <2>3 DEF WriterHasGen, Alone, Holding, PathOf
<1>7. CASE Truncate(t)
  BY <1>1, <1>2, <1>7, TruncateIs
<1>8. CASE WriteGen(t)
  BY <1>1, <1>2, <1>8, WriteGenIs
<1>9. CASE DeleteFile(t)
  BY <1>1, <1>2, <1>9, DeleteFileIs
<1>10. CASE DeleteGen(t)
  BY <1>1, <1>2, <1>10, DeleteGenIs
<1>11. CASE DeleteEntry(t)
  <2>1. lock = {} /\ lock' = {}
    BY <1>1, <1>11, DeleteEntryIs
  <2> QED
    BY <2>1 DEF WriterHasGen, Mutex, Holding
<1>12. CASE Failed(t)
  BY <1>1, <1>2, <1>12, FailedIs
<1>13. CASE GenStays(t)
  BY <1>1, <1>2, <1>13, GenStaysIs
<1> QED
  BY <1>3, <1>4, <1>5, <1>6, <1>7, <1>8, <1>9, <1>10, <1>11, <1>12, <1>13
  DEF StepOf, Step

\* What a thread holds stays fresh while it and the document stay as they are.
LEMMA FreshStays ==
    ASSUME NEW u \in Threads, Fresh(u), file'[Path] = file[Path], gens'[Path] = gens[Path],
           pc'[u] = pc[u], call'[u] = call[u], mem'[u] = mem[u]
    PROVE  Fresh(u)'
BY DEF Fresh, IsUpdate

LEMMA CurrentStays ==
    ASSUME Current, NEW t \in Threads, Alone(t), file'[Path] = file[Path],
           gens'[Path] = gens[Path],
           file[Path] = NoDocument => genFile'[Path] = genFile[Path],
           Fresh(t)'
    PROVE  Current'
<1>1. \A u \in Threads \ {t} : Fresh(u)'
  BY FreshStays DEF Current, Alone
<1> QED
  BY <1>1 DEF Current, NoDocNoGen

LEMMA CurrentNext ==
    ASSUME Sound, WriterHasGen, Current, NEW t \in Threads, StepOf(t), Sound'
    PROVE  Current'
<1>1. /\ Typed /\ Mutex /\ Alone(t) /\ ThreadOK(t) /\ gens \in [Paths -> Nat]
      /\ Path \in Paths /\ gens[Path] \in Nat /\ Mutex'
  BY OneThreadMoves DEF Sound, Typed, Paths
<1>2. ASSUME UNCHANGED <<file, genFile, gens>>, Fresh(t)'
      PROVE  Current'
  BY <1>1, <1>2, CurrentStays
<1>3. ASSUME pc'[t] \notin {"write", "rename"}
      PROVE  Fresh(t)'
  BY <1>3 DEF Fresh
<1>4. CASE \E c \in Updates \cup Works : Start(t, c)
  <2>1. PICK c \in Updates \cup Works : Start(t, c)
    BY <1>4
  <2> DEFINE there == CASE c.op = "put"    -> "write"
                        [] c.op = "delete" -> "delete file"
                        [] OTHER           -> "read"
  <2>2. call'[t] = c /\ pc'[t] = there /\ UNCHANGED <<file, genFile, gens>>
    BY <1>1, <2>1, StartIs
  <2>3. c.op \notin {"put", "delete"} => there = "read"
    OBVIOUS
  <2> HIDE DEF there
  <2>4. Fresh(t)'
    BY <2>2, <2>3 DEF Fresh, IsUpdate
  <2> QED
    BY <1>2, <2>2, <2>4
<1>5. CASE Read(t)
  <2>1. CASE pc'[t] = "done"
    BY <1>1, <1>2, <1>3, <1>5, <2>1, ReadIs
  <2>2. CASE pc'[t] = "write"
    <3>1. /\ mem'[t].doc = file[Path] /\ mem'[t].gen = gens[Path]
          /\ UNCHANGED <<file, genFile, gens>>
      BY <1>1, <1>5, <2>2, ReadIs DEF Current, NoDocNoGen
    <3>2. gens[Path] <= gens[Path]
      BY <1>1
    <3>3. Fresh(t)'
      BY <2>2, <3>1, <3>2 DEF Fresh
    <3> QED
      BY <1>2, <3>1, <3>3
  <2> QED
    BY <1>1, <1>5, <2>1, <2>2, ReadIs
<1>6. CASE Write(t)
  <2>1. UNCHANGED <<file, genFile, gens, call>> /\ pc[t] = "write"
    BY <1>1, <1>6, WriteIs
  <2>2. CASE pc'[t] \notin {"write", "rename"}
    BY <1>2, <1>3, <2>1, <2>2
  <2>3. CASE pc'[t] = "rename"
    <3>1. /\ mem' = mem /\ mem[t].gen = gens[PathOf(t)]
          /\ IsUpdate(t) => LicenceRefusal(call[t], mem[t].doc) = ""
      BY <1>1, <1>6, <2>3, WriteIs
    <3>2. IsUpdate(t) => PathOf(t) = Path
      BY <1>1, CallTyped
    <3>3. Fresh(t)'
      BY <2>1, <2>3, <3>1, <3>2 DEF Current, Fresh, IsUpdate
    <3> QED
      BY <1>2, <2>1, <3>3
  <2> QED
    BY <1>1, <1>6, <2>2, <2>3, WriteIs
<1>7. CASE Rename(t)
  <2>1. /\ pc[t] = "rename" /\ pc'[t] = "truncate"
        /\ UNCHANGED <<genFile, lock, call, mem>>
        /\ \A o \in Paths \ {PathOf(t)} : file'[o] = file[o]
        /\ gens' = [gens EXCEPT ![PathOf(t)] = @ + 1]
    BY <1>1, <1>7, RenameIs
  <2>2. Fresh(t)'
    BY <1>3, <2>1
  <2>3. CASE ~IsUpdate(t)
    <3>1. PathOf(t) # Path
      BY <1>1, <2>3, CallTyped
    <3>2. file'[Path] = file[Path] /\ gens'[Path] = gens[Path]
      BY <1>1, <2>1, <3>1
    <3> QED
      BY <1>1, <2>1, <2>2, <3>2, CurrentStays
  <2>4. CASE IsUpdate(t)
    <3>1. PathOf(t) = Path /\ call[t] \in LicenceCall /\ t \in Keys /\ mem[t].doc \in Docs
      BY <1>1, <2>4, CallTyped, StoreAssumption DEF Typed
    <3>2. LicenceRefusal(call[t], mem[t].doc) = ""
      BY <2>1, <2>4 DEF Current, Fresh
    <3>3. file'[Path] \in Document
      <4>1. file'[Path] = WithLicence(call[t], t, mem[t].doc)
        BY <1>1, <1>7, <2>4, <3>1, RenameIs
      <4>2. WithLicence(call[t], t, mem[t].doc) \in Document
        BY <3>1, <3>2, WithLicenceTyped
      <4> QED
        BY <4>1, <4>2
    <3>4. NoDocument \notin Document
      BY LicenceAssumption DEF Document, Entitlement
    <3>5. gens'[Path] = gens[Path] + 1 /\ gens'[Path] > gens[Path]
      <4>1. gens'[Path] = gens[Path] + 1
        BY <1>1, <2>1, <3>1
      <4> QED
        BY <1>1, <4>1, NextGeneration
    <3>6. ASSUME NEW u \in Threads \ {t}
          PROVE  Fresh(u)'
      <4>1. pc'[u] # "rename" /\ pc'[u] = pc[u] /\ call'[u] = call[u] /\ mem'[u] = mem[u]
        BY <1>1, <2>1, HolderIsAlone DEF Mutex, Holding, Alone
      <4>2. CASE pc[u] # "write" \/ ~IsUpdate(u)
        BY <4>1, <4>2 DEF Fresh, IsUpdate
      <4>3. CASE pc[u] = "write" /\ IsUpdate(u)
        <5>1. mem[u].gen <= gens[Path] /\ mem[u].gen \in Nat
          BY <1>1, <4>3 DEF Current, Fresh, Typed
        <5>2. mem[u].gen <= gens'[Path] /\ mem[u].gen # gens'[Path]
          BY <1>1, <3>5, <5>1
        <5> QED
          BY <4>1, <5>2 DEF Fresh
      <4> QED
        BY <4>2, <4>3
    <3>7. NoDocNoGen'
      BY <3>3, <3>4 DEF NoDocNoGen
    <3> QED
      BY <2>2, <3>6, <3>7 DEF Current
  <2> QED
    BY <2>3, <2>4
<1>8. ASSUME pc[t] \in {"truncate", "gen"}, UNCHANGED <<file, gens>>, NEW g,
             genFile' = [genFile EXCEPT ![PathOf(t)] = g], pc'[t] \notin {"write", "rename"}
      PROVE  Current'
  <2>1. file[Path] = NoDocument => PathOf(t) # Path
    BY <1>8 DEF WriterHasGen, Current, NoDocNoGen
  <2>2. file[Path] = NoDocument => genFile'[Path] = genFile[Path]
    BY <1>1, <1>8, <2>1 DEF Typed
  <2> QED
    BY <1>1, <1>3, <1>8, <2>2, CurrentStays
<1>9. CASE Truncate(t)
  BY <1>1, <1>8, <1>9, TruncateIs
<1>10. CASE WriteGen(t)
  BY <1>1, <1>8, <1>10, WriteGenIs
<1>11. CASE DeleteFile(t)
  <2>1. PathOf(t) # Path
    BY <1>1, <1>11, DeleteFileIs, DeletedIsArtifact
  <2>2. file'[Path] = file[Path] /\ UNCHANGED <<genFile, gens>> /\ pc'[t] = "delete gen"
    BY <1>1, <1>11, <2>1, DeleteFileIs DEF Typed
  <2> QED
    BY <1>1, <1>3, <2>2, CurrentStays
<1>12. CASE DeleteGen(t)
  <2>1. PathOf(t) # Path
    BY <1>1, <1>12, DeleteGenIs, DeletedIsArtifact
  <2>2. genFile'[Path] = genFile[Path] /\ UNCHANGED <<file, gens>> /\ pc'[t] = "delete entry"
    BY <1>1, <1>12, <2>1, DeleteGenIs DEF Typed
  <2> QED
    BY <1>1, <1>3, <2>2, CurrentStays
<1>13. CASE DeleteEntry(t)
  <2>1. PathOf(t) # Path
    BY <1>1, <1>13, DeleteEntryIs, DeletedIsArtifact
  <2>2. gens'[Path] = gens[Path] /\ UNCHANGED <<file, genFile>> /\ pc'[t] = "done"
    BY <1>1, <1>13, <2>1, DeleteEntryIs DEF Typed
  <2> QED
    BY <1>1, <1>3, <2>2, CurrentStays
<1>14. CASE Failed(t)
  BY <1>1, <1>2, <1>3, <1>14, FailedIs
<1>15. CASE GenStays(t)
  BY <1>1, <1>2, <1>3, <1>15, GenStaysIs
<1> QED
  BY <1>4, <1>5, <1>6, <1>7, <1>9, <1>10, <1>11, <1>12, <1>13, <1>14, <1>15
  DEF StepOf, Step

-----------------------------------------------------------------------------
(* The three together are inductive. *)

Base == Sound /\ WriterHasGen /\ Current

LEMMA SoundNext ==
    ASSUME Base, NEW t \in Threads, StepOf(t)
    PROVE  Sound'
<1>1. CASE \E c \in Updates \cup Works : Start(t, c)
  BY <1>1, SoundStart DEF Base
<1>2. CASE Rename(t)
  <2>1. pc[t] = "rename"
    BY <1>2 DEF Rename
  <2>2. IsUpdate(t) => LicenceRefusal(call[t], mem[t].doc) = ""
    BY <2>1 DEF Base, Current, Fresh
  <2> QED
    BY <1>2, <2>2, SoundRename DEF Base
<1>3. CASE DeleteGen(t)
  BY <1>3, SoundDeleteGen DEF Base, DeleteGen, history
<1>4. CASE GenStays(t)
  BY <1>4, SoundDeleteGen DEF Base, GenStays, disk
<1> QED
  BY <1>1, <1>2, <1>3, <1>4, SoundRead, SoundWrite, SoundTruncate, SoundWriteGen,
     SoundDeleteFile, SoundDeleteEntry, SoundFailed DEF Base, StepOf, Step

\* After a crash, and until the restart, no request is under way.
LEMMA NobodyActive ==
    ASSUME Sound, host # "up"
    PROVE  \A t \in Threads : pc[t] \in {"idle", "done"}
BY DEF Sound, ThreadOK

LEMMA BaseInit == Init => Base
<1> SUFFICES ASSUME Init PROVE Base
  OBVIOUS
<1>1. Sound
  BY SoundInit
<1>2. \A t \in Threads : pc[t] = "idle"
  BY DEF Init
<1>3. gens[Path] = 0 /\ genFile[Path] = NoGen
  BY DEF Init, Paths
<1> QED
  BY <1>1, <1>2, <1>3 DEF Base, WriterHasGen, Current, NoDocNoGen, Fresh

LEMMA BaseNext ==
    ASSUME Base, [Next]_vars
    PROVE  Base'
<1>1. CASE \E t \in Threads : StepOf(t)
  <2>1. PICK t \in Threads : StepOf(t)
    BY <1>1
  <2>2. Sound'
    BY <2>1, SoundNext
  <2>3. WriterHasGen'
    BY <2>1, <2>2, WriterHasGenNext DEF Base, Sound
  <2>4. Current'
    BY <2>1, <2>2, CurrentNext DEF Base
  <2> QED
    BY <2>2, <2>3, <2>4 DEF Base
<1>2. CASE Crash
  <2>1. Sound' /\ host' # "up"
    BY <1>2, SoundCrash DEF Base, Crash
  <2>2. \A t \in Threads : pc'[t] \in {"idle", "done"}
    BY <2>1 DEF Sound, ThreadOK
  <2>3. gens'[Path] = 0 /\ UNCHANGED <<file, genFile>>
    BY <1>2 DEF Crash, Paths, disk
  <2>4. NoDocNoGen'
    BY <2>3 DEF Base, Current, NoDocNoGen
  <2> QED
    BY <2>1, <2>2, <2>4 DEF Base, WriterHasGen, Current, Fresh
<1>3. CASE Restart
  <2>1. Sound' /\ Typed /\ Sound
    BY <1>3, SoundRestart DEF Base, Sound
  <2>2. host = "down" /\ UNCHANGED <<file, genFile, pc>>
    BY <1>3, <2>1, RestartIs
  <2>3. \A t \in Threads : pc'[t] \in {"idle", "done"}
    BY <2>1, <2>2, NobodyActive
  <2>4. NoDocNoGen'
    <3>1. Path \in Paths
      BY DEF Paths
    <3>2. file[Path] = NoDocument => gens[Path] = 0 /\ genFile[Path] = NoGen
      BY DEF Base, Current, NoDocNoGen
    <3>3. gens'[Path] = gens[Path] \/ gens'[Path] = IF genFile[Path] = NoGen THEN 0 ELSE genFile[Path]
      BY <1>3, <2>1, <3>1, RestartIs
    <3> QED
      BY <2>2, <3>2, <3>3 DEF NoDocNoGen
  <2> QED
    BY <2>1, <2>3, <2>4 DEF Base, WriterHasGen, Current, Fresh
<1>4. CASE UNCHANGED vars
  BY <1>4 DEF vars, Base, Sound, Typed, Mutex, ThreadOK, IsUpdate, WriterHasGen, PathOf,
              Current, NoDocNoGen, Fresh
<1> QED
  BY <1>1, <1>2, <1>3, <1>4 DEF Next, StepOf

\* The sets of threads at the store and the types of all variables are as
\* TypeOK has them: in particular the mutex of local.go is held by one writer at
\* most, and it is one that is between the generation check and the .gen file.
THEOREM LocalStoreTypes == Spec => []TypeOK
<1>1. Base => TypeOK
  <2> SUFFICES ASSUME Base PROVE TypeOK
    OBVIOUS
  <2>1. Typed /\ Mutex
    BY DEF Base, Sound
  <2>2. Cardinality(lock) <= 1
    <3>1. CASE lock = {}
      <4>1. Cardinality(lock) = 0
        BY <3>1, FS_EmptySet
      <4> QED
        BY <4>1
    <3>2. CASE lock # {}
      <4>1. PICK t \in lock : TRUE
        BY <3>2
      <4>2. lock = {t}
        BY <2>1, <4>1 DEF Mutex
      <4>3. Cardinality(lock) = 1
        BY <4>2, FS_Singleton
      <4> QED
        BY <4>3
    <3> QED
      BY <3>1, <3>2
  <2> QED
    BY <2>1, <2>2 DEF TypeOK, Typed, Mutex, Holding, Docs
<1> QED
  BY <1>1, BaseInit, BaseNext, PTL DEF Spec

-----------------------------------------------------------------------------
(* A store that does not start again. *)

LEMMA NotDone ==
    ASSUME Sound, NEW t \in Threads, StepOf(t)
    PROVE  pc[t] # "done" /\ reply[t] = "" /\ effect \subseteq effect' /\ loose \subseteq loose'
<1>1. Typed /\ ThreadOK(t)
  BY DEF Sound
<1>2. CASE \E c \in Updates \cup Works : Start(t, c)
  BY <1>1, <1>2, StartIs DEF ThreadOK
<1>3. CASE Read(t)
  BY <1>1, <1>3, ReadIs DEF ThreadOK
<1>4. CASE Write(t)
  BY <1>1, <1>4, WriteIs DEF ThreadOK
<1>5. CASE Rename(t)
  BY <1>1, <1>5, RenameIs DEF ThreadOK
<1>6. CASE Truncate(t)
  BY <1>1, <1>6, TruncateIs DEF ThreadOK
<1>7. CASE WriteGen(t)
  BY <1>1, <1>7, WriteGenIs DEF ThreadOK
<1>8. CASE DeleteFile(t)
  <2>1. loose \subseteq loose'
    BY <1>8 DEF DeleteFile
  <2> QED
    BY <1>1, <1>8, <2>1, DeleteFileIs DEF ThreadOK
<1>9. CASE DeleteGen(t)
  BY <1>1, <1>9, DeleteGenIs DEF ThreadOK
<1>10. CASE DeleteEntry(t)
  BY <1>1, <1>10, DeleteEntryIs DEF ThreadOK
<1>11. CASE Failed(t)
  BY <1>1, <1>11, FailedIs DEF ThreadOK
<1>12. CASE GenStays(t)
  BY <1>1, <1>12, GenStaysIs DEF ThreadOK
<1> QED
  BY <1>2, <1>3, <1>4, <1>5, <1>6, <1>7, <1>8, <1>9, <1>10, <1>11, <1>12 DEF StepOf, Step

\* The thread that vouches for a .gen file that is cut short.
Torner(u, o) ==
    u \in effect /\ ((pc[u] = "gen" /\ PathOf(u) = o) \/ reply[u] \in {"lost", "unavailable"})

LEMMA TornerStays ==
    ASSUME Sound, NEW t \in Threads, StepOf(t), NEW u \in Threads, NEW o, Torner(u, o),
           pc[t] # "gen" \/ u # t
    PROVE  Torner(u, o)'
<1>1. Typed /\ Alone(t)
  BY OneThreadMoves DEF Sound
<1>2. u # t /\ u \in effect'
  BY NotDone DEF Torner
<1> QED
  BY <1>1, <1>2 DEF Torner, Alone, PathOf

LEMMA TornNext ==
    ASSUME Base, TornOK, BrokenByInterruptedWrite, [Next]_vars
    PROVE  TornOK' /\ BrokenByInterruptedWrite'
<1>1. Sound /\ Typed /\ (\A u \in Threads : ThreadOK(u)) /\ effect \subseteq Threads
  BY DEF Base, Sound, Typed
<1>2. ASSUME NEW o \in Paths, genFile[o] = Torn
      PROVE  \E u \in Threads : Torner(u, o)
  BY <1>1, <1>2 DEF TornOK, Torner
<1>3. ASSUME NEW t \in Threads, StepOf(t)
      PROVE  TornOK'
  <2> SUFFICES ASSUME NEW o \in Paths, genFile'[o] = Torn
               PROVE  \E u \in Threads : Torner(u, o)'
    BY DEF TornOK, Torner
  <2>1. ASSUME genFile[o] = Torn, pc[t] # "gen"
        PROVE  \E u \in Threads : Torner(u, o)'
    BY <1>1, <1>2, <1>3, <2>1, TornerStays
  <2>2. CASE Truncate(t)
    <3>1. CASE PathOf(t) = o
      BY <1>1, <2>2, <3>1, TruncateIs DEF Torner, ThreadOK, PathOf
    <3>2. CASE PathOf(t) # o
      BY <1>1, <2>1, <2>2, <3>2, TruncateIs DEF Typed
    <3> QED
      BY <3>1, <3>2
  <2>3. CASE WriteGen(t)
    <3>1. PathOf(t) # o /\ genFile[o] = Torn
      <4>1. genFile' = [genFile EXCEPT ![PathOf(t)] = gens[PathOf(t)]]
        BY <1>1, <2>3, WriteGenIs
      <4>2. gens[PathOf(t)] \in Nat
        BY <1>1, CallTyped DEF Typed
      <4> QED
        BY <1>1, <4>1, <4>2, StoreAssumption DEF Typed
    <3>2. PICK u \in Threads : Torner(u, o)
      BY <1>2, <3>1
    <3>3. u # t
      <4>1. reply[t] = ""
        BY <1>3, <1>1, NotDone
      <4> QED
        BY <3>1, <3>2, <4>1 DEF Torner
    <3> QED
      BY <1>1, <1>3, <3>2, <3>3, TornerStays
  <2>4. CASE DeleteGen(t)
    <3>1. genFile[o] = Torn
      BY <1>1, <2>4, DeleteGenIs, StoreAssumption DEF Typed
    <3> QED
      BY <1>1, <2>1, <2>4, <3>1, DeleteGenIs
  <2>5. CASE Failed(t)
    <3>1. genFile[o] = Torn /\ reply'[t] = "unavailable" /\ effect' = effect
      BY <1>1, <2>5, FailedIs
    <3>2. PICK u \in Threads : Torner(u, o)
      BY <1>2, <3>1
    <3>3. CASE u = t
      BY <3>1, <3>2, <3>3 DEF Torner
    <3>4. CASE u # t
      BY <1>1, <1>3, <3>2, <3>4, TornerStays
    <3> QED
      BY <3>3, <3>4
  <2>6. CASE \E c \in Updates \cup Works : Start(t, c)
    BY <1>1, <2>1, <2>6, StartIs
  <2>7. CASE Read(t)
    BY <1>1, <2>1, <2>7, ReadIs
  <2>8. CASE Write(t)
    BY <1>1, <2>1, <2>8, WriteIs
  <2>9. CASE Rename(t)
    BY <1>1, <2>1, <2>9, RenameIs
  <2>10. CASE DeleteFile(t)
    BY <1>1, <2>1, <2>10, DeleteFileIs
  <2>11. CASE DeleteEntry(t)
    BY <1>1, <2>1, <2>11, DeleteEntryIs
  <2>12. CASE GenStays(t)
    BY <1>1, <2>1, <2>12, GenStaysIs
  <2> QED
    BY <1>3, <2>2, <2>3, <2>4, <2>5, <2>6, <2>7, <2>8, <2>9, <2>10, <2>11, <2>12
    DEF StepOf, Step
<1>4. ASSUME NEW t \in Threads, StepOf(t)
      PROVE  BrokenByInterruptedWrite'
  BY <1>1, <1>4, NotDone, OneThreadMoves DEF BrokenByInterruptedWrite, Alone
<1>5. CASE Crash
  <2>1. /\ host' = "down" /\ UNCHANGED <<genFile, effect>>
    BY <1>5 DEF Crash, disk
  <2>2. \A t \in Threads :
             /\ pc[t] \in {"idle", "done"} => reply'[t] = reply[t]
             /\ pc[t] \notin {"idle", "done"} => reply'[t] = "lost"
    BY <1>1, <1>5, CrashIs
  <2>3. ASSUME NEW u \in Threads, NEW o, Torner(u, o)
        PROVE  u \in effect' /\ reply'[u] \in {"lost", "unavailable"}
    BY <2>1, <2>2, <2>3 DEF Torner
  <2>4. TornOK'
    BY <1>2, <2>1, <2>3 DEF TornOK
  <2> QED
    BY <2>1, <2>4 DEF BrokenByInterruptedWrite
<1>6. CASE Restart
  <2>1. /\ host = "down" /\ UNCHANGED <<genFile, effect, pc, call, reply>>
        /\ host' = "broken" => \E o \in Paths : genFile[o] = Torn
    BY <1>1, <1>6, RestartIs
  <2>2. TornOK'
    BY <2>1 DEF TornOK, PathOf
  <2>3. \A u \in Threads : pc[u] # "gen"
    BY <1>1, <2>1, NobodyActive
  <2>4. BrokenByInterruptedWrite'
    BY <1>2, <2>1, <2>3 DEF BrokenByInterruptedWrite, Torner
  <2> QED
    BY <2>2, <2>4
<1>7. CASE UNCHANGED vars
  BY <1>7 DEF vars, TornOK, BrokenByInterruptedWrite, PathOf
<1> QED
  BY <1>3, <1>4, <1>5, <1>6, <1>7 DEF Next, StepOf

\* NewLocalStore fails only on a .gen file that a Write left empty: the process
\* died, or the write was answered with an error, between the two halves of
\* os.WriteFile.  Nothing else, and no delete, keeps the store from starting.
THEOREM BrokenOnlyByInterruptedWrite == Spec => []BrokenByInterruptedWrite
<1>1. Init => TornOK /\ BrokenByInterruptedWrite
  BY StoreAssumption DEF Init, TornOK, BrokenByInterruptedWrite
<1> QED
  BY <1>1, BaseInit, BaseNext, TornNext, PTL DEF Spec

-----------------------------------------------------------------------------
(* Artifacts: what an answered write promises. *)

LEMMA WritingIs ==
    ASSUME NEW o
    PROVE  /\ Writing(o) = {u \in Threads : pc[u] \in Holding /\ PathOf(u) = o}
           /\ Deleting(o) =
                {u \in Threads : pc[u] \in {"delete gen", "delete entry"} /\ PathOf(u) = o}
           /\ Writing(o)' = {u \in Threads : pc'[u] \in Holding /\ PathOf(u)' = o}
           /\ Deleting(o)' =
                {u \in Threads : pc'[u] \in {"delete gen", "delete entry"} /\ PathOf(u)' = o}
BY DEF Writing, Deleting, Active, Holding

\* Nobody else is drawn in by a step of t.
LEMMA BusyStays ==
    ASSUME NEW t \in Threads, Alone(t), NEW o,
           pc'[t] \in Holding =>
               PathOf(t)' # o \/ (pc[t] \in Holding /\ call'[t] = call[t]),
           pc'[t] \in {"delete gen", "delete entry"} =>
               \/ PathOf(t)' # o
               \/ pc[t] \in {"delete gen", "delete entry"} /\ call'[t] = call[t]
    PROVE  Writing(o)' \subseteq Writing(o) /\ Deleting(o)' \subseteq Deleting(o)
<1>1. \A u \in Threads : call'[u] = call[u] => PathOf(u)' = PathOf(u)
  BY DEF PathOf
<1>2. \A u \in Threads \ {t} : pc'[u] = pc[u] /\ call'[u] = call[u]
  BY DEF Alone
<1>3. ASSUME NEW u \in Writing(o)'
      PROVE  u \in Writing(o)
  <2>1. u \in Threads /\ pc'[u] \in Holding /\ PathOf(u)' = o
    BY <1>3, WritingIs
  <2>2. pc[u] \in Holding /\ call'[u] = call[u]
    BY <1>2, <2>1
  <2> QED
    BY <1>1, <2>1, <2>2, WritingIs
<1>4. ASSUME NEW u \in Deleting(o)'
      PROVE  u \in Deleting(o)
  <2>1. u \in Threads /\ pc'[u] \in {"delete gen", "delete entry"} /\ PathOf(u)' = o
    BY <1>4, WritingIs
  <2>2. pc[u] \in {"delete gen", "delete entry"} /\ call'[u] = call[u]
    BY <1>2, <2>1
  <2> QED
    BY <1>1, <2>1, <2>2, WritingIs
<1> QED
  BY <1>3, <1>4

\* Nor does a delete end.
LEMMA DeletingStays ==
    ASSUME NEW o,
           \A u \in Threads : pc[u] \in {"delete gen", "delete entry"} /\ PathOf(u) = o =>
               pc'[u] \in {"delete gen", "delete entry"} /\ PathOf(u)' = o
    PROVE  Deleting(o) \subseteq Deleting(o)'
<1> SUFFICES ASSUME NEW u \in Deleting(o)
             PROVE  u \in Deleting(o)'
  OBVIOUS
<1>1. u \in Threads /\ pc[u] \in {"delete gen", "delete entry"} /\ PathOf(u) = o
  BY DEF Deleting, Active
<1>2. pc'[u] \in {"delete gen", "delete entry"} /\ PathOf(u)' = o
  BY <1>1
<1> QED
  BY <1>1, <1>2, WritingIs

\* An artifact of which a step leaves files, map entry and owner alone.
LEMMA DueStays ==
    ASSUME Sound, NEW t \in Threads, StepOf(t), NEW o \in Artifacts,
           owner[o] \subseteq Threads, Due(o), owner'[o] \subseteq owner[o],
           owner[o] # {} =>
             /\ file'[o] = file[o] /\ genFile'[o] = genFile[o] /\ gens'[o] = gens[o]
             /\ Writing(o)' = {} /\ Deleting(o)' = {}
    PROVE  owner'[o] \subseteq Threads /\ Due(o)'
<1>1. Alone(t) /\ host' = host /\ pc[t] # "done"
  BY OneThreadMoves, NotDone DEF Sound
<1>2. ASSUME NEW u \in owner'[o]
      PROVE  /\ u \in Threads /\ pc'[u] = "done" /\ call'[u] = call[u]
             /\ file[o] = call[u].jar
             /\ genFile[o] \notin {NoGen, 0}
             /\ host = "up" => gens[o] # 0
  <2>1. u \in owner[o] /\ u \in Threads
    BY <1>2
  <2>2. pc[u] = "done" /\ file[o] = call[u].jar /\ genFile[o] \notin {NoGen, 0}
        /\ (host = "up" => gens[o] # 0)
    BY <2>1 DEF Due
  <2>3. u # t
    BY <1>1, <2>2
  <2> QED
    BY <1>1, <2>1, <2>2, <2>3 DEF Alone
<1>3. owner'[o] # {} => owner[o] # {}
  OBVIOUS
<1> QED
  BY <1>1, <1>2, <1>3 DEF Due

LEMMA OwnedStep ==
    ASSUME Base, Owned, NEW t \in Threads, StepOf(t), Mutex'
    PROVE  Owned'
<1>1. /\ Sound /\ Typed /\ Mutex /\ Alone(t) /\ ThreadOK(t) /\ PathOf(t) \in Paths
      /\ Artifacts \subseteq Paths
  BY OneThreadMoves, CallTyped DEF Base, Sound, Paths
<1> SUFFICES ASSUME NEW o \in Artifacts
             PROVE  owner'[o] \subseteq Threads /\ Due(o)'
  BY DEF Owned
<1>2. owner[o] \subseteq Threads /\ Due(o)
  BY DEF Owned
<1>3. owner[o] # {} => Writing(o) = {} /\ Deleting(o) = {}
  BY <1>2 DEF Due
<1>4. PathOf(t) = o /\ owner[o] # {} =>
         pc[t] \notin {"rename", "truncate", "gen", "delete gen", "delete entry"}
  BY <1>3, WritingIs DEF Holding
<1>5. ASSUME owner' = owner,
             owner[o] # {} =>
                file'[o] = file[o] /\ genFile'[o] = genFile[o] /\ gens'[o] = gens[o],
             pc'[t] \in Holding => pc[t] \in Holding /\ call'[t] = call[t],
             pc'[t] \in {"delete gen", "delete entry"} =>
                pc[t] \in {"delete gen", "delete entry"} /\ call'[t] = call[t]
      PROVE  owner'[o] \subseteq Threads /\ Due(o)'
  <2>1. Writing(o)' \subseteq Writing(o) /\ Deleting(o)' \subseteq Deleting(o)
    BY <1>1, <1>5, BusyStays
  <2>2. owner[o] # {} => Writing(o)' = {} /\ Deleting(o)' = {}
    BY <1>3, <2>1
  <2> QED
    BY <1>1, <1>2, <1>5, <2>2, DueStays
<1>6. CASE \E c \in Updates \cup Works : Start(t, c)
  <2>1. PICK c \in Updates \cup Works : Start(t, c)
    BY <1>6
  <2> DEFINE there == CASE c.op = "put"    -> "write"
                        [] c.op = "delete" -> "delete file"
                        [] OTHER           -> "read"
  <2>2. pc'[t] = there /\ UNCHANGED <<file, genFile, gens, owner>>
    BY <1>1, <2>1, StartIs
  <2>3. there \notin Holding \cup {"delete gen", "delete entry"}
    BY DEF Holding
  <2> HIDE DEF there
  <2> QED
    BY <1>5, <2>2, <2>3
<1>7. CASE Read(t)
  BY <1>1, <1>5, <1>7, ReadIs DEF Holding
<1>8. CASE Write(t)
  <2>1. UNCHANGED <<file, genFile, gens, owner, call>> /\ pc[t] = "write"
    BY <1>1, <1>8, WriteIs
  <2>2. CASE pc'[t] # "rename"
    BY <1>1, <1>5, <1>8, <2>1, <2>2, WriteIs DEF Holding
  <2>3. CASE pc'[t] = "rename"
    <3>1. mem[t].gen = gens[PathOf(t)]
      BY <1>1, <1>8, <2>3, WriteIs
    <3>2. PathOf(t) = o => gens[o] = 0
      BY <1>1, <2>1, <3>1, CallTyped, StoreAssumption DEF ThreadOK
    <3>3. host = "up"
      BY <1>1, <2>1 DEF ThreadOK
    <3>4. PathOf(t) = o => owner[o] = {}
      BY <1>2, <3>2, <3>3 DEF Due
    <3>5. CASE owner[o] = {}
      BY <1>2, <2>1, <3>5 DEF Due
    <3>6. CASE owner[o] # {}
      <4>1. PathOf(t)' # o
        BY <2>1, <3>4, <3>6 DEF PathOf
      <4>2. Writing(o)' \subseteq Writing(o) /\ Deleting(o)' \subseteq Deleting(o)
        BY <1>1, <4>1, BusyStays
      <4> QED
        BY <1>1, <1>2, <1>3, <2>1, <4>2, DueStays
    <3> QED
      BY <3>5, <3>6
  <2> QED
    BY <2>2, <2>3
<1>9. CASE Rename(t)
  <2>1. /\ pc[t] = "rename" /\ pc'[t] = "truncate" /\ UNCHANGED <<genFile, owner, call>>
        /\ \A p \in Paths \ {PathOf(t)} : file'[p] = file[p]
        /\ gens' = [gens EXCEPT ![PathOf(t)] = @ + 1]
    BY <1>1, <1>9, RenameIs
  <2>2. owner[o] # {} => PathOf(t) # o
    BY <1>4, <2>1
  <2>3. owner[o] # {} => file'[o] = file[o] /\ gens'[o] = gens[o]
    BY <1>1, <2>1, <2>2
  <2> QED
    BY <1>5, <2>1, <2>3 DEF Holding
<1>10. CASE Truncate(t)
  <2>1. /\ pc[t] = "truncate" /\ pc'[t] = "gen" /\ UNCHANGED <<file, gens, owner, call>>
        /\ genFile' = [genFile EXCEPT ![PathOf(t)] = Torn]
    BY <1>1, <1>10, TruncateIs
  <2>2. owner[o] # {} => PathOf(t) # o
    BY <1>4, <2>1
  <2>3. owner[o] # {} => genFile'[o] = genFile[o]
    BY <1>1, <2>1, <2>2 DEF Typed
  <2> QED
    BY <1>5, <2>1, <2>3 DEF Holding
<1>11. CASE WriteGen(t)
  <2>1. /\ pc[t] = "gen" /\ pc'[t] = "done" /\ UNCHANGED <<file, gens, call>>
        /\ genFile' = [genFile EXCEPT ![PathOf(t)] = gens[PathOf(t)]]
        /\ lock' = {}
    BY <1>1, <1>11, WriteGenIs DEF WriteGen, Unlock
  <2>2. owner' = [owner EXCEPT ![PathOf(t)] =
                    IF \/ PathOf(t) = Path \/ file[PathOf(t)] # call[t].jar
                       \/ Deleting(PathOf(t)) # {}
                    THEN {} ELSE {t}]
    BY <1>11 DEF WriteGen
  <2>3. Writing(o)' = {} /\ Deleting(o)' \subseteq Deleting(o)
    <3>1. Writing(o)' = {}
      BY <2>1, WritingIs DEF Mutex
    <3> QED
      BY <1>1, <2>1, <3>1, BusyStays DEF Holding
  <2>4. CASE PathOf(t) # o
    <3>1. owner'[o] = owner[o] /\ genFile'[o] = genFile[o]
      BY <1>1, <2>1, <2>2, <2>4 DEF Typed
    <3> QED
      BY <1>1, <1>2, <1>3, <2>1, <2>3, <3>1, DueStays
  <2>5. CASE PathOf(t) = o /\ file[o] = call[t].jar /\ Deleting(o) = {}
    <3>1. owner'[o] \subseteq {t} /\ genFile'[o] = gens[o]
      BY <1>1, <2>1, <2>2, <2>5 DEF Typed
    <3>2. gens[o] # 0 /\ gens[o] # NoGen
      <4>1. gens[o] # 0
        BY <2>1, <2>5 DEF Base, WriterHasGen
      <4>2. gens[o] \in Nat
        BY <1>1 DEF Typed
      <4> QED
        BY <4>1, <4>2, StoreAssumption
    <3> QED
      BY <2>1, <2>3, <2>5, <3>1, <3>2 DEF Due
  <2>6. CASE PathOf(t) = o /\ (file[o] # call[t].jar \/ Deleting(o) # {})
    <3>1. owner'[o] = {}
      BY <1>1, <2>2, <2>6 DEF Typed
    <3> QED
      BY <3>1 DEF Due
  <2> QED
    BY <2>4, <2>5, <2>6
<1>12. CASE DeleteFile(t)
  <2>1. /\ pc[t] = "delete file" /\ pc'[t] = "delete gen" /\ UNCHANGED <<genFile, gens, call>>
        /\ file' = [file EXCEPT ![PathOf(t)] = Absent]
        /\ owner' = [owner EXCEPT ![PathOf(t)] = {}]
    BY <1>1, <1>12, DeleteFileIs
  <2>2. CASE PathOf(t) = o
    <3>1. owner'[o] = {}
      BY <1>1, <2>1, <2>2 DEF Typed
    <3> QED
      BY <3>1 DEF Due
  <2>3. CASE PathOf(t) # o
    <3>1. file'[o] = file[o] /\ owner'[o] = owner[o]
      BY <1>1, <2>1, <2>3 DEF Typed
    <3>2. PathOf(t)' # o
      BY <2>1, <2>3 DEF PathOf
    <3>3. Writing(o)' \subseteq Writing(o) /\ Deleting(o)' \subseteq Deleting(o)
      BY <1>1, <3>2, BusyStays
    <3> QED
      BY <1>1, <1>2, <1>3, <2>1, <3>1, <3>3, DueStays
  <2> QED
    BY <2>2, <2>3
<1>13. CASE DeleteGen(t)
  <2>1. /\ pc[t] = "delete gen" /\ pc'[t] = "delete entry"
        /\ UNCHANGED <<file, gens, owner, call>>
        /\ genFile' = [genFile EXCEPT ![PathOf(t)] = NoGen]
    BY <1>1, <1>13, DeleteGenIs
  <2>2. owner[o] # {} => PathOf(t) # o
    BY <1>4, <2>1
  <2>3. owner[o] # {} => genFile'[o] = genFile[o]
    BY <1>1, <2>1, <2>2 DEF Typed
  <2> QED
    BY <1>5, <2>1, <2>3 DEF Holding
<1>14. CASE DeleteEntry(t)
  <2>1. /\ pc[t] = "delete entry" /\ pc'[t] = "done"
        /\ UNCHANGED <<file, genFile, owner, call>>
        /\ gens' = [gens EXCEPT ![PathOf(t)] = 0]
    BY <1>1, <1>14, DeleteEntryIs
  <2>2. owner[o] # {} => PathOf(t) # o
    BY <1>4, <2>1
  <2>3. owner[o] # {} => gens'[o] = gens[o]
    BY <1>1, <2>1, <2>2 DEF Typed
  <2> QED
    BY <1>5, <2>1, <2>3 DEF Holding
<1>15. CASE Failed(t)
  BY <1>1, <1>5, <1>15, FailedIs DEF Holding
<1>16. CASE GenStays(t)
  BY <1>1, <1>5, <1>16, GenStaysIs DEF Holding
<1> QED
  BY <1>6, <1>7, <1>8, <1>9, <1>10, <1>11, <1>12, <1>13, <1>14, <1>15, <1>16
  DEF StepOf, Step

LEMMA OwnedNext ==
    ASSUME Base, Owned, [Next]_vars, Base'
    PROVE  Owned'
<1>1. Sound /\ Sound' /\ Typed /\ Artifacts \subseteq Paths
  BY DEF Base, Sound, Paths
<1>2. CASE \E t \in Threads : StepOf(t)
  BY <1>1, <1>2, OwnedStep DEF Base, Sound
<1>3. CASE Crash
  <2>1. host' # "up" /\ UNCHANGED <<file, genFile, call, owner>>
    BY <1>3 DEF Crash, disk
  <2>2. \A u \in Threads : pc'[u] \in {"idle", "done"} /\ (pc[u] = "done" => pc'[u] = "done")
    BY <1>1, <1>3, CrashIs
  <2>3. \A o : Writing(o)' = {} /\ Deleting(o)' = {}
    BY <2>2, WritingIs DEF Holding
  <2> QED
    BY <2>1, <2>2, <2>3 DEF Owned, Due
<1>4. CASE Restart
  <2>1. /\ host = "down" /\ UNCHANGED <<file, genFile, pc, call, owner>>
        /\ host' = "up" => \A o \in Paths :
                              gens'[o] = IF genFile[o] = NoGen THEN 0 ELSE genFile[o]
    BY <1>1, <1>4, RestartIs
  <2>2. \A u \in Threads : pc'[u] \in {"idle", "done"}
    BY <1>1, <2>1, NobodyActive
  <2>3. \A o : Writing(o)' = {} /\ Deleting(o)' = {}
    BY <2>2, WritingIs DEF Holding
  <2> QED
    BY <1>1, <2>1, <2>3 DEF Owned, Due
<1>5. CASE UNCHANGED vars
  <2>1. \A o : Writing(o)' = Writing(o) /\ Deleting(o)' = Deleting(o)
    BY <1>5 DEF vars, Writing, Deleting, Active, PathOf
  <2> QED
    BY <1>5, <2>1 DEF vars, Owned, Due
<1> QED
  BY <1>2, <1>3, <1>4, <1>5 DEF Next, StepOf

\* A put that was answered with success is there until a delete takes it away:
\* Write compares the generation that the put left in the map, also after a crash
\* at any system call, because the map is loaded from the .gen files again.
THEOREM AnsweredPutIsKept == Spec => []PutIsKept
<1>1. Init => Owned
  BY DEF Init, Owned, Due, Paths
<1>2. Owned => PutIsKept
  BY DEF Owned, Due, PutIsKept
<1> QED
  BY <1>1, <1>2, BaseInit, BaseNext, OwnedNext, PTL DEF Spec

\* Vacant, for one thread and for one artifact.
ReplacedLeaves(t) ==
    pc[t] \in {"truncate", "gen"} /\ file[PathOf(t)] = Absent
       => PathOf(t) \in loose \cup {Path}
AbsentLeaves(o) ==
    file[o] = Absent /\ genFile[o] # NoGen =>
       o \in loose \/ \E t \in Threads : pc[t] = "delete gen" /\ PathOf(t) = o
AbsentOpen(o) ==
    (host = "up" /\ file[o] = Absent /\ gens[o] # 0)
       => Deleting(o) # {} \/ o \in loose

\* A step that gives an absent artifact no generation and ends no delete of it.
LEMMA VacantStays ==
    ASSUME Sound, NEW t \in Threads, StepOf(t), NEW o \in Artifacts,
           AbsentLeaves(o), AbsentOpen(o),
           file'[o] = Absent => file[o] = Absent,
           file'[o] = Absent => genFile'[o] \in {genFile[o], NoGen},
           file'[o] = Absent => gens'[o] \in {gens[o], 0},
           pc[t] \notin {"delete gen", "delete entry"}
    PROVE  AbsentLeaves(o)' /\ AbsentOpen(o)'
<1>1. Alone(t) /\ host' = host /\ loose \subseteq loose'
  BY OneThreadMoves, NotDone DEF Sound
<1>2. \A u \in Threads : pc[u] \in {"delete gen", "delete entry"} =>
           pc'[u] = pc[u] /\ PathOf(u)' = PathOf(u)
  BY <1>1 DEF Alone, PathOf
<1>3. AbsentLeaves(o)'
  BY <1>1, <1>2 DEF AbsentLeaves
<1>4. Deleting(o) \subseteq Deleting(o)'
  BY <1>2, DeletingStays
<1>5. AbsentOpen(o)'
  BY <1>1, <1>4 DEF AbsentOpen
<1> QED
  BY <1>3, <1>5

LEMMA VacantStep ==
    ASSUME Base, Vacant, AbsentIsWritable, NEW t \in Threads, StepOf(t)
    PROVE  Vacant' /\ AbsentIsWritable'
<1>1. /\ Sound /\ Typed /\ Alone(t) /\ host' = host /\ ThreadOK(t) /\ PathOf(t) \in Paths
      /\ Artifacts \subseteq Paths /\ loose \subseteq loose'
      /\ \A u \in Threads : PathOf(u) \in Paths
      /\ \A o \in Artifacts : AbsentLeaves(o) /\ AbsentOpen(o)
      /\ \A u \in Threads : ReplacedLeaves(u)
      /\ \A u \in Threads : call'[u] = call[u] => PathOf(u)' = PathOf(u)
  BY OneThreadMoves, NotDone, CallTyped
  DEF Base, Sound, Paths, Vacant, AbsentIsWritable, AbsentLeaves, AbsentOpen, ReplacedLeaves,
      PathOf
<1> SUFFICES /\ \A u \in Threads : ReplacedLeaves(u)'
             /\ \A o \in Artifacts : AbsentLeaves(o)' /\ AbsentOpen(o)'
  BY DEF Vacant, AbsentIsWritable, AbsentLeaves, AbsentOpen, ReplacedLeaves
<1>2. ASSUME \A o \in Paths : file'[o] = Absent => file[o] = Absent,
             pc'[t] \in {"truncate", "gen"} =>
                \/ pc[t] \in {"truncate", "gen"} /\ call' = call
                \/ file'[PathOf(t)'] # Absent
      PROVE  \A u \in Threads : ReplacedLeaves(u)'
  <2> SUFFICES ASSUME NEW u \in Threads, pc'[u] \in {"truncate", "gen"},
                      file'[PathOf(u)'] = Absent
               PROVE  PathOf(u)' \in loose' \cup {Path}
    BY DEF ReplacedLeaves
  <2>1. pc[u] \in {"truncate", "gen"} /\ call'[u] = call[u]
    BY <1>1, <1>2 DEF Alone
  <2>2. PathOf(u)' = PathOf(u) /\ PathOf(u) \in Paths /\ ReplacedLeaves(u)
    BY <1>1, <2>1
  <2>3. file[PathOf(u)] = Absent
    BY <1>2, <2>2
  <2>4. PathOf(u) \in loose \cup {Path}
    BY <2>1, <2>2, <2>3 DEF ReplacedLeaves
  <2> QED
    BY <1>1, <2>2, <2>4
\* Steps that leave the three maps alone.
<1>3. ASSUME UNCHANGED <<file, genFile, gens>>, pc[t] \notin {"delete gen", "delete entry"},
             pc'[t] \notin {"truncate", "gen"}
      PROVE  /\ \A u \in Threads : ReplacedLeaves(u)'
             /\ \A o \in Artifacts : AbsentLeaves(o)' /\ AbsentOpen(o)'
  BY <1>1, <1>2, <1>3, VacantStays
<1>4. CASE \E c \in Updates \cup Works : Start(t, c)
  <2>1. PICK c \in Updates \cup Works : Start(t, c)
    BY <1>4
  <2> DEFINE there == CASE c.op = "put"    -> "write"
                        [] c.op = "delete" -> "delete file"
                        [] OTHER           -> "read"
  <2>2. pc[t] = "idle" /\ pc'[t] = there /\ UNCHANGED <<file, genFile, gens>>
    BY <1>1, <2>1, StartIs
  <2>3. there \notin {"truncate", "gen"}
    OBVIOUS
  <2> HIDE DEF there
  <2> QED
    BY <1>3, <2>2, <2>3
<1>5. CASE Read(t)
  BY <1>1, <1>3, <1>5, ReadIs
<1>6. CASE Write(t)
  BY <1>1, <1>3, <1>6, WriteIs
<1>7. CASE Failed(t)
  BY <1>1, <1>3, <1>7, FailedIs
<1>8. CASE Rename(t)
  <2>1. /\ pc[t] = "rename" /\ UNCHANGED <<genFile, call>>
        /\ \A p \in Paths \ {PathOf(t)} : file'[p] = file[p]
        /\ file'[PathOf(t)] = IF IsUpdate(t) THEN WithLicence(call[t], t, mem[t].doc)
                              ELSE call[t].jar
        /\ gens' = [gens EXCEPT ![PathOf(t)] = @ + 1]
    BY <1>1, <1>8, RenameIs
  <2>2. CASE IsUpdate(t)
    <3>1. PathOf(t) = Path /\ Path \notin Artifacts
      BY <1>1, <2>2, CallTyped, StoreAssumption
    <3>2. \A o \in Artifacts : file'[o] = file[o] /\ gens'[o] = gens[o]
      BY <1>1, <2>1, <3>1 DEF Typed
    <3>3. \A o \in Artifacts : AbsentLeaves(o)' /\ AbsentOpen(o)'
      BY <1>1, <2>1, <3>2, VacantStays
    <3>4. ASSUME NEW u \in Threads, pc'[u] \in {"truncate", "gen"}, file'[PathOf(u)'] = Absent
          PROVE  PathOf(u)' \in loose' \cup {Path}
      <4>1. PathOf(u)' = PathOf(u) /\ PathOf(u) \in Paths /\ ReplacedLeaves(u)
        BY <1>1, <2>1
      <4>2. CASE PathOf(u) = Path
        BY <4>1, <4>2
      <4>3. CASE PathOf(u) # Path
        <5>1. file[PathOf(u)] = Absent
          BY <2>1, <3>1, <3>4, <4>1, <4>3
        <5>2. u # t
          BY <3>1, <4>3
        <5>3. pc[u] \in {"truncate", "gen"}
          BY <1>1, <3>4, <5>2 DEF Alone
        <5> QED
          BY <1>1, <4>1, <5>1, <5>3 DEF ReplacedLeaves
      <4> QED
        BY <4>2, <4>3
    <3> QED
      BY <3>3, <3>4 DEF ReplacedLeaves
  <2>3. CASE ~IsUpdate(t)
    <3>1. file'[PathOf(t)] # Absent /\ PathOf(t)' = PathOf(t)
      BY <1>1, <2>1, <2>3, CallTyped, StoreAssumption
    <3>2. \A p \in Paths : file'[p] = Absent => p # PathOf(t) /\ file[p] = Absent
      BY <2>1, <3>1
    <3>3. \A p \in Paths : p # PathOf(t) => gens'[p] = gens[p]
      BY <1>1, <2>1 DEF Typed
    <3>4. \A o \in Artifacts : AbsentLeaves(o)' /\ AbsentOpen(o)'
      BY <1>1, <2>1, <3>2, <3>3, VacantStays
    <3> QED
      BY <1>2, <3>1, <3>2, <3>4
  <2> QED
    BY <2>2, <2>3
\* The .gen file of an absent artifact is written by one whose object was deleted.
<1>9. ASSUME pc[t] \in {"truncate", "gen"}, NEW g,
             genFile' = [genFile EXCEPT ![PathOf(t)] = g],
             UNCHANGED <<file, gens, call>>
      PROVE  /\ \A u \in Threads : ReplacedLeaves(u)'
             /\ \A o \in Artifacts : AbsentLeaves(o)' /\ AbsentOpen(o)'
  <2>1. \A u \in Threads : ReplacedLeaves(u)'
    BY <1>2, <1>9
  <2>2. ASSUME NEW o \in Artifacts
        PROVE  AbsentLeaves(o)' /\ AbsentOpen(o)'
    <3>1. CASE PathOf(t) # o
      <4>1. genFile'[o] = genFile[o]
        BY <1>1, <1>9, <3>1 DEF Typed
      <4> QED
        BY <1>1, <1>9, <4>1, VacantStays
    <3>2. CASE PathOf(t) = o /\ file[o] = Absent
      <4>1. o \in loose
        BY <1>1, <1>9, <3>2, StoreAssumption DEF ReplacedLeaves
      <4> QED
        BY <1>1, <4>1 DEF AbsentLeaves, AbsentOpen
    <3>3. CASE file[o] # Absent
      BY <1>9, <3>3 DEF AbsentLeaves, AbsentOpen
    <3> QED
      BY <3>1, <3>2, <3>3
  <2> QED
    BY <2>1, <2>2
<1>10. CASE Truncate(t)
  BY <1>1, <1>9, <1>10, TruncateIs
<1>11. CASE WriteGen(t)
  BY <1>1, <1>9, <1>11, WriteGenIs
<1>12. CASE DeleteFile(t)
  <2>1. /\ pc[t] = "delete file" /\ pc'[t] = "delete gen" /\ UNCHANGED <<genFile, gens, call>>
        /\ file' = [file EXCEPT ![PathOf(t)] = Absent]
    BY <1>1, <1>12, DeleteFileIs
  <2>2. Writing(PathOf(t)) # {} => PathOf(t) \in loose'
    BY <1>12 DEF DeleteFile
  <2>3. ASSUME NEW u \in Threads
        PROVE  ReplacedLeaves(u)'
    <3>1. PathOf(u)' = PathOf(u) /\ PathOf(u) \in Paths /\ ReplacedLeaves(u)
      BY <1>1, <2>1
    <3>2. pc'[u] \in {"truncate", "gen"} => pc[u] \in {"truncate", "gen"}
      BY <1>1, <2>1 DEF Alone
    <3>3. CASE PathOf(u) = PathOf(t)
      <4>1. pc[u] \in {"truncate", "gen"} => u \in Writing(PathOf(t))
        BY <3>3, WritingIs DEF Holding
      <4> QED
        BY <2>2, <3>1, <3>2, <3>3, <4>1 DEF ReplacedLeaves
    <3>4. CASE PathOf(u) # PathOf(t)
      <4>1. file'[PathOf(u)] = file[PathOf(u)]
        BY <1>1, <2>1, <3>1, <3>4 DEF Typed
      <4> QED
        BY <1>1, <3>1, <3>2, <4>1 DEF ReplacedLeaves
    <3> QED
      BY <3>3, <3>4
  <2>4. ASSUME NEW o \in Artifacts
        PROVE  AbsentLeaves(o)' /\ AbsentOpen(o)'
    <3>1. CASE PathOf(t) = o
      <4>1. PathOf(t)' = o /\ t \in Deleting(o)'
        BY <1>1, <2>1, <3>1, WritingIs
      <4> QED
        BY <2>1, <4>1 DEF AbsentLeaves, AbsentOpen
    <3>2. CASE PathOf(t) # o
      <4>1. file'[o] = file[o]
        BY <1>1, <2>1, <3>2 DEF Typed
      <4> QED
        BY <1>1, <2>1, <4>1, VacantStays
    <3> QED
      BY <3>1, <3>2
  <2> QED
    BY <2>3, <2>4
\* The end of a delete: of the .gen file, and of the map entry.
<1>13. ASSUME pc[t] = "delete gen", pc'[t] = "delete entry", UNCHANGED <<file, gens, call>>,
              NEW ignored \in BOOLEAN,
              ignored => PathOf(t) \in loose' /\ genFile' = genFile,
              ~ignored => genFile' = [genFile EXCEPT ![PathOf(t)] = NoGen]
       PROVE  /\ \A u \in Threads : ReplacedLeaves(u)'
              /\ \A o \in Artifacts : AbsentLeaves(o)' /\ AbsentOpen(o)'
  <2>1. \A u \in Threads : ReplacedLeaves(u)'
    BY <1>2, <1>13
  <2>2. ASSUME NEW o \in Artifacts
        PROVE  AbsentLeaves(o)' /\ AbsentOpen(o)'
    <3>1. Deleting(o) \subseteq Deleting(o)'
      BY <1>1, <1>13, DeletingStays DEF Alone
    <3>2. AbsentOpen(o)'
      BY <1>1, <1>13, <3>1 DEF AbsentOpen
    <3>3. AbsentLeaves(o)'
      <4>1. CASE PathOf(t) = o
        BY <1>1, <1>13, <4>1 DEF AbsentLeaves, Typed
      <4>2. CASE PathOf(t) # o
        <5>1. genFile'[o] = genFile[o]
          BY <1>1, <1>13, <4>2 DEF Typed
        <5>2. \A u \in Threads : pc[u] = "delete gen" /\ PathOf(u) = o =>
                   pc'[u] = "delete gen" /\ PathOf(u)' = o
          BY <1>1, <1>13, <4>2 DEF Alone
        <5> QED
          BY <1>1, <1>13, <5>1, <5>2 DEF AbsentLeaves
      <4> QED
        BY <4>1, <4>2
    <3> QED
      BY <3>2, <3>3
  <2> QED
    BY <2>1, <2>2
<1>14. CASE DeleteGen(t)
  BY <1>1, <1>13, <1>14, DeleteGenIs
<1>15. CASE GenStays(t)
  BY <1>1, <1>13, <1>15, GenStaysIs
<1>16. CASE DeleteEntry(t)
  <2>1. /\ pc[t] = "delete entry" /\ pc'[t] = "done" /\ UNCHANGED <<file, genFile, call>>
        /\ gens' = [gens EXCEPT ![PathOf(t)] = 0]
    BY <1>1, <1>16, DeleteEntryIs
  <2>2. \A u \in Threads : ReplacedLeaves(u)'
    BY <1>2, <2>1
  <2>3. ASSUME NEW o \in Artifacts
        PROVE  AbsentLeaves(o)' /\ AbsentOpen(o)'
    <3>1. \A u \in Threads : pc[u] = "delete gen" => pc'[u] = "delete gen" /\ PathOf(u)' = PathOf(u)
      BY <1>1, <2>1 DEF Alone
    <3>2. AbsentLeaves(o)'
      BY <1>1, <2>1, <3>1 DEF AbsentLeaves
    <3>3. AbsentOpen(o)'
      <4>1. CASE PathOf(t) = o
        BY <1>1, <2>1, <4>1 DEF AbsentOpen, Typed
      <4>2. CASE PathOf(t) # o
        <5>1. gens'[o] = gens[o]
          BY <1>1, <2>1, <4>2 DEF Typed
        <5>2. Deleting(o) \subseteq Deleting(o)'
          BY <1>1, <2>1, <4>2, DeletingStays DEF Alone
        <5> QED
          BY <1>1, <2>1, <5>1, <5>2 DEF AbsentOpen
      <4> QED
        BY <4>1, <4>2
    <3> QED
      BY <3>2, <3>3
  <2> QED
    BY <2>2, <2>3
<1> QED
  BY <1>4, <1>5, <1>6, <1>7, <1>8, <1>10, <1>11, <1>12, <1>14, <1>15, <1>16
  DEF StepOf, Step

LEMMA VacantNext ==
    ASSUME Base, Vacant, AbsentIsWritable, [Next]_vars, Base'
    PROVE  Vacant' /\ AbsentIsWritable'
<1>1. Sound /\ Sound' /\ Typed /\ Artifacts \subseteq Paths
  BY DEF Base, Sound, Paths
<1>2. CASE \E t \in Threads : StepOf(t)
  BY <1>2, VacantStep
<1>3. CASE Crash
  <2>1. /\ host' = "down" /\ UNCHANGED <<file, genFile>>
        /\ loose' = loose \cup {o \in Artifacts : Deleting(o) # {}}
    BY <1>3 DEF Crash, disk
  <2>2. \A u \in Threads : pc'[u] \in {"idle", "done"}
    BY <1>1, <1>3, CrashIs
  <2>3. \A o \in Artifacts : file[o] = Absent /\ genFile[o] # NoGen => o \in loose'
    BY <2>1, WritingIs DEF Vacant
  <2> QED
    BY <2>1, <2>2, <2>3 DEF Vacant, AbsentIsWritable
<1>4. CASE Restart
  <2>1. /\ host = "down" /\ UNCHANGED <<file, genFile, pc, call, loose>>
        /\ host' = "up" => \A o \in Paths :
                              gens'[o] = IF genFile[o] = NoGen THEN 0 ELSE genFile[o]
    BY <1>1, <1>4, RestartIs
  <2>2. \A u \in Threads : pc[u] \in {"idle", "done"}
    BY <1>1, <2>1, NobodyActive
  <2>3. \A o \in Artifacts : file[o] = Absent /\ genFile[o] # NoGen => o \in loose
    BY <2>2 DEF Vacant
  <2>4. Vacant'
    BY <2>1, <2>2, <2>3 DEF Vacant
  <2>5. AbsentIsWritable'
    BY <1>1, <2>1, <2>3 DEF AbsentIsWritable
  <2> QED
    BY <2>4, <2>5
<1>5. CASE UNCHANGED vars
  <2>1. \A o : Deleting(o)' = Deleting(o)
    BY <1>5 DEF vars, Deleting, Active, PathOf
  <2>2. \A u \in Threads : PathOf(u)' = PathOf(u)
    BY <1>5 DEF vars, PathOf
  <2>3. UNCHANGED <<file, genFile, gens, host, pc, loose>>
    BY <1>5 DEF vars
  <2>4. Vacant'
    BY <2>2, <2>3 DEF Vacant
  <2> QED
    BY <2>1, <2>3, <2>4 DEF AbsentIsWritable
<1> QED
  BY <1>2, <1>3, <1>4, <1>5 DEF Next, StepOf

\* A generation without a file, which refuses every write to that path, is left
\* behind by a Delete only if it was cut short by a crash, ran into a write or
\* another delete of the path, or could not remove the .gen file.
THEOREM AbsentArtifactIsWritable == Spec => []AbsentIsWritable
<1>1. Init => Vacant /\ AbsentIsWritable
  BY DEF Init, Vacant, AbsentIsWritable, Paths
<1> QED
  BY <1>1, BaseInit, BaseNext, VacantNext, PTL DEF Spec

-----------------------------------------------------------------------------
(* LocalStore implements AtomicDocument.                                     *)

\* What one request is in the abstract document.
AskedOf(t) == IF pc[t] = "idle" \/ ~IsUpdate(t) THEN {} ELSE {call[t]}
VerdictOf(t) ==
    IF ~IsUpdate(t) THEN ""
    ELSE IF t \in effect THEN "performed"
    ELSE IF pc[t] = "write" THEN LicenceRefusal(call[t], mem[t].doc)
    ELSE ""
AnsweredOf(t) == IF IsUpdate(t) THEN reply[t] ELSE ""

AskedBar == [t \in Threads |-> AskedOf(t)]
VerdictBar == [t \in Threads |-> VerdictOf(t)]
AnsweredBar == [t \in Threads |-> AnsweredOf(t)]

SameRequest(u) ==
    AskedOf(u)' = AskedOf(u) /\ VerdictOf(u)' = VerdictOf(u) /\ AnsweredOf(u)' = AnsweredOf(u)

\* How one request moves, for each step of the abstract document.
LEMMA AskStep ==
    ASSUME NEW t \in Threads, NEW c \in Updates, file'[Path] = file[Path],
           \A u \in Threads \ {t} : SameRequest(u),
           AskedOf(t) = {}, AskedOf(t)' = {c},
           VerdictOf(t)' = VerdictOf(t), AnsweredOf(t)' = AnsweredOf(t)
    PROVE  Doc!Next
<1>1. /\ AskedBar' = [AskedBar EXCEPT ![t] = {c}] /\ AskedBar[t] = {}
      /\ VerdictBar' = VerdictBar /\ AnsweredBar' = AnsweredBar
  BY DEF AskedBar, VerdictBar, AnsweredBar, SameRequest
<1>2. Doc!Ask(t, c)
  BY <1>1 DEF Doc!Ask, AskedBar, VerdictBar, AnsweredBar, AskedOf, VerdictOf, AnsweredOf
<1> QED
  BY <1>2 DEF Doc!Next

LEMMA JudgeStep ==
    ASSUME NEW t \in Threads, file'[Path] = file[Path],
           \A u \in Threads \ {t} : SameRequest(u),
           AskedOf(t) = {call[t]}, AskedOf(t)' = AskedOf(t), AnsweredOf(t) = "",
           AnsweredOf(t)' = "", VerdictOf(t) # "performed",
           VerdictOf(t)' = LicenceRefusal(call[t], file[Path])
    PROVE  Doc!Next
<1>1. /\ AskedBar' = AskedBar /\ AskedBar[t] = {call[t]}
      /\ AnsweredBar' = AnsweredBar /\ AnsweredBar[t] = "" /\ VerdictBar[t] # "performed"
      /\ VerdictBar' = [VerdictBar EXCEPT ![t] = LicenceRefusal(call[t], file[Path])]
  BY DEF AskedBar, VerdictBar, AnsweredBar, SameRequest
<1>2. Doc!Judge(t)
  BY <1>1 DEF Doc!Judge, Doc!Running, AskedBar, VerdictBar, AnsweredBar,
              AskedOf, VerdictOf, AnsweredOf
<1> QED
  BY <1>2 DEF Doc!Next

LEMMA PerformStep ==
    ASSUME NEW t \in Threads, file'[Path] = WithLicence(call[t], t, file[Path]),
           LicenceRefusal(call[t], file[Path]) = "",
           \A u \in Threads \ {t} : SameRequest(u),
           AskedOf(t) = {call[t]}, AskedOf(t)' = AskedOf(t), AnsweredOf(t) = "",
           AnsweredOf(t)' = "", VerdictOf(t) # "performed", VerdictOf(t)' = "performed"
    PROVE  Doc!Next
<1>1. /\ AskedBar' = AskedBar /\ AskedBar[t] = {call[t]}
      /\ AnsweredBar' = AnsweredBar /\ AnsweredBar[t] = "" /\ VerdictBar[t] # "performed"
      /\ VerdictBar' = [VerdictBar EXCEPT ![t] = "performed"]
  BY DEF AskedBar, VerdictBar, AnsweredBar, SameRequest
<1>2. Doc!Perform(t)
  BY <1>1 DEF Doc!Perform, Doc!Running, AskedBar, VerdictBar, AnsweredBar,
              AskedOf, VerdictOf, AnsweredOf
<1> QED
  BY <1>2 DEF Doc!Next

LEMMA AnswerStep ==
    ASSUME NEW t \in Threads, NEW code \in Replies \ {""}, file'[Path] = file[Path],
           \A u \in Threads \ {t} : SameRequest(u),
           AskedOf(t) = {call[t]}, AskedOf(t)' = AskedOf(t), AnsweredOf(t) = "",
           AnsweredOf(t)' = code,
           VerdictOf(t)' = IF VerdictOf(t) = "performed" THEN "performed" ELSE "",
           code = "ok" => VerdictOf(t) = "performed",
           code = "storageConflict" => VerdictOf(t) # "performed",
           code \in {"conflict", "notFound", "internalError"} => VerdictOf(t) = code
    PROVE  Doc!Next
<1>1. /\ AskedBar' = AskedBar /\ AskedBar[t] = {call[t]}
      /\ AnsweredBar' = [AnsweredBar EXCEPT ![t] = code] /\ AnsweredBar[t] = ""
      /\ VerdictBar[t] = VerdictOf(t)
      /\ VerdictBar' = [VerdictBar EXCEPT ![t] =
                          IF VerdictBar[t] = "performed" THEN "performed" ELSE ""]
  BY DEF AskedBar, VerdictBar, AnsweredBar, SameRequest
<1>2. (CASE code = "ok"                        -> VerdictBar[t] = "performed"
         [] code = "storageConflict"           -> VerdictBar[t] # "performed"
         [] code \in {"unavailable", "lost"}   -> TRUE
         [] OTHER                              -> VerdictBar[t] = code)
  <2>1. code \in {"ok", "storageConflict", "unavailable", "lost"} \/
        code \in {"conflict", "notFound", "internalError"}
    BY DEF Replies
  <2> QED
    BY <1>1, <2>1
<1>3. Doc!Answer(t, code)
  BY <1>1, <1>2 DEF Doc!Answer, Doc!Running, Doc!Kept, AskedBar, VerdictBar, AnsweredBar,
              AskedOf, VerdictOf, AnsweredOf
<1>4. code \in Doc!Codes
  BY DEF Doc!Codes, Replies
<1> QED
  BY <1>3, <1>4 DEF Doc!Next

LEMMA DocStutters ==
    ASSUME file'[Path] = file[Path], \A u \in Threads : SameRequest(u)
    PROVE  UNCHANGED Doc!vars
<1>1. AskedBar' = AskedBar /\ VerdictBar' = VerdictBar /\ AnsweredBar' = AnsweredBar
  BY DEF AskedBar, VerdictBar, AnsweredBar, SameRequest
<1> QED
  BY <1>1 DEF Doc!vars, AskedBar, VerdictBar, AnsweredBar, AskedOf, VerdictOf, AnsweredOf

LEMMA OthersSame ==
    ASSUME NEW t \in Threads, Alone(t), effect' \subseteq effect \cup {t}, effect \subseteq effect'
    PROVE  \A u \in Threads \ {t} : SameRequest(u)
<1> SUFFICES ASSUME NEW u \in Threads \ {t}
             PROVE  SameRequest(u)
  OBVIOUS
<1>1. /\ pc'[u] = pc[u] /\ call'[u] = call[u] /\ mem'[u] = mem[u] /\ reply'[u] = reply[u]
      /\ u \in effect' <=> u \in effect
  BY DEF Alone
<1> QED
  BY <1>1 DEF SameRequest, AskedOf, VerdictOf, AnsweredOf, IsUpdate

LEMMA StepRefines ==
    ASSUME Base, Base', NEW t \in Threads, StepOf(t)
    PROVE  Doc!Next \/ UNCHANGED Doc!vars
<1>1. /\ Sound /\ Typed /\ Alone(t) /\ ThreadOK(t) /\ ThreadOK(t)' /\ Path \in Paths
      /\ (IsUpdate(t) => call[t] \in Updates /\ call[t] \in LicenceCall /\ PathOf(t) = Path)
      /\ (~IsUpdate(t) => PathOf(t) # Path) /\ PathOf(t) \in Paths
  BY OneThreadMoves, CallTyped DEF Base, Sound, Paths
<1>2. ASSUME effect' = effect
      PROVE  \A u \in Threads \ {t} : SameRequest(u)
  BY <1>1, <1>2, OthersSame
\* A step of which the document shows nothing.
<1>3. ASSUME file'[Path] = file[Path], effect' = effect, SameRequest(t)
      PROVE  UNCHANGED Doc!vars
  BY <1>2, <1>3, DocStutters
\* A request for an artifact is none for the document.
<1>4. ASSUME ~IsUpdate(t), call' = call, file'[Path] = file[Path],
             effect' \subseteq effect \cup {t}, effect \subseteq effect'
      PROVE  UNCHANGED Doc!vars
  <2>1. SameRequest(t)
    BY <1>4 DEF SameRequest, AskedOf, VerdictOf, AnsweredOf, IsUpdate
  <2>2. \A u \in Threads \ {t} : SameRequest(u)
    BY <1>1, <1>4, OthersSame
  <2> QED
    BY <1>4, <2>1, <2>2, DocStutters
\* An update that is answered.
<1>5. ASSUME IsUpdate(t), pc[t] # "idle", pc'[t] = "done", call' = call, file' = file,
             effect' = effect, NEW code \in Replies \ {""}, reply'[t] = code,
             code = "ok" => t \in effect,
             code = "storageConflict" => t \notin effect /\ pc[t] # "write",
             code \in {"conflict", "notFound", "internalError"} => VerdictOf(t) = code
      PROVE  Doc!Next
  <2>1. reply[t] = ""
    BY <1>1, NotDone
  <2>2. AskedOf(t) = {call[t]} /\ AskedOf(t)' = {call[t]}
    BY <1>5 DEF AskedOf, IsUpdate
  <2>3. AnsweredOf(t) = "" /\ AnsweredOf(t)' = code
    BY <1>5, <2>1 DEF AnsweredOf, IsUpdate
  <2>4. VerdictOf(t)' = IF t \in effect THEN "performed" ELSE ""
    BY <1>5 DEF VerdictOf, IsUpdate
  <2>5. LicenceRefusal(call[t], mem[t].doc) # "performed"
    BY <1>1, <1>5, RefusalTyped
  <2>6. VerdictOf(t) = "performed" <=> t \in effect
    BY <1>5, <2>5 DEF VerdictOf
  <2> QED
    BY <1>2, <1>5, <2>2, <2>3, <2>4, <2>6, AnswerStep
<1>6. CASE \E c \in Updates \cup Works : Start(t, c)
  <2>1. PICK c \in Updates \cup Works : Start(t, c)
    BY <1>6
  <2> DEFINE there == CASE c.op = "put"    -> "write"
                        [] c.op = "delete" -> "delete file"
                        [] OTHER           -> "read"
  <2>2. /\ pc[t] = "idle" /\ pc'[t] = there /\ call'[t] = c /\ t \notin effect
        /\ reply'[t] = "" /\ UNCHANGED <<file, effect>>
    BY <1>1, <2>1, StartIs DEF ThreadOK
  <2>3. c.op \notin {"put", "delete"} => there = "read"
    OBVIOUS
  <2>4. there # "idle"
    OBVIOUS
  <2> HIDE DEF there
  <2>5. AskedOf(t) = {} /\ VerdictOf(t) = "" /\ AnsweredOf(t) = ""
    BY <1>1, <2>2 DEF AskedOf, VerdictOf, AnsweredOf, ThreadOK
  <2>6. VerdictOf(t)' = "" /\ AnsweredOf(t)' = ""
    BY <2>2, <2>3 DEF VerdictOf, AnsweredOf, IsUpdate
  <2>7. CASE c.op \notin {"put", "delete"}
    <3>1. c \in Updates
      BY <2>7, StoreAssumption DEF Work
    <3>2. AskedOf(t)' = {c}
      BY <2>2, <2>4, <2>7 DEF AskedOf, IsUpdate
    <3> QED
      BY <1>2, <2>2, <2>5, <2>6, <3>1, <3>2, AskStep
  <2>8. CASE c.op \in {"put", "delete"}
    <3>1. AskedOf(t)' = {}
      BY <2>2, <2>8 DEF AskedOf, IsUpdate
    <3> QED
      BY <1>3, <2>2, <2>5, <2>6, <3>1 DEF SameRequest
  <2> QED
    BY <2>7, <2>8
<1>7. CASE Read(t)
  <2>1. pc[t] = "read" /\ IsUpdate(t) /\ t \notin effect /\ UNCHANGED <<file, effect, call>>
    BY <1>1, <1>7, ReadIs DEF ThreadOK
  <2>2. CASE pc'[t] = "done"
    <3>1. reply'[t] = "storageConflict"
      BY <1>1, <1>7, <2>2, ReadIs
    <3> QED
      BY <1>5, <2>1, <2>2, <3>1 DEF Replies
  <2>3. CASE pc'[t] = "write"
    <3>1. mem'[t].doc = file[Path] /\ reply' = reply
      BY <1>1, <1>7, <2>3, ReadIs
    <3>2. AskedOf(t) = {call[t]} /\ AskedOf(t)' = {call[t]}
      BY <2>1, <2>3 DEF AskedOf, IsUpdate
    <3>3. AnsweredOf(t) = "" /\ AnsweredOf(t)' = "" /\ VerdictOf(t) = ""
      BY <1>1, <2>1, <3>1 DEF AnsweredOf, VerdictOf, ThreadOK, IsUpdate
    <3>4. VerdictOf(t)' = LicenceRefusal(call[t], file[Path])
      BY <2>1, <2>3, <3>1 DEF VerdictOf, IsUpdate
    <3> QED
      BY <1>2, <2>1, <3>2, <3>3, <3>4, JudgeStep
  <2> QED
    BY <1>1, <1>7, <2>2, <2>3, ReadIs
<1>8. CASE Write(t)
  <2>1. pc[t] = "write" /\ t \notin effect /\ UNCHANGED <<file, effect, call>>
    BY <1>1, <1>8, WriteIs DEF ThreadOK
  <2>2. CASE ~IsUpdate(t)
    BY <1>4, <2>1, <2>2
  <2>3. CASE IsUpdate(t) /\ pc'[t] = "done"
    <3>1. reply'[t] = LicenceRefusal(call[t], mem[t].doc) /\ reply'[t] # ""
      BY <1>1, <1>8, <2>3, WriteIs DEF ThreadOK
    <3>2. reply'[t] \in {"conflict", "notFound", "internalError"}
      BY <1>1, <2>3, <3>1, RefusalTyped
    <3>3. VerdictOf(t) = reply'[t]
      BY <2>1, <2>3, <3>1 DEF VerdictOf
    <3>4. reply'[t] \in Replies \ {""}
      BY <3>2 DEF Replies
    <3> QED
      BY <1>5, <2>1, <2>3, <3>2, <3>3, <3>4
  <2>4. CASE IsUpdate(t) /\ pc'[t] # "done"
    <3>1. /\ LicenceRefusal(call[t], mem[t].doc) = "" /\ reply' = reply
          /\ pc'[t] \in {"rename", "read"}
      BY <1>1, <1>8, <2>4, WriteIs
    <3>2. VerdictOf(t) = "" /\ VerdictOf(t)' = ""
      BY <2>1, <2>4, <3>1 DEF VerdictOf, IsUpdate
    <3>3. SameRequest(t)
      BY <2>1, <2>4, <3>1, <3>2 DEF SameRequest, AskedOf, AnsweredOf, IsUpdate
    <3> QED
      BY <1>3, <2>1, <3>3
  <2> QED
    BY <2>2, <2>3, <2>4
<1>9. CASE Rename(t)
  <2>1. /\ pc[t] = "rename" /\ pc'[t] = "truncate" /\ UNCHANGED <<call, mem, reply>>
        /\ effect' = effect \cup {t} /\ t \notin effect
        /\ file'[PathOf(t)] = IF IsUpdate(t) THEN WithLicence(call[t], t, mem[t].doc)
                              ELSE call[t].jar
        /\ \A o \in Paths \ {PathOf(t)} : file'[o] = file[o]
    BY <1>1, <1>9, RenameIs DEF ThreadOK
  <2>2. CASE ~IsUpdate(t)
    BY <1>1, <1>4, <2>1, <2>2
  <2>3. CASE IsUpdate(t)
    <3>1. mem[t].doc = file[Path] /\ LicenceRefusal(call[t], file[Path]) = ""
      BY <2>1, <2>3 DEF Base, Current, Fresh
    <3>2. file'[Path] = WithLicence(call[t], t, file[Path])
      BY <1>1, <2>1, <2>3, <3>1
    <3>3. AskedOf(t) = {call[t]} /\ AskedOf(t)' = {call[t]}
      BY <2>1, <2>3 DEF AskedOf, IsUpdate
    <3>4. AnsweredOf(t) = "" /\ AnsweredOf(t)' = ""
      BY <1>1, <2>1 DEF AnsweredOf, ThreadOK
    <3>5. VerdictOf(t) = "" /\ VerdictOf(t)' = "performed"
      BY <2>1, <2>3 DEF VerdictOf, IsUpdate
    <3>6. \A u \in Threads \ {t} : SameRequest(u)
      BY <1>1, <2>1, OthersSame
    <3> QED
      BY <3>1, <3>2, <3>3, <3>4, <3>5, <3>6, PerformStep
  <2> QED
    BY <2>2, <2>3
<1>10. CASE Truncate(t)
  <2>1. /\ pc[t] = "truncate" /\ pc'[t] = "gen" /\ t \in effect
        /\ UNCHANGED <<call, mem, reply, file, effect>>
    BY <1>1, <1>10, TruncateIs DEF ThreadOK
  <2>2. SameRequest(t)
    BY <2>1 DEF SameRequest, AskedOf, VerdictOf, AnsweredOf, IsUpdate
  <2> QED
    BY <1>3, <2>1, <2>2
<1>11. CASE WriteGen(t)
  <2>1. /\ pc[t] = "gen" /\ pc'[t] = "done" /\ t \in effect /\ reply'[t] = "ok"
        /\ UNCHANGED <<call, file, effect>>
    BY <1>1, <1>11, WriteGenIs DEF ThreadOK
  <2>2. "ok" \in Replies \ {""}
    BY DEF Replies
  <2> QED
    BY <1>4, <1>5, <2>1, <2>2
<1>12. CASE Failed(t)
  <2>1. /\ pc[t] # "idle" /\ pc'[t] = "done" /\ reply'[t] = "unavailable"
        /\ UNCHANGED <<call, file, effect>>
    BY <1>1, <1>12, FailedIs
  <2>2. "unavailable" \in Replies \ {""}
    BY DEF Replies
  <2> QED
    BY <1>4, <1>5, <2>1, <2>2
<1>13. CASE DeleteFile(t)
  <2>1. /\ ~IsUpdate(t) /\ UNCHANGED <<call, effect>>
        /\ file' = [file EXCEPT ![PathOf(t)] = Absent]
    BY <1>1, <1>13, DeleteFileIs DEF ThreadOK, IsUpdate
  <2>2. file'[Path] = file[Path]
    BY <1>1, <2>1 DEF Typed
  <2> QED
    BY <1>4, <2>1, <2>2
<1>14. CASE DeleteGen(t)
  BY <1>1, <1>4, <1>14, DeleteGenIs DEF ThreadOK, IsUpdate
<1>15. CASE DeleteEntry(t)
  BY <1>1, <1>4, <1>15, DeleteEntryIs DEF ThreadOK, IsUpdate
<1>16. CASE GenStays(t)
  BY <1>1, <1>4, <1>16, GenStaysIs DEF ThreadOK, IsUpdate
<1> QED
  BY <1>6, <1>7, <1>8, <1>9, <1>10, <1>11, <1>12, <1>13, <1>14, <1>15, <1>16
  DEF StepOf, Step

LEMMA CrashRefines ==
    ASSUME Base, Crash
    PROVE  Doc!Next
<1>1. Typed /\ \A t \in Threads : ThreadOK(t)
  BY DEF Base, Sound
<1>2. UNCHANGED <<file, call, effect>>
  BY DEF Crash, disk
<1>3. ASSUME NEW t \in Threads
      PROVE  /\ AskedOf(t)' = AskedOf(t)
             /\ AnsweredOf(t)' = IF AskedOf(t) # {} /\ AnsweredOf(t) = "" THEN "lost"
                                 ELSE AnsweredOf(t)
             /\ VerdictOf(t)' = IF VerdictOf(t) = "performed" THEN "performed" ELSE ""
  <2>1. /\ pc[t] \in {"idle", "done"} => pc'[t] = pc[t] /\ reply'[t] = reply[t]
        /\ pc[t] \notin {"idle", "done"} => pc'[t] = "done" /\ reply'[t] = "lost"
    BY <1>1, CrashIs
  <2>2. reply[t] = "" <=> pc[t] # "done"
    BY <1>1 DEF ThreadOK
  <2>3. IsUpdate(t)' = IsUpdate(t) /\ call'[t] = call[t] /\ (t \in effect' <=> t \in effect)
    BY <1>2 DEF IsUpdate
  <2>4. AskedOf(t)' = AskedOf(t)
    BY <2>1, <2>3 DEF AskedOf
  <2>5. AskedOf(t) # {} <=> IsUpdate(t) /\ pc[t] # "idle"
    BY DEF AskedOf
  <2>6. AnsweredOf(t)' = IF AskedOf(t) # {} /\ AnsweredOf(t) = "" THEN "lost"
                         ELSE AnsweredOf(t)
    BY <2>1, <2>2, <2>3, <2>5 DEF AnsweredOf
  <2>7. pc'[t] # "write"
    BY <2>1
  <2>8. VerdictOf(t)' = IF IsUpdate(t) /\ t \in effect THEN "performed" ELSE ""
    BY <2>3, <2>7 DEF VerdictOf
  <2>9. IsUpdate(t) => LicenceRefusal(call[t], mem[t].doc) # "performed"
    BY <1>1, CallTyped, RefusalTyped
  <2>10. VerdictOf(t) = "performed" <=> IsUpdate(t) /\ t \in effect
    BY <2>9 DEF VerdictOf
  <2> QED
    BY <2>4, <2>6, <2>8, <2>10
<1>4. /\ AskedBar' = AskedBar
      /\ AnsweredBar' = [t \in Threads |-> IF AskedBar[t] # {} /\ AnsweredBar[t] = ""
                                           THEN "lost" ELSE AnsweredBar[t]]
      /\ VerdictBar' = [t \in Threads |-> IF VerdictBar[t] = "performed"
                                          THEN "performed" ELSE ""]
  BY <1>3 DEF AskedBar, AnsweredBar, VerdictBar
<1>5. Doc!Crash
  BY <1>2, <1>4 DEF Doc!Crash, Doc!Running, Doc!Kept, AskedBar, VerdictBar, AnsweredBar,
                    AskedOf, VerdictOf, AnsweredOf
<1> QED
  BY <1>5 DEF Doc!Next

\* Every run of the local store under WriteWithRetry is a run of the abstract
\* document: updates take effect one at a time on the document as it is, an
\* answered update took effect once, a refused one never, and a crash or a failed
\* call leaves the document whole.
THEOREM LocalStoreIsAtomic == Spec => UpdatesAreAtomic
<1>1. Init => Doc!Init
  <2> SUFFICES ASSUME Init PROVE Doc!Init
    OBVIOUS
  <2>1. /\ file[Path] = NoDocument /\ effect = {}
        /\ \A t \in Threads : pc[t] = "idle" /\ reply[t] = ""
    BY DEF Init, Paths
  <2>2. \A t \in Threads : AskedOf(t) = {} /\ VerdictOf(t) = "" /\ AnsweredOf(t) = ""
    BY <2>1 DEF AskedOf, VerdictOf, AnsweredOf
  <2>3. /\ AskedBar = [t \in Threads |-> {}] /\ VerdictBar = [t \in Threads |-> ""]
        /\ AnsweredBar = [t \in Threads |-> ""]
    BY <2>2 DEF AskedBar, VerdictBar, AnsweredBar
  <2> QED
    BY <2>1, <2>3 DEF Doc!Init, AskedBar, VerdictBar, AnsweredBar,
                      AskedOf, VerdictOf, AnsweredOf
<1>2. Base /\ Base' /\ [Next]_vars => [Doc!Next]_(Doc!vars)
  <2> SUFFICES ASSUME Base, Base', [Next]_vars
               PROVE  Doc!Next \/ UNCHANGED Doc!vars
    OBVIOUS
  <2>1. CASE \E t \in Threads : StepOf(t)
    BY <2>1, StepRefines
  <2>2. CASE Crash
    BY <2>2, CrashRefines
  <2>3. CASE Restart
    <3>1. UNCHANGED <<file, pc, call, mem, reply, effect>>
      BY <2>3, RestartIs DEF Base, Sound
    <3> QED
      BY <3>1, DocStutters DEF SameRequest, AskedOf, VerdictOf, AnsweredOf, IsUpdate
  <2>4. CASE UNCHANGED vars
    BY <2>4, DocStutters DEF vars, SameRequest, AskedOf, VerdictOf, AnsweredOf, IsUpdate
  <2> QED
    BY <2>1, <2>2, <2>3, <2>4 DEF Next, StepOf
<1> QED
  BY <1>1, <1>2, BaseInit, BaseNext, PTL DEF Spec, UpdatesAreAtomic, Doc!Spec

-----------------------------------------------------------------------------
(* Keys. *)

LEMMA IssuedStep ==
    ASSUME Base, NEW t \in Threads, StepOf(t), file'[Path] # file[Path]
    PROVE  /\ t \notin effect
           /\ Issued(file'[Path]) \subseteq Issued(file[Path]) \cup {t}
<1>1. /\ Sound /\ Typed /\ ThreadOK(t) /\ Path \in Paths /\ PathOf(t) \in Paths
      /\ mem[t].doc \in Docs /\ t \in Keys
      /\ (IsUpdate(t) => call[t] \in LicenceCall /\ PathOf(t) = Path)
      /\ (~IsUpdate(t) => PathOf(t) # Path)
  BY CallTyped, StoreAssumption DEF Base, Sound, Typed, Paths
<1>2. CASE Rename(t)
  <2>1. pc[t] = "rename" /\ t \notin effect
    BY <1>1, <1>2, RenameIs DEF ThreadOK
  <2>2. IsUpdate(t)
    BY <1>1, <1>2, RenameIs
  <2>3. mem[t].doc = file[Path] /\ LicenceRefusal(call[t], mem[t].doc) = ""
    BY <2>1, <2>2 DEF Base, Current, Fresh
  <2>4. file'[Path] = WithLicence(call[t], t, file[Path])
    BY <1>1, <1>2, <2>2, <2>3, RenameIs
  <2>5. \A x \in Customers : KeysOf(file'[Path], x) \subseteq KeysOf(file[Path], x) \cup {t}
    <3>1. \A x \in Customers :
             KeysOf(WithLicence(call[t], t, mem[t].doc), x) \subseteq KeysOf(mem[t].doc, x) \cup {t}
      BY <1>1, <2>2, <2>3, WithLicenceTyped
    <3> QED
      BY <2>3, <2>4, <3>1
  <2> QED
    BY <2>1, <2>5 DEF Issued
<1>3. CASE DeleteFile(t)
  <2>1. PathOf(t) # Path
    BY <1>1, <1>3, DeleteFileIs, DeletedIsArtifact
  <2> QED
    BY <1>1, <1>3, <2>1, DeleteFileIs DEF Typed
<1>4. CASE \E c \in Updates \cup Works : Start(t, c)
  BY <1>1, <1>4, StartIs
<1> QED
  BY <1>1, <1>2, <1>3, <1>4, ReadIs, WriteIs, TruncateIs, WriteGenIs, DeleteGenIs, DeleteEntryIs,
     FailedIs, GenStaysIs DEF StepOf, Step

\* A key whose customer was revoked never comes back into the document: no
\* request writes the entitlements it read before the revocation.
THEOREM RevocationIsFinal == Spec => RevokedKeysStayRevoked
<1>1. ASSUME Base, [Next]_vars
      PROVE  [\A t \in effect : t \in Issued(file'[Path]) => t \in Issued(file[Path])]_vars
  <2>1. CASE file'[Path] = file[Path]
    BY <2>1
  <2>2. CASE file'[Path] # file[Path]
    <3>1. ~ Crash /\ ~ Restart /\ ~ UNCHANGED vars
      BY <2>2 DEF Crash, Restart, vars, disk
    <3>2. PICK t \in Threads : StepOf(t)
      BY <1>1, <3>1 DEF Next, StepOf
    <3>3. t \notin effect /\ Issued(file'[Path]) \subseteq Issued(file[Path]) \cup {t}
      BY <1>1, <2>2, <3>2, IssuedStep
    <3> QED
      BY <3>3
  <2> QED
    BY <2>1, <2>2
<1> QED
  BY <1>1, BaseInit, BaseNext, PTL DEF Spec, RevokedKeysStayRevoked

=============================================================================
