---------------------------- MODULE OperatorsProofs ----------------------------
(***************************************************************************)
(* Proofs about Operators, for any replicas, requests, sessions and times.   *)
(***************************************************************************)
EXTENDS Operators, TLAPS

SlotType == [pc : Pcs, call : Call \cup {Nothing},
             at : Replicas \cup {Nothing}, late : BOOLEAN]

\* What a request in progress holds: credentials that were issued, and past the
\* guard a session and the XSRF header where it is asked for.
HeldBy(q) ==
    LET c == slot[q].call
    IN  slot[q].pc # "idle" =>
          /\ c \in Call /\ slot[q].at \in Replicas
          /\ {c.bearer, c.cookie} \cap Sessions \subseteq Issued
          /\ slot[q].pc = "guard" => c.op \in Guarded
          /\ slot[q].pc \in {"denylist", "revoke", "revoke store"} =>
                c.op \in Guarded /\ Presented(c) \in Sessions
          /\ slot[q].pc \in {"revoke", "revoke store"} =>
                c.op = "logout" /\ ~CSRFRefuses(c)
          /\ slot[q].pc \notin {"guard", "denylist", "revoke", "revoke store"} =>
                c.op \notin Guarded

Held == mix \in Mixes /\ \A q \in Slots : HeldBy(q)

\* TypeOK in the parts the steps disturb one by one.
ClockOK == now \in 0 .. MaxNow /\ expiry \in [Sessions -> 0 .. MaxNow + SessionLife]
DenylistOK ==
    /\ denylist \subseteq Issued /\ ended \subseteq denylist
    /\ cache \in [Replicas -> SUBSET Issued]
    /\ dropped \in [Replicas -> SUBSET Issued]
OAuthOK ==
    /\ pending \in [Replicas -> [States -> 0 .. MaxNow + StateLife]]
    /\ minted \subseteq States
    /\ \A x, y \in Replicas, o \in minted :
          pending[x][o] # 0 /\ pending[y][o] # 0 => x = y
    /\ \A y \in Replicas, o \in States \ minted : pending[y][o] = 0
PasswordsOK ==
    /\ failures \in [Replicas -> 0 .. LockAfter]
    /\ lastFail \in [Replicas -> 0 .. MaxNow]
SlotsOK == slot \in [Slots -> SlotType] /\ answer \in Replies

Typed == ClockOK /\ DenylistOK /\ OAuthOK /\ PasswordsOK /\ SlotsOK /\ Held

LEMMA TypedIsTypeOK == Typed => TypeOK
BY DEF Typed, ClockOK, DenylistOK, OAuthOK, PasswordsOK, SlotsOK, SlotType, TypeOK

\* What a step leaves alone stays in order.
LEMMA Frame ==
    ASSUME Typed
    PROVE  /\ UNCHANGED <<now, expiry>> => ClockOK' /\ Issued' = Issued
           /\ UNCHANGED <<revocation, expiry>> => DenylistOK'
           /\ UNCHANGED oauth => OAuthOK'
           /\ UNCHANGED passwords => PasswordsOK'
           /\ UNCHANGED budget => mix' = mix
           /\ slot \in [Slots -> SlotType]
<1>1. UNCHANGED <<now, expiry>> => ClockOK' /\ Issued' = Issued
  BY DEF Typed, ClockOK, Issued
<1>2. UNCHANGED <<revocation, expiry>> => DenylistOK'
  BY DEF Typed, DenylistOK, revocation, Issued
<1>3. UNCHANGED oauth => OAuthOK'
  BY DEF Typed, OAuthOK, oauth
<1>4. UNCHANGED passwords => PasswordsOK'
  BY DEF Typed, PasswordsOK, passwords
<1> QED
  BY <1>1, <1>2, <1>3, <1>4 DEF budget, Typed, SlotsOK

-----------------------------------------------------------------------------

\* A request that goes on, or is answered, stays a request.
LEMMA OnTyped ==
    ASSUME NEW q \in Slots, NEW there \in Pcs,
           slot \in [Slots -> SlotType], On(q, there)
    PROVE  /\ slot' \in [Slots -> SlotType] /\ answer' \in Replies
           /\ slot'[q].pc = there /\ slot'[q].call = slot[q].call
           /\ slot'[q].at = slot[q].at /\ slot'[q].late = slot[q].late
           /\ \A r \in Slots \ {q} : slot'[r] = slot[r]
BY DEF On, SlotType, Replies

LEMMA ReplyTyped ==
    ASSUME NEW q \in Slots, NEW code \in Replies,
           slot \in [Slots -> SlotType], Reply(q, code)
    PROVE  /\ slot' \in [Slots -> SlotType] /\ answer' \in Replies
           /\ slot'[q] = NoSlot /\ slot'[q].pc = "idle" /\ answer' = code
           /\ \A r \in Slots \ {q} : slot'[r] = slot[r]
<1>1. NoSlot \in SlotType
  BY DEF NoSlot, SlotType, Pcs
<1>2. NoSlot.pc = "idle"
  BY DEF NoSlot
<1> QED
  BY <1>1, <1>2 DEF Reply

\* Sessions are issued for good, and a request only leaves its own slot.
LEMMA OthersHold ==
    ASSUME Held, mix' = mix, Issued \subseteq Issued', NEW q \in Slots,
           \A r \in Slots \ {q} : slot'[r] = slot[r], HeldBy(q)'
    PROVE  Held'
<1>1. ASSUME NEW r \in Slots \ {q} PROVE HeldBy(r)'
  <2>1. HeldBy(r) /\ slot'[r] = slot[r]
    BY DEF Held
  <2> QED
    BY <2>1 DEF HeldBy
<1> QED
  BY <1>1 DEF Held


LEMMA Numbers ==
    /\ MaxNow \in Nat /\ Grace \in Nat
    /\ SessionLife \in Nat /\ SessionLife > 0 /\ StateLife \in Nat /\ StateLife > 0
    /\ LockAfter \in Nat /\ LockAfter > 0 /\ LockFor \in Nat /\ LockFor > 0
BY OperatorsAssumption

LEMMA TypedInit == Init => Typed
<1> SUFFICES ASSUME Init PROVE Typed
  OBVIOUS
<1> USE Numbers
<1>1. NoSlot \in SlotType /\ NoSlot.pc = "idle"
  BY DEF NoSlot, SlotType, Pcs
<1>2. SlotsOK
  BY <1>1 DEF Init, SlotsOK, Replies
<1>3. DenylistOK
  BY DEF Init, DenylistOK
<1>4. ClockOK
  <2>1. 0 \in 0 .. MaxNow /\ 0 \in 0 .. MaxNow + SessionLife
    OBVIOUS
  <2> QED
    BY <2>1 DEF Init, ClockOK
<1>5. OAuthOK /\ PasswordsOK
  <2>1. 0 \in 0 .. MaxNow /\ 0 \in 0 .. LockAfter /\ 0 \in 0 .. MaxNow + StateLife
    OBVIOUS
  <2> QED
    BY <2>1 DEF Init, OAuthOK, PasswordsOK
<1>6. Held
  BY <1>1 DEF Init, Held, HeldBy
<1> QED
  BY <1>2, <1>3, <1>4, <1>5, <1>6 DEF Typed

\* A request that comes in.
LEMMA StartTyped ==
    ASSUME Typed, NEW q \in Slots, NEW x \in Replicas, NEW c \in mix, Start(q, x, c)
    PROVE  Typed'
<1>1. c \in Call
  BY OperatorsAssumption DEF Typed, Held
<1>2. c.op \in Ops
  BY <1>1 DEF Call
<1> DEFINE new == [pc |-> IF c.op \in Guarded THEN "guard" ELSE c.op, call |-> c,
                   at |-> x, late |-> Presented(c) \in ended \cup dropped[x]]
<1>3. new \in SlotType
  <2>1. new.pc \in Pcs
    BY <1>2 DEF Pcs, Ops, Guarded
  <2>2. new.late \in BOOLEAN
    OBVIOUS
  <2> QED
    BY <1>1, <2>1, <2>2 DEF SlotType
<1>4. slot' = [slot EXCEPT ![q] = new] /\ answer' = ""
  BY DEF Start
<1>5. slot' \in [Slots -> SlotType] /\ answer' \in Replies
  BY <1>3, <1>4, Frame DEF Replies
<1>6. Issued' = Issued /\ ClockOK' /\ DenylistOK' /\ OAuthOK' /\ PasswordsOK' /\ mix' = mix
  BY Frame DEF Start
<1>9. slot'[q] = new /\ \A r \in Slots \ {q} : slot'[r] = slot[r]
  BY <1>4, Frame
<1>10. HeldBy(q)'
  <2>1. slot'[q].call = c /\ slot'[q].at = x
    BY <1>9
  <2>2. slot'[q].pc = IF c.op \in Guarded THEN "guard" ELSE c.op
    BY <1>9
  <2>3. c.op \notin Guarded => c.op \in {"login", "github", "callback"}
    BY <1>2 DEF Ops
  <2>4. slot'[q].pc \in {"guard", "login", "github", "callback"}
    BY <2>2, <2>3
  <2>5. {c.bearer, c.cookie} \cap Sessions \subseteq Issued'
    BY <1>6 DEF Start
  <2> QED
    BY <1>1, <2>1, <2>2, <2>3, <2>4, <2>5 DEF HeldBy, Guarded
<1> QED
  BY <1>5, <1>6, <1>9, <1>10, OthersHold DEF Typed, SlotsOK

\* A step of a request, once the rest of the state is in order.
Rest == /\ mix' = mix /\ Issued \subseteq Issued'
        /\ ClockOK' /\ DenylistOK' /\ OAuthOK' /\ PasswordsOK'

LEMMA GoesOn ==
    ASSUME Typed, NEW q \in Slots, NEW there \in Pcs, On(q, there), Rest, HeldBy(q)'
    PROVE  Typed'
BY Frame, OnTyped, OthersHold DEF Typed, SlotsOK, Rest

LEMMA IsAnswered ==
    ASSUME Typed, NEW q \in Slots, NEW code \in Replies, Reply(q, code), Rest
    PROVE  Typed'
<1>1. /\ slot' \in [Slots -> SlotType] /\ answer' \in Replies
      /\ slot'[q].pc = "idle" /\ \A r \in Slots \ {q} : slot'[r] = slot[r]
  BY Frame, ReplyTyped
<1>2. HeldBy(q)'
  BY <1>1 DEF HeldBy
<1> QED
  BY <1>1, <1>2, OthersHold DEF Typed, SlotsOK, Rest

\* Admit, past the guard with a session.
LEMMA AdmitTyped ==
    ASSUME Typed, NEW q \in Slots, Admit(q), Rest, slot[q].pc \in {"guard", "denylist"},
           slot[q].call.op \in Guarded, Presented(slot[q].call) \in Sessions
    PROVE  Typed'
<1>1. CASE Reply(q, "csrf") \/ Reply(q, "accepted")
  BY <1>1, IsAnswered DEF Replies
<1>2. CASE /\ ~CSRFRefuses(slot[q].call) /\ slot[q].call.op = "logout"
           /\ On(q, "revoke")
  <2>1. /\ slot'[q].pc = "revoke" /\ slot'[q].call = slot[q].call
        /\ slot'[q].at = slot[q].at /\ "revoke" \in Pcs
    BY <1>2, OnTyped, Frame DEF Pcs
  <2>2. HeldBy(q)'
    <3>1. HeldBy(q)
      BY DEF Typed, Held
    <3> QED
      BY <1>2, <2>1, <3>1 DEF HeldBy, Rest
  <2> QED
    BY <1>2, <2>1, <2>2, GoesOn
<1> QED
  BY <1>1, <1>2 DEF Admit

LEMMA GuardTyped ==
    ASSUME Typed, NEW q \in Slots, Guard(q)
    PROVE  Typed'
<1>1. Rest
  BY Frame DEF Guard, Rest
<1>2. HeldBy(q) /\ slot[q].pc = "guard" /\ slot[q].call.op \in Guarded
  BY DEF Guard, Typed, Held, HeldBy
<1>3. CASE Reply(q, "unauthorized")
  BY <1>1, <1>3, IsAnswered DEF Replies
<1>4. CASE Reply(q, CIVerdict(slot[q].call))
  <2>1. CIVerdict(slot[q].call) \in Replies
    BY <1>2 DEF CIVerdict, Guarded, Replies
  <2> QED
    BY <1>1, <1>4, <2>1, IsAnswered
<1>5. CASE Admit(q) /\ Presented(slot[q].call) \in Sessions
  BY <1>1, <1>2, <1>5, AdmitTyped
<1>6. CASE On(q, "denylist") /\ Presented(slot[q].call) \in Sessions
  <2>1. /\ slot'[q].pc = "denylist" /\ slot'[q].call = slot[q].call
        /\ slot'[q].at = slot[q].at /\ "denylist" \in Pcs
    BY <1>6, OnTyped, Frame DEF Pcs
  <2>2. HeldBy(q)'
    BY <1>1, <1>2, <1>6, <2>1 DEF HeldBy, Rest
  <2> QED
    BY <1>1, <1>6, <2>1, <2>2, GoesOn
<1> QED
  BY <1>3, <1>4, <1>5, <1>6 DEF Guard

LEMMA CacheGrows ==
    ASSUME NEW S, NEW f \in [Replicas -> SUBSET S], NEW x \in Replicas, NEW s \in S
    PROVE  [f EXCEPT ![x] = @ \cup {s}] \in [Replicas -> SUBSET S]
OBVIOUS

LEMMA ReadDenylistTyped ==
    ASSUME Typed, NEW q \in Slots, ReadDenylist(q)
    PROVE  Typed'
<1> DEFINE s == Presented(slot[q].call)
<1>1. /\ HeldBy(q) /\ slot[q].pc = "denylist" /\ slot[q].call.op \in Guarded
      /\ s \in Sessions /\ slot[q].at \in Replicas
  BY DEF ReadDenylist, Typed, Held, HeldBy
<1>2. UNCHANGED <<now, expiry, oauth, passwords, budget, denylist, ended, dropped>>
  BY DEF ReadDenylist
<1>3. \/ cache' = cache
      \/ s \in denylist /\ cache' = [cache EXCEPT ![slot[q].at] = @ \cup {s}]
  BY DEF ReadDenylist
<1>4. DenylistOK'
  <2>1. Issued' = Issued
    BY <1>2, Frame
  <2>2. cache' \in [Replicas -> SUBSET Issued]
    BY <1>1, <1>3, CacheGrows DEF Typed, DenylistOK
  <2> QED
    BY <1>2, <2>1, <2>2 DEF Typed, DenylistOK
<1>5. Rest
  BY <1>2, <1>4, Frame DEF Rest
<1>6. CASE Reply(q, "unauthorized")
  BY <1>5, <1>6, IsAnswered DEF Replies
<1>7. CASE Admit(q)
  BY <1>1, <1>5, <1>7, AdmitTyped
<1> QED
  BY <1>6, <1>7 DEF ReadDenylist

LEMMA RevokeHereTyped ==
    ASSUME Typed, NEW q \in Slots, RevokeHere(q)
    PROVE  Typed'
<1> DEFINE s == Presented(slot[q].call)
<1>1. /\ HeldBy(q) /\ slot[q].pc = "revoke" /\ s \in Sessions /\ slot[q].at \in Replicas
      /\ slot[q].call \in Call
  BY DEF RevokeHere, Typed, Held, HeldBy
<1>2. UNCHANGED <<now, expiry, oauth, passwords, budget, denylist, ended>>
  BY DEF RevokeHere
<1>3. s \in Issued
  BY <1>1 DEF HeldBy, Presented
<1>4. DenylistOK'
  <2>1. Issued' = Issued
    BY <1>2, Frame
  <2>2. cache' \in [Replicas -> SUBSET Issued] /\ dropped' \in [Replicas -> SUBSET Issued]
    BY <1>1, <1>3, CacheGrows DEF RevokeHere, Typed, DenylistOK
  <2> QED
    BY <1>2, <2>1, <2>2 DEF Typed, DenylistOK
<1>5. Rest
  BY <1>2, <1>4, Frame DEF Rest
<1>6. On(q, "revoke store") /\ "revoke store" \in Pcs
  BY DEF RevokeHere, Pcs
<1>7. /\ slot'[q].pc = "revoke store" /\ slot'[q].call = slot[q].call
      /\ slot'[q].at = slot[q].at
  BY <1>6, OnTyped, Frame
<1>8. HeldBy(q)'
  BY <1>1, <1>5, <1>7 DEF HeldBy, Rest
<1> QED
  BY <1>5, <1>6, <1>8, GoesOn

LEMMA RevokeInStoreTyped ==
    ASSUME Typed, NEW q \in Slots, RevokeInStore(q)
    PROVE  Typed'
<1> DEFINE s == Presented(slot[q].call)
<1>1. HeldBy(q) /\ s \in Sessions /\ slot[q].call \in Call /\ slot[q].pc = "revoke store"
  BY DEF RevokeInStore, Typed, Held, HeldBy
<1>2. s \in Issued
  BY <1>1 DEF HeldBy, Presented
<1>3. UNCHANGED <<now, expiry, oauth, passwords, budget, cache, dropped>>
  BY DEF RevokeInStore
<1>4. DenylistOK'
  BY <1>2, <1>3 DEF RevokeInStore, Typed, DenylistOK, Issued
<1>5. Rest
  BY <1>3, <1>4, Frame DEF Rest
<1> QED
  BY <1>5, IsAnswered DEF RevokeInStore, Replies

LEMMA IssueTyped ==
    ASSUME Typed, NEW q \in Slots, Issue(q)
    PROVE  Typed'
<1>1. PICK s \in Sessions \ Issued : expiry' = [expiry EXCEPT ![s] = now + SessionLife]
  BY DEF Issue
<1>2. now + SessionLife \in 1 .. MaxNow + SessionLife
  BY Numbers DEF Typed, ClockOK
<1>3. ClockOK'
  BY <1>1, <1>2, Numbers DEF Issue, Typed, ClockOK
<1>4. Issued \subseteq Issued'
  BY <1>1, <1>2 DEF Issued, Typed, ClockOK
<1>5. DenylistOK'
  BY <1>4 DEF Issue, Typed, DenylistOK, revocation
<1>6. Rest
  BY <1>3, <1>4, <1>5, Frame DEF Issue, Rest
<1> QED
  BY <1>6, IsAnswered DEF Issue, Replies

LEMMA LoginTyped ==
    ASSUME Typed, NEW q \in Slots, Login(q)
    PROVE  Typed'
<1> DEFINE x == slot[q].at
           count == IF failures[x] >= LockAfter THEN 0 ELSE failures[x]
<1>1. HeldBy(q) /\ x \in Replicas /\ slot[q].pc = "login"
  BY DEF Login, Typed, Held, HeldBy
<1>2. failures[x] \in 0 .. LockAfter /\ count + 1 \in 0 .. LockAfter /\ 0 \in 0 .. LockAfter
  BY <1>1, Numbers DEF Typed, PasswordsOK
<1>3. PasswordsOK'
  <2>1. CASE UNCHANGED passwords
    BY <2>1, Frame
  <2>2. CASE failures' = [failures EXCEPT ![x] = 0] /\ UNCHANGED lastFail
    BY <1>2, <2>2 DEF Typed, PasswordsOK
  <2>3. CASE /\ failures' = [failures EXCEPT ![x] = count + 1]
             /\ lastFail' = [lastFail EXCEPT ![x] = now]
    <3> HIDE DEF count
    <3> QED
      BY <1>2, <2>3 DEF Typed, PasswordsOK, ClockOK
  <2> QED
    BY <2>1, <2>2, <2>3 DEF Login
<1>4. Rest
  BY <1>3, Frame DEF Login, Rest
<1>5. CASE Reply(q, "tooMany") \/ Reply(q, "unauthorized")
  BY <1>4, <1>5, IsAnswered DEF Replies
<1>6. CASE On(q, "issue")
  <2>1. /\ slot'[q].pc = "issue" /\ slot'[q].call = slot[q].call
        /\ slot'[q].at = slot[q].at /\ "issue" \in Pcs
    BY <1>6, OnTyped, Frame DEF Pcs
  <2>2. HeldBy(q)'
    BY <1>1, <1>4, <2>1 DEF HeldBy, Rest
  <2> QED
    BY <1>4, <1>6, <2>1, <2>2, GoesOn
<1> QED
  BY <1>5, <1>6 DEF Login

LEMMA GitHubLoginTyped ==
    ASSUME Typed, NEW q \in Slots, GitHubLogin(q)
    PROVE  Typed'
<1> DEFINE x == slot[q].at
<1>1. x \in Replicas
  BY DEF GitHubLogin, Typed, Held, HeldBy
<1>2. PICK o \in States \ minted : /\ minted' = minted \cup {o}
                                   /\ pending' = [pending EXCEPT ![x][o] = now + StateLife]
  BY DEF GitHubLogin
<1>3. now + StateLife \in 0 .. MaxNow + StateLife
  BY Numbers DEF Typed, ClockOK
<1>4. pending' \in [Replicas -> [States -> 0 .. MaxNow + StateLife]]
  BY <1>1, <1>2, <1>3 DEF Typed, OAuthOK
<1>5. \A y \in Replicas, n \in States :
         pending'[y][n] = IF y = x /\ n = o THEN now + StateLife ELSE pending[y][n]
  BY <1>1, <1>2 DEF Typed, OAuthOK
<1>6. \A y, z \in Replicas, n \in minted' :
         pending'[y][n] # 0 /\ pending'[z][n] # 0 => y = z
  <2> SUFFICES ASSUME NEW y \in Replicas, NEW z \in Replicas, NEW n \in minted',
                      pending'[y][n] # 0, pending'[z][n] # 0
               PROVE  y = z
    OBVIOUS
  <2>1. CASE n = o
    BY <1>2, <1>5, <2>1 DEF Typed, OAuthOK
  <2>2. CASE n # o
    BY <1>2, <1>5, <2>2 DEF Typed, OAuthOK
  <2> QED
    BY <2>1, <2>2
<1>7. OAuthOK'
  BY <1>2, <1>4, <1>5, <1>6 DEF Typed, OAuthOK
<1>8. Rest
  BY <1>7, Frame DEF GitHubLogin, Rest
<1> QED
  BY <1>8, IsAnswered DEF GitHubLogin, Replies

\* A request that goes on in the sign-in.
LEMMA SignInGoesOn ==
    ASSUME Typed, NEW q \in Slots, Rest, On(q, "exchange") \/ On(q, "member")
              \/ On(q, "team") \/ On(q, "issue"),
           slot[q].pc \in {"callback", "exchange", "member", "team"}
    PROVE  Typed'
<1>1. PICK there \in {"exchange", "member", "team", "issue"} : On(q, there)
  OBVIOUS
<1>2. there \in Pcs
  BY DEF Pcs
<1>3. /\ slot'[q].pc = there /\ slot'[q].call = slot[q].call
      /\ slot'[q].at = slot[q].at
  BY <1>1, <1>2, OnTyped, Frame
<1>4. HeldBy(q)
  BY DEF Typed, Held
<1>5. HeldBy(q)'
  BY <1>3, <1>4 DEF HeldBy, Rest
<1> QED
  BY <1>1, <1>2, <1>5, GoesOn

LEMMA ConsumeTyped ==
    ASSUME Typed, NEW q \in Slots, Consume(q)
    PROVE  Typed'
<1> DEFINE x == slot[q].at
           o == slot[q].call.state
<1>1. slot[q].pc = "callback" /\ x \in Replicas /\ slot[q].call \in Call
  BY DEF Consume, Typed, Held, HeldBy
<1>2. o \in States
  BY <1>1 DEF Call
<1>3. OAuthOK'
  <2>1. CASE UNCHANGED <<pending, minted>>
    BY <2>1 DEF Typed, OAuthOK
  <2>2. CASE pending' = [pending EXCEPT ![x][o] = 0] /\ minted' = minted
    <3>1. \A y \in Replicas, n \in States :
             pending'[y][n] = IF y = x /\ n = o THEN 0 ELSE pending[y][n]
      BY <1>1, <1>2, <2>2 DEF Typed, OAuthOK
    <3>2. 0 \in 0 .. MaxNow + StateLife
      BY Numbers
    <3>3. pending' \in [Replicas -> [States -> 0 .. MaxNow + StateLife]]
      BY <1>1, <1>2, <2>2, <3>2 DEF Typed, OAuthOK
    <3> QED
      BY <2>2, <3>1, <3>3 DEF Typed, OAuthOK
  <2> QED
    BY <2>1, <2>2 DEF Consume
<1>4. Rest
  BY <1>3, Frame DEF Consume, Rest
<1>5. CASE Reply(q, "unauthorized")
  BY <1>4, <1>5, IsAnswered DEF Replies
<1>6. CASE On(q, "exchange")
  BY <1>1, <1>4, <1>6, SignInGoesOn
<1> QED
  BY <1>5, <1>6 DEF Consume

LEMMA AskGitHubTyped ==
    ASSUME Typed, NEW q \in Slots, AskGitHub(q)
    PROVE  Typed'
<1>1. Rest /\ slot[q].pc \in {"callback", "exchange", "member", "team"}
  BY Frame DEF AskGitHub, Rest
<1>2. CASE Reply(q, "unauthorized") \/ Reply(q, "forbidden")
  BY <1>1, <1>2, IsAnswered DEF Replies
<1>3. CASE On(q, "member") \/ On(q, "team") \/ On(q, "issue")
  BY <1>1, <1>3, SignInGoesOn
<1> QED
  BY <1>2, <1>3 DEF AskGitHub

LEMMA StoreFailsTyped ==
    ASSUME Typed, NEW q \in Slots, StoreFails(q)
    PROVE  Typed'
<1>1. Rest
  BY Frame DEF StoreFails, Rest
<1> QED
  BY <1>1, IsAnswered DEF StoreFails, Replies

LEMMA RestartTyped ==
    ASSUME Typed, NEW x \in Replicas, Restart(x)
    PROVE  Typed'
<1>1. UNCHANGED <<now, expiry>> /\ Issued' = Issued /\ ClockOK'
  BY Frame DEF Restart
<1>2. DenylistOK'
  BY <1>1 DEF Restart, Typed, DenylistOK
<1>3. OAuthOK'
  <2>1. 0 \in 0 .. MaxNow + StateLife
    BY Numbers
  <2>2. pending' = [pending EXCEPT ![x] = [o \in States |-> 0]] /\ minted' = minted
    BY DEF Restart
  <2>3. pending' \in [Replicas -> [States -> 0 .. MaxNow + StateLife]]
    BY <2>1, <2>2 DEF Typed, OAuthOK
  <2>4. \A y \in Replicas, n \in States :
           pending'[y][n] = IF y = x THEN 0 ELSE pending[y][n]
    BY <2>2 DEF Typed, OAuthOK
  <2> QED
    BY <2>2, <2>3, <2>4 DEF Typed, OAuthOK
<1>4. PasswordsOK'
  <2>1. 0 \in 0 .. LockAfter /\ 0 \in 0 .. MaxNow
    BY Numbers
  <2> QED
    BY <2>1 DEF Restart, Typed, PasswordsOK
<1>5. NoSlot \in SlotType /\ NoSlot.pc = "idle"
  BY DEF NoSlot, SlotType, Pcs
<1>6. SlotsOK'
  BY <1>5 DEF Restart, Typed, SlotsOK, Replies
<1>7. Held'
  <2>1. mix' = mix /\ mix \in Mixes
    BY DEF Restart, Typed, Held
  <2>2. ASSUME NEW r \in Slots PROVE HeldBy(r)'
    <3>1. HeldBy(r)
      BY DEF Typed, Held
    <3>2. slot'[r] = slot[r] \/ slot'[r] = NoSlot
      BY DEF Restart
    <3> QED
      BY <1>1, <1>5, <3>1, <3>2 DEF HeldBy
  <2> QED
    BY <2>1, <2>2 DEF Held
<1> QED
  BY <1>1, <1>2, <1>3, <1>4, <1>6, <1>7 DEF Typed

LEMMA TickTyped ==
    ASSUME Typed, Tick
    PROVE  Typed'
<1>1. UNCHANGED <<expiry, slot, revocation, oauth, passwords, budget>>
  BY DEF Tick
<1>2. ClockOK'
  <2>1. now \in 0 .. MaxNow /\ now < MaxNow /\ now' = now + 1
    BY DEF Tick, Typed, ClockOK
  <2>2. now' \in 0 .. MaxNow
    BY <2>1, Numbers
  <2> QED
    BY <1>1, <2>2 DEF Typed, ClockOK
<1>3. Issued' = Issued
  BY <1>1 DEF Issued
<1>4. DenylistOK' /\ OAuthOK' /\ PasswordsOK' /\ mix' = mix
  BY <1>1, Frame
<1>5. SlotsOK'
  BY <1>1 DEF Tick, Typed, SlotsOK, Replies
<1>6. Held'
  BY <1>1, <1>3, <1>4 DEF Typed, Held, HeldBy
<1> QED
  BY <1>2, <1>4, <1>5, <1>6 DEF Typed

LEMMA TypedNext == Typed /\ [Next]_vars => Typed'
<1> SUFFICES ASSUME Typed, [Next]_vars PROVE Typed'
  OBVIOUS
<1>1. CASE UNCHANGED vars
  <2>1. UNCHANGED <<now, expiry, revocation, oauth, passwords, budget, slot, answer>>
    BY <1>1 DEF vars, revocation, oauth, passwords, budget
  <2> QED
    BY <2>1, Frame DEF Typed, SlotsOK, Held, HeldBy
<1>2. ASSUME NEW q \in Slots, NEW x \in Replicas, NEW c \in mix, Start(q, x, c)
      PROVE  Typed'
  BY <1>2, StartTyped
<1>3. ASSUME NEW q \in Slots, Step(q) PROVE Typed'
  BY <1>3, GuardTyped, ReadDenylistTyped, RevokeHereTyped, RevokeInStoreTyped,
     IssueTyped, LoginTyped, GitHubLoginTyped, ConsumeTyped, AskGitHubTyped DEF Step
<1>4. ASSUME NEW q \in Slots, StoreFails(q) PROVE Typed'
  BY <1>4, StoreFailsTyped
<1>5. ASSUME NEW x \in Replicas, Restart(x) PROVE Typed'
  BY <1>5, RestartTyped
<1>6. CASE Tick
  BY <1>6, TickTyped
<1> QED
  BY <1>1, <1>2, <1>3, <1>4, <1>5, <1>6 DEF Next

LEMMA AlwaysTyped == Spec => []Typed
<1>1. Init => Typed
  BY TypedInit
<1>2. Typed /\ [Next]_vars => Typed'
  BY TypedNext
<1> QED
  BY <1>1, <1>2, PTL DEF Spec

\* TypeOK: whatever a replica, a restart or a failed store call leaves behind is
\* of its type; no failure is counted past the threshold of the lockout, and a
\* state that was issued is pending on one replica at most.
THEOREM TypeCorrect == Spec => []TypeOK
<1>1. Typed => TypeOK
  BY TypedIsTypeOK
<1> QED
  BY <1>1, AlwaysTyped, PTL

-----------------------------------------------------------------------------
(* Logouts. *)

\* A logout is first known to the replica that served it, then to the store;
\* what was logged out when a request came in is past the cache only if the
\* store knows it.
LogoutsKept ==
    /\ ended \subseteq denylist
    /\ \A x \in Replicas : dropped[x] \subseteq cache[x]
    /\ \A q \in Slots : slot[q].pc # "idle" /\ slot[q].late =>
          /\ Presented(slot[q].call) \in denylist \cup cache[slot[q].at]
          /\ slot[q].pc = "denylist" => Presented(slot[q].call) \in denylist
          /\ slot[q].pc \notin {"revoke", "revoke store"}

LEMMA LogoutsKeptInit == Init => LogoutsKept
<1>1. NoSlot.pc = "idle"
  BY DEF NoSlot
<1> QED
  BY <1>1 DEF Init, LogoutsKept

\* What the requests knew of logouts stays right when the denylist and the
\* caches grow, and no request is at a step of the denylist or of a logout.
LEMMA LateGrows ==
    ASSUME Typed, LogoutsKept, NEW q \in Slots,
           \A r \in Slots \ {q} : slot'[r] = slot[r],
           denylist \subseteq denylist', \A x \in Replicas : cache[x] \subseteq cache'[x],
           ended' \subseteq denylist', \A x \in Replicas : dropped'[x] \subseteq cache'[x],
           \/ slot'[q].pc = "idle"
           \/ slot'[q].late =>
                /\ Presented(slot'[q].call) \in denylist' \cup cache'[slot'[q].at]
                /\ slot'[q].pc = "denylist" => Presented(slot'[q].call) \in denylist'
                /\ slot'[q].pc \notin {"revoke", "revoke store"}
    PROVE  LogoutsKept'
<1>1. ASSUME NEW r \in Slots \ {q}, slot'[r].pc # "idle", slot'[r].late
      PROVE  /\ Presented(slot'[r].call) \in denylist' \cup cache'[slot'[r].at]
             /\ slot'[r].pc = "denylist" => Presented(slot'[r].call) \in denylist'
             /\ slot'[r].pc \notin {"revoke", "revoke store"}
  <2>1. slot'[r] = slot[r] /\ slot[r].at \in Replicas
    BY <1>1 DEF Typed, Held, HeldBy
  <2> QED
    BY <1>1, <2>1 DEF LogoutsKept
<1> QED
  BY <1>1 DEF LogoutsKept

LEMMA LogoutsKeptNext == Typed /\ LogoutsKept /\ [Next]_vars => LogoutsKept'
<1> SUFFICES ASSUME Typed, LogoutsKept, [Next]_vars PROVE LogoutsKept'
  OBVIOUS
<1>a. slot \in [Slots -> SlotType]
  BY Frame
<1>b. /\ ended \subseteq denylist /\ \A x \in Replicas : dropped[x] \subseteq cache[x]
      /\ cache \in [Replicas -> SUBSET Issued] /\ dropped \in [Replicas -> SUBSET Issued]
  BY DEF LogoutsKept, Typed, DenylistOK
<1>1. CASE UNCHANGED vars
  BY <1>1 DEF vars, LogoutsKept
<1>2. ASSUME NEW q \in Slots, NEW x \in Replicas, NEW c \in mix, Start(q, x, c)
      PROVE  LogoutsKept'
  <2>1. c \in Call /\ c.op \in Ops
    BY OperatorsAssumption DEF Typed, Held, Call
  <2>2. \A r \in Slots \ {q} : slot'[r] = slot[r]
    BY <1>2, <1>a DEF Start
  <2>3. /\ slot'[q].call = c /\ slot'[q].at = x
        /\ slot'[q].late = (Presented(c) \in ended \cup dropped[x])
        /\ slot'[q].pc = IF c.op \in Guarded THEN "guard" ELSE c.op
    BY <1>2, <1>a DEF Start
  <2>4. slot'[q].pc \notin {"denylist", "revoke", "revoke store"}
    BY <2>1, <2>3 DEF Ops
  <2>5. UNCHANGED <<denylist, cache, ended, dropped>>
    BY <1>2 DEF Start, revocation
  <2> QED
    BY <1>b, <2>2, <2>3, <2>4, <2>5, LateGrows
<1>3. ASSUME NEW q \in Slots, Step(q) \/ StoreFails(q) PROVE LogoutsKept'
  <2>a. HeldBy(q)
    BY DEF Typed, Held
  <2> DEFINE s == Presented(slot[q].call)
             x == slot[q].at
  <2>1. CASE Guard(q)
    <3>1. UNCHANGED <<denylist, cache, ended, dropped>> /\ slot[q].pc = "guard" /\ x \in Replicas
      BY <2>1, <2>a DEF Guard, revocation, HeldBy
    <3>2. CASE \E code \in Replies : Reply(q, code)
      BY <1>a, <1>b, <3>1, <3>2, ReplyTyped, LateGrows
    <3>3. CASE On(q, "denylist") /\ s \notin cache[x]
      <4>1. "denylist" \in Pcs
        BY DEF Pcs
      <4>2. /\ slot'[q].pc = "denylist" /\ slot'[q].call = slot[q].call
            /\ slot'[q].at = slot[q].at /\ slot'[q].late = slot[q].late
            /\ \A r \in Slots \ {q} : slot'[r] = slot[r]
        BY <1>a, <3>3, <4>1, OnTyped
      <4>3. slot[q].late => s \in denylist
        BY <3>1, <3>3 DEF LogoutsKept
      <4> QED
        BY <1>b, <3>1, <4>2, <4>3, LateGrows
    <3>4. CASE now < expiry[s] /\ s \in Sessions /\ ~Counts(s)
      BY <3>4, Numbers DEF Counts, Typed, ClockOK
    <3>5. CIVerdict(slot[q].call) \in Replies
      BY <2>1, <2>a DEF Guard, HeldBy, CIVerdict, Guarded, Replies
    <3>6. now \in Nat /\ (s \in Sessions => expiry[s] \in Nat)
      BY DEF Typed, ClockOK
    <3>7. "unauthorized" \in Replies
      BY DEF Replies
    <3> QED
      BY <2>1, <3>2, <3>3, <3>4, <3>5, <3>6, <3>7 DEF Guard
  <2>2. CASE ReadDenylist(q)
    <3>1. UNCHANGED <<denylist, ended, dropped>> /\ slot[q].pc = "denylist" /\ x \in Replicas
      BY <2>2, <2>a DEF ReadDenylist, revocation, HeldBy
    <3>2. \A y \in Replicas : cache[y] \subseteq cache'[y] 
      BY <1>b, <2>2 DEF ReadDenylist
    <3>3. \A y \in Replicas : dropped'[y] \subseteq cache'[y]
      BY <1>b, <3>1, <3>2
    <3>4. CASE \E code \in Replies : Reply(q, code)
      BY <1>a, <1>b, <3>1, <3>2, <3>3, <3>4, ReplyTyped, LateGrows
    <3>5. CASE s \notin denylist /\ On(q, "revoke")
      <4>1. "revoke" \in Pcs
        BY DEF Pcs
      <4>2. /\ slot'[q].pc = "revoke" /\ slot'[q].call = slot[q].call
            /\ slot'[q].at = slot[q].at /\ slot'[q].late = slot[q].late
            /\ \A r \in Slots \ {q} : slot'[r] = slot[r]
        BY <1>a, <3>5, <4>1, OnTyped
      <4>3. ~slot[q].late
        BY <3>1, <3>5 DEF LogoutsKept
      <4> QED
        BY <1>b, <3>1, <3>2, <3>3, <4>2, <4>3, LateGrows
    <3>6. {"unauthorized", "csrf", "accepted"} \subseteq Replies
      BY DEF Replies
    <3> QED
      BY <2>2, <3>4, <3>5, <3>6 DEF ReadDenylist, Admit
  <2>3. CASE RevokeHere(q)
    <3>1. UNCHANGED <<denylist, ended>> /\ slot[q].pc = "revoke" /\ x \in Replicas
      BY <2>3, <2>a DEF RevokeHere, HeldBy
    <3>2. \A y \in Replicas : /\ cache[y] \subseteq cache'[y]
                              /\ dropped'[y] \subseteq cache'[y]
      BY <1>b, <2>3 DEF RevokeHere
    <3>3. On(q, "revoke store") /\ "revoke store" \in Pcs
      BY <2>3 DEF RevokeHere, Pcs
    <3>4. /\ slot'[q].pc = "revoke store" /\ slot'[q].late = slot[q].late
          /\ \A r \in Slots \ {q} : slot'[r] = slot[r]
      BY <1>a, <3>3, OnTyped
    <3>5. ~slot[q].late
      BY <3>1 DEF LogoutsKept
    <3> QED
      BY <1>b, <3>1, <3>2, <3>4, <3>5, LateGrows
  <2>4. CASE RevokeInStore(q)
    <3>1. UNCHANGED <<cache, dropped>> /\ ended' \subseteq denylist' /\ denylist \subseteq denylist'
      BY <1>b, <2>4 DEF RevokeInStore
    <3>2. Reply(q, "accepted") /\ "accepted" \in Replies
      BY <2>4 DEF RevokeInStore, Replies
    <3> QED
      BY <1>a, <1>b, <3>1, <3>2, ReplyTyped, LateGrows
  <2>5. CASE Issue(q) \/ Login(q) \/ GitHubLogin(q) \/ Consume(q) \/ AskGitHub(q) \/ StoreFails(q)
    <3>1. UNCHANGED <<denylist, cache, ended, dropped>>
      BY <2>5 DEF Issue, Login, GitHubLogin, Consume, AskGitHub, StoreFails, revocation
    <3>2. CASE \E code \in Replies : Reply(q, code)
      BY <1>a, <1>b, <3>1, <3>2, ReplyTyped, LateGrows
    <3>3. CASE \E there \in {"issue", "exchange", "member", "team"} : On(q, there)
      <4>1. PICK there \in {"issue", "exchange", "member", "team"} : On(q, there)
        BY <3>3
      <4>2. there \in Pcs
        BY DEF Pcs
      <4>3. /\ slot'[q].pc = there /\ slot'[q].call = slot[q].call
            /\ slot'[q].at = slot[q].at /\ slot'[q].late = slot[q].late
            /\ \A r \in Slots \ {q} : slot'[r] = slot[r]
        BY <1>a, <4>1, <4>2, OnTyped
      <4>4. slot[q].pc # "idle"
        BY <2>5, <3>3 DEF Issue, Login, GitHubLogin, Consume, AskGitHub, StoreFails
      <4>5. x \in Replicas
        BY <2>a, <4>4 DEF HeldBy
      <4> QED
        BY <1>b, <3>1, <4>3, <4>4, <4>5, LateGrows DEF LogoutsKept
    <3>4. {"session", "tooMany", "unauthorized", "redirect", "forbidden", "accepted"} \subseteq Replies
      BY DEF Replies
    <3> QED
      BY <2>5, <3>2, <3>3, <3>4 DEF Issue, Login, GitHubLogin, Consume, AskGitHub, StoreFails
  <2> QED
    BY <1>3, <2>1, <2>2, <2>3, <2>4, <2>5 DEF Step
<1>4. ASSUME NEW x \in Replicas, Restart(x) PROVE LogoutsKept'
  <2>1. NoSlot.pc = "idle"
    BY DEF NoSlot
  <2>2. UNCHANGED <<denylist, ended>>
    BY <1>4 DEF Restart
  <2>3. \A y \in Replicas : dropped'[y] \subseteq cache'[y]
    BY <1>4, <1>b DEF Restart
  <2>4. ASSUME NEW r \in Slots, slot'[r].pc # "idle", slot'[r].late
        PROVE  /\ Presented(slot'[r].call) \in denylist' \cup cache'[slot'[r].at]
               /\ slot'[r].pc = "denylist" => Presented(slot'[r].call) \in denylist'
               /\ slot'[r].pc \notin {"revoke", "revoke store"}
    <3>1. slot'[r] = slot[r] /\ slot[r].at # x
      BY <1>4, <2>1, <2>4 DEF Restart
    <3>2. slot[r].at \in Replicas
      BY <2>4, <3>1 DEF Typed, Held, HeldBy
    <3>3. cache'[slot[r].at] = cache[slot[r].at]
      BY <1>4, <1>b, <3>1, <3>2 DEF Restart
    <3> QED
      BY <2>2, <2>4, <3>1, <3>3 DEF LogoutsKept
  <2> QED
    BY <1>b, <2>2, <2>3, <2>4 DEF LogoutsKept
<1>5. CASE Tick
  BY <1>5 DEF Tick, LogoutsKept, revocation
<1> QED
  BY <1>1, <1>2, <1>3, <1>4, <1>5 DEF Next

\* A step of a request moves that request and no other.
LEMMA StepMoves ==
    ASSUME Typed, NEW q \in Slots, Step(q) \/ StoreFails(q)
    PROVE  (\E there \in Pcs : On(q, there)) \/ (\E code \in Replies : Reply(q, code))
<1>1. HeldBy(q)
  BY DEF Typed, Held
<1>2. ASSUME Admit(q)
      PROVE  (\E there \in Pcs : On(q, there)) \/ (\E code \in Replies : Reply(q, code))
  BY <1>2 DEF Admit, Pcs, Replies
<1>3. CASE Guard(q)
  <2>1. CIVerdict(slot[q].call) \in Replies
    BY <1>1, <1>3 DEF Guard, HeldBy, CIVerdict, Guarded, Replies
  <2>2. "unauthorized" \in Replies /\ "denylist" \in Pcs
    BY DEF Replies, Pcs
  <2> QED
    BY <1>2, <1>3, <2>1, <2>2 DEF Guard
<1>4. CASE ReadDenylist(q)
  BY <1>2, <1>4 DEF ReadDenylist, Replies
<1>5. CASE \/ RevokeHere(q) \/ RevokeInStore(q) \/ Issue(q) \/ Login(q) \/ GitHubLogin(q)
           \/ Consume(q) \/ AskGitHub(q) \/ StoreFails(q)
  BY <1>5 DEF RevokeHere, RevokeInStore, Issue, Login, GitHubLogin, Consume, AskGitHub,
     StoreFails, Pcs, Replies
<1> QED
  BY <1>3, <1>4, <1>5 DEF Step

\* An answer to a request is given by a step of that request.
LEMMA AnsweredBySelf ==
    ASSUME Typed, Next, NEW q \in Slots, NEW code, code # "", Answers(q, code)
    PROVE  Step(q) \/ StoreFails(q)
<1>1. slot[q].pc # "idle" /\ slot'[q] = NoSlot /\ answer' = code
  BY DEF Answers
<1>2. slot'[q] # slot[q]
  <2>1. NoSlot.pc = "idle"
    BY DEF NoSlot
  <2> QED
    BY <1>1, <2>1
<1>3. answer' # ""
  BY <1>1
<1>4. PICK r \in Slots : Step(r) \/ StoreFails(r)
  BY <1>3 DEF Next, Start, Restart, Tick
<1>5. r = q
  <2>1. SUFFICES ASSUME r # q PROVE slot'[q] = slot[q]
    BY <1>2
  <2> QED
    BY <1>4, <2>1, Frame, StepMoves, OnTyped, ReplyTyped
<1> QED
  BY <1>4, <1>5

\* LogoutIsFinal: once Revoke has marked a session on its replica, and once it
\* has written it to the store, no request that comes in afterwards passes with
\* it, there or anywhere, whatever the caches forget, the store refuses and the
\* replicas lose.
THEOREM LogoutsAreFinal == Spec => LogoutIsFinal
<1>1. Init => LogoutsKept
  BY LogoutsKeptInit
<1>2. ASSUME Typed, LogoutsKept, [Next]_vars
      PROVE  [\A q \in Slots :
                Answers(q, "accepted") /\ Presented(slot[q].call) \in Sessions
                  => ~slot[q].late]_vars
  <2> SUFFICES ASSUME Next, NEW q \in Slots, Answers(q, "accepted"),
                      Presented(slot[q].call) \in Sessions
               PROVE  ~slot[q].late
    BY <1>2
  <2> DEFINE s == Presented(slot[q].call)
  <2>1. slot[q].pc # "idle" /\ answer' = "accepted"
    BY DEF Answers
  <2>2. Step(q) \/ StoreFails(q)
    BY <1>2, <2>1, AnsweredBySelf
  <2>3. HeldBy(q)
    BY <1>2 DEF Typed, Held
  <2>4. CASE Guard(q)
    <3>1. slot[q].call.op \in Guarded /\ s \notin CITokens /\ s # Nothing
      BY <2>3, <2>4, OperatorsAssumption DEF Guard, HeldBy
    <3>2. ~(now >= expiry[s]) /\ ~Counts(s)
      BY <2>1, <2>4, <3>1 DEF Guard, On, Reply
    <3>3. now \in Nat /\ expiry[s] \in Nat
      BY <1>2, Numbers DEF Typed, ClockOK
    <3> QED
      BY <3>2, <3>3, Numbers DEF Counts
  <2>5. CASE ReadDenylist(q)
    <3>1. s \notin denylist /\ slot[q].pc = "denylist"
      BY <2>1, <2>5 DEF ReadDenylist, Reply
    <3> QED
      BY <1>2, <3>1 DEF LogoutsKept
  <2>6. CASE RevokeInStore(q) \/ StoreFails(q)
    <3>1. slot[q].pc = "revoke store"
      BY <2>1, <2>6 DEF RevokeInStore, StoreFails, Reply
    <3> QED
      BY <1>2, <3>1 DEF LogoutsKept
  <2>7. CASE \/ RevokeHere(q) \/ Issue(q) \/ Login(q) \/ GitHubLogin(q) \/ Consume(q)
             \/ AskGitHub(q)
    BY <2>1, <2>7 DEF RevokeHere, Issue, Login, GitHubLogin, Consume, AskGitHub, On, Reply
  <2> QED
    BY <2>2, <2>4, <2>5, <2>6, <2>7 DEF Step
<1> QED
  BY <1>1, <1>2, AlwaysTyped, LogoutsKeptNext, PTL DEF Spec, LogoutIsFinal

-----------------------------------------------------------------------------
(* Guards, and what ends a session. *)

\* PassesAreEarned: no mix of a bearer token, a session cookie and an XSRF pair
\* passes one of the three guards that none of its parts allows there.
THEOREM PassesEarned == Spec => PassesAreEarned
<1>1. ASSUME Typed, [Next]_vars
      PROVE  [\A q \in Slots :
                LET c == slot[q].call
                IN  Answers(q, "accepted") =>
                      \/ Presented(c) \in Issued
                           /\ (c.op = "get" \/ c.cookie = Nothing \/ c.matches)
                      \/ c.op = "publish" /\ c.bearer = "listed"]_vars
  <2> SUFFICES ASSUME Next, NEW q \in Slots, Answers(q, "accepted")
               PROVE  LET c == slot[q].call
                      IN  \/ Presented(c) \in Issued
                               /\ (c.op = "get" \/ c.cookie = Nothing \/ c.matches)
                          \/ c.op = "publish" /\ c.bearer = "listed"
    BY <1>1
  <2> DEFINE c == slot[q].call
  <2>1. slot[q].pc # "idle" /\ answer' = "accepted"
    BY DEF Answers
  <2>2. Step(q) \/ StoreFails(q)
    BY <1>1, <2>1, AnsweredBySelf
  <2>3. HeldBy(q) /\ c \in Call
    BY <1>1, <2>1 DEF Typed, Held, HeldBy
  <2>4. Presented(c) \in Sessions => Presented(c) \in Issued
    BY <2>1, <2>3 DEF HeldBy, Presented
  <2>5. CASE Presented(c) \in Sessions /\ ~CSRFRefuses(c)
    BY <2>4, <2>5 DEF CSRFRefuses
  <2>6. CASE Guard(q) /\ Presented(c) \in CITokens
    <3>1. CIVerdict(c) = "accepted" \/ Presented(c) \in Sessions
      BY <2>1, <2>6, OperatorsAssumption DEF Guard, Reply
    <3>2. c.op = "publish" /\ c.bearer = "listed"
      BY <2>3, <2>6, <3>1, OperatorsAssumption DEF Guard, HeldBy, CIVerdict, Guarded
    <3> QED
      BY <3>2
  <2>7. CASE Guard(q) /\ Presented(c) \notin CITokens
    <3>1. Presented(c) \in Sessions /\ Admit(q)
      BY <2>1, <2>7 DEF Guard, Reply, On
    <3>2. ~CSRFRefuses(c)
      BY <2>1, <3>1 DEF Admit, Reply
    <3> QED
      BY <2>5, <3>1, <3>2
  <2>8. CASE ReadDenylist(q)
    <3>1. Admit(q) /\ Presented(c) \in Sessions
      BY <2>1, <2>3, <2>8 DEF ReadDenylist, Reply, HeldBy
    <3>2. ~CSRFRefuses(c)
      BY <2>1, <3>1 DEF Admit, Reply
    <3> QED
      BY <2>5, <3>1, <3>2
  <2>9. CASE RevokeInStore(q) \/ StoreFails(q)
    <3>1. slot[q].pc = "revoke store"
      BY <2>1, <2>9 DEF RevokeInStore, StoreFails, Reply
    <3> QED
      BY <2>3, <2>5, <3>1 DEF HeldBy
  <2>10. CASE \/ RevokeHere(q) \/ Issue(q) \/ Login(q) \/ GitHubLogin(q) \/ Consume(q)
              \/ AskGitHub(q)
    BY <2>1, <2>10 DEF RevokeHere, Issue, Login, GitHubLogin, Consume, AskGitHub, On, Reply
  <2> QED
    BY <2>2, <2>6, <2>7, <2>8, <2>9, <2>10 DEF Step
<1> QED
  BY <1>1, AlwaysTyped, PTL DEF Spec, PassesAreEarned

\* Only logouts put a session into the store's denylist or into a cache.
OnlyLogouts ==
    /\ denylist \subseteq ended
    /\ \A x \in Replicas : cache[x] \subseteq dropped[x] \cup ended

LEMMA OnlyLogoutsNext == Typed /\ OnlyLogouts /\ [Next]_vars => OnlyLogouts'
<1> SUFFICES ASSUME Typed, OnlyLogouts, [Next]_vars PROVE OnlyLogouts'
  OBVIOUS
<1>a. cache \in [Replicas -> SUBSET Issued] /\ dropped \in [Replicas -> SUBSET Issued]
  BY DEF Typed, DenylistOK
<1>1. CASE UNCHANGED revocation
  BY <1>1 DEF revocation, OnlyLogouts
<1>2. ASSUME NEW q \in Slots, ReadDenylist(q) PROVE OnlyLogouts'
  BY <1>2, <1>a DEF ReadDenylist, OnlyLogouts
<1>3. ASSUME NEW q \in Slots, RevokeHere(q) PROVE OnlyLogouts'
  BY <1>3, <1>a DEF RevokeHere, OnlyLogouts
<1>4. ASSUME NEW q \in Slots, RevokeInStore(q) PROVE OnlyLogouts'
  BY <1>4, <1>a DEF RevokeInStore, OnlyLogouts
<1>5. ASSUME NEW x \in Replicas, Restart(x) PROVE OnlyLogouts'
  BY <1>5, <1>a DEF Restart, OnlyLogouts
<1>6. CASE UNCHANGED vars
  BY <1>1, <1>6 DEF vars, revocation
<1>7. \/ UNCHANGED revocation \/ UNCHANGED vars \/ \E x \in Replicas : Restart(x)
      \/ \E q \in Slots : ReadDenylist(q) \/ RevokeHere(q) \/ RevokeInStore(q)
  <2>1. ASSUME NEW q \in Slots, NEW x \in Replicas, NEW c \in mix, Start(q, x, c)
        PROVE  UNCHANGED revocation
    BY <2>1 DEF Start
  <2>2. ASSUME NEW q \in Slots,
               \/ Guard(q) \/ Issue(q) \/ Login(q) \/ GitHubLogin(q) \/ Consume(q)
               \/ AskGitHub(q) \/ StoreFails(q)
        PROVE  UNCHANGED revocation
    BY <2>2 DEF Guard, Issue, Login, GitHubLogin, Consume, AskGitHub, StoreFails
  <2>3. Tick => UNCHANGED revocation
    BY DEF Tick
  <2> QED
    BY <2>1, <2>2, <2>3 DEF Next, Step
<1> QED
  BY <1>1, <1>2, <1>3, <1>4, <1>5, <1>6, <1>7

LEMMA FaultsCount ==
    ASSUME [Next]_vars
    PROVE  faults' = faults \/ faults' = faults + 1
<1>1. CASE UNCHANGED vars
  BY <1>1 DEF vars
<1>2. ASSUME NEW q \in Slots, NEW x \in Replicas, NEW c \in mix, Start(q, x, c)
      PROVE  faults' = faults
  BY <1>2 DEF Start, budget
<1>3. ASSUME NEW q \in Slots, Step(q) PROVE faults' = faults
  BY <1>3 DEF Step, Guard, ReadDenylist, RevokeHere, RevokeInStore, Issue, Login,
     GitHubLogin, Consume, AskGitHub, budget
<1>4. ASSUME NEW q \in Slots, StoreFails(q) PROVE faults' = faults + 1
  BY <1>4 DEF StoreFails
<1>5. ASSUME NEW x \in Replicas, Restart(x) PROVE faults' = faults
  BY <1>5 DEF Restart
<1>6. Tick => faults' = faults
  BY DEF Tick, budget
<1> QED
  BY <1>1, <1>2, <1>3, <1>4, <1>5, <1>6 DEF Next

LEMMA FaultsAreCounted == Spec => [](faults \in Nat)
<1>0. Init => faults = 0
  BY Zenon DEF Init
<1>1. Init => faults \in Nat
  BY <1>0
<1>2. faults \in Nat /\ [Next]_vars => (faults \in Nat)'
  BY FaultsCount
<1> QED
  BY <1>1, <1>2, PTL DEF Spec

\* LiveSessionsPass: while no store call has failed, the guards refuse a session
\* that has not expired only because somebody has logged it out.
THEOREM LiveSessionsPassed == Spec => LiveSessionsPass
<1>1. Init => OnlyLogouts
  BY DEF Init, OnlyLogouts
<1>2. ASSUME Typed, OnlyLogouts, faults \in Nat, [Next]_vars
      PROVE  [\A q \in Slots :
                LET s == Presented(slot[q].call)
                IN  Answers(q, "unauthorized") /\ faults' = 0 =>
                      \/ s \notin Sessions \/ slot[q].call.op \notin Guarded
                      \/ now >= expiry[s] \/ s \in ended
                      \/ \E x \in Replicas : s \in dropped[x]]_vars
  <2> SUFFICES ASSUME Next, NEW q \in Slots, Answers(q, "unauthorized"), faults' = 0,
                      Presented(slot[q].call) \in Sessions, slot[q].call.op \in Guarded
               PROVE  \/ now >= expiry[Presented(slot[q].call)]
                      \/ Presented(slot[q].call) \in ended
                      \/ \E x \in Replicas : Presented(slot[q].call) \in dropped[x]
    BY <1>2
  <2> DEFINE s == Presented(slot[q].call)
             x == slot[q].at
  <2>1. slot[q].pc # "idle" /\ answer' = "unauthorized"
    BY DEF Answers
  <2>2. Step(q) \/ StoreFails(q)
    BY <1>2, <2>1, AnsweredBySelf
  <2>3. HeldBy(q) /\ x \in Replicas
    BY <1>2, <2>1 DEF Typed, Held, HeldBy
  <2>4. CASE Guard(q)
    <3>1. now >= expiry[s] \/ s \in cache[x]
      <4>1. s \notin CITokens /\ s # Nothing
        BY OperatorsAssumption
      <4> QED
        BY <2>1, <2>4, <4>1 DEF Guard, On
    <3> QED
      BY <1>2, <2>3, <3>1 DEF OnlyLogouts
  <2>5. CASE ReadDenylist(q)
    <3>1. s \in denylist
      BY <2>1, <2>5 DEF ReadDenylist, Admit, Reply, On
    <3> QED
      BY <1>2, <3>1 DEF OnlyLogouts
  <2>6. CASE RevokeHere(q) \/ RevokeInStore(q)
    BY <2>1, <2>6 DEF RevokeHere, RevokeInStore, Reply, On
  <2>7. CASE Issue(q) \/ Login(q) \/ GitHubLogin(q) \/ Consume(q) \/ AskGitHub(q)
    <3>1. slot[q].pc \notin {"guard", "denylist", "revoke", "revoke store"}
      BY <2>7 DEF Issue, Login, GitHubLogin, Consume, AskGitHub
    <3> QED
      BY <2>1, <2>3, <3>1 DEF HeldBy
  <2>8. CASE StoreFails(q)
    <3>1. faults' = faults + 1
      BY <2>8 DEF StoreFails
    <3>2. faults + 1 # 0
      BY <1>2
    <3> QED
      BY <3>1, <3>2
  <2> QED
    BY <2>2, <2>4, <2>5, <2>6, <2>7, <2>8 DEF Step
<1> QED
  BY <1>1, <1>2, AlwaysTyped, OnlyLogoutsNext, FaultsAreCounted, PTL DEF Spec, LiveSessionsPass

-----------------------------------------------------------------------------
(* OAuth states. *)

\* A state that is still pending has let nobody pass, and nor has one that was
\* never issued.
Once ==
    /\ passes \in [States -> 0 .. 1]
    /\ \A x \in Replicas, o \in States : pending[x][o] # 0 => passes[o] = 0
    /\ \A o \in States \ minted : passes[o] = 0

\* Consume forgets the state on the one replica that holds it.
LEMMA OnceConsume ==
    ASSUME Typed, Once, NEW q \in Slots, Consume(q)
    PROVE  Once'
<1> DEFINE o == slot[q].call.state
           x == slot[q].at
<1>1. x \in Replicas /\ o \in States
  BY DEF Consume, Typed, Held, HeldBy, Call
<1>2. CASE pending' = pending /\ passes' = passes
  BY <1>2 DEF Consume, Once
<1>3. CASE /\ pending' = [pending EXCEPT ![x][o] = 0]
           /\ passes' = [passes EXCEPT ![o] =
                IF pending[x][o] # 0 /\ now < pending[x][o] THEN @ + 1 ELSE @]
  <2>1. pending[x][o] # 0 => \A y \in Replicas : y # x => pending[y][o] = 0
    BY <1>1 DEF Typed, OAuthOK
  <2>2. pending[x][o] # 0 => o \in minted /\ passes[o] = 0
    BY <1>1 DEF Typed, OAuthOK, Once
  <2>3. /\ \A y \in Replicas, p \in States :
             pending'[y][p] = IF y = x /\ p = o THEN 0 ELSE pending[y][p]
        /\ \A p \in States : p # o => passes'[p] = passes[p]
        /\ passes'[o] \in {passes[o], IF pending[x][o] # 0 THEN 1 ELSE passes[o]}
    BY <1>1, <1>3, <2>2 DEF Typed, OAuthOK, Once
  <2>4. minted' = minted
    BY DEF Consume
  <2>5. passes' \in [States -> 0 .. 1]
    BY <1>1, <1>3, <2>2 DEF Once
  <2>6. \A y \in Replicas, p \in States : pending'[y][p] # 0 => passes'[p] = 0
    BY <1>1, <2>1, <2>3 DEF Once
  <2>7. \A p \in States \ minted' : passes'[p] = 0
    BY <1>1, <2>2, <2>3, <2>4 DEF Once
  <2> QED
    BY <2>5, <2>6, <2>7 DEF Once
<1> QED
  BY <1>2, <1>3 DEF Consume

\* A state is issued once, and by one replica.
LEMMA OnceGitHubLogin ==
    ASSUME Typed, Once, NEW q \in Slots, GitHubLogin(q)
    PROVE  Once'
<1>1. PICK o \in States \ minted :
        /\ minted' = minted \cup {o}
        /\ pending' = [pending EXCEPT ![slot[q].at][o] = now + StateLife]
  BY DEF GitHubLogin
<1>2. passes' = passes /\ passes[o] = 0
  BY DEF GitHubLogin, Once
<1>3. \A y \in Replicas, p \in States : p # o => pending'[y][p] = pending[y][p]
  BY <1>1 DEF Typed, OAuthOK
<1> QED
  BY <1>1, <1>2, <1>3 DEF Once

LEMMA OnceElsewhere ==
    ASSUME Once, UNCHANGED oauth
    PROVE  Once'
BY DEF Once, oauth

LEMMA OnceStep ==
    ASSUME Typed, Once, NEW q \in Slots, Step(q)
    PROVE  Once'
<1>1. CASE Consume(q)
  BY <1>1, OnceConsume
<1>2. CASE GitHubLogin(q)
  BY <1>2, OnceGitHubLogin
<1>3. CASE \/ Guard(q) \/ ReadDenylist(q) \/ RevokeHere(q) \/ RevokeInStore(q)
           \/ Issue(q) \/ Login(q) \/ AskGitHub(q)
  <2>1. UNCHANGED oauth
    BY <1>3 DEF Guard, ReadDenylist, RevokeHere, RevokeInStore, Issue, Login, AskGitHub
  <2> QED
    BY <2>1, OnceElsewhere
<1> QED
  BY <1>1, <1>2, <1>3 DEF Step

LEMMA OnceNext ==
    ASSUME Typed, Once, [Next]_vars
    PROVE  Once'
<1>1. CASE UNCHANGED vars
  BY <1>1, OnceElsewhere DEF vars, oauth
<1>2. ASSUME NEW q \in Slots, NEW x \in Replicas, NEW c \in mix, Start(q, x, c)
      PROVE  Once'
  BY <1>2, OnceElsewhere DEF Start
<1>3. ASSUME NEW q \in Slots, Step(q) PROVE Once'
  BY <1>3, OnceStep
<1>4. ASSUME NEW q \in Slots, StoreFails(q) PROVE Once'
  BY <1>4, OnceElsewhere DEF StoreFails
<1>5. ASSUME NEW x \in Replicas, Restart(x) PROVE Once'
  <2>1. \A y \in Replicas, o \in States :
          pending'[y][o] # 0 => pending'[y][o] = pending[y][o]
    BY <1>5 DEF Restart, Typed, OAuthOK
  <2>2. passes' = passes /\ minted' = minted
    BY <1>5 DEF Restart
  <2> QED
    BY <2>1, <2>2 DEF Once
<1>6. Tick => Once'
  BY OnceElsewhere DEF Tick
<1> QED
  BY <1>1, <1>2, <1>3, <1>4, <1>5, <1>6 DEF Next

\* StatesPassOnce: an OAuth state lets one callback pass, on whichever replica and
\* however many of them are under way at once.
THEOREM StatesAreConsumed == Spec => []StatesPassOnce
<1>1. Init => Once
  <2>1. Init => /\ passes = [o \in States |-> 0]
                /\ pending = [x \in Replicas |-> [o \in States |-> 0]]
    BY Zenon DEF Init
  <2> QED
    BY <2>1 DEF Once
<1>2. Once => StatesPassOnce
  BY DEF Once, StatesPassOnce
<1> QED
  BY <1>1, <1>2, OnceNext, AlwaysTyped, PTL DEF Spec

-----------------------------------------------------------------------------
(* The lockout. *)

\* The count f of failures belongs to the last f guesses g, the latest of them at
\* l; the guess before those is a lockout older than the first of them.
Spaced(f, g, l) ==
    /\ g \in Seq(Nat) /\ Len(g) <= LockAfter + 1
    /\ f = 0 => g = <<>>
    /\ f # 0 => Len(g) >= f /\ g[Len(g)] = l
    /\ \A i, j \in 1 .. Len(g) : i <= j => g[i] <= g[j]
    /\ f # 0 /\ Len(g) > f => g[Len(g) - f] + LockFor <= g[Len(g) - f + 1]

GuessesOK ==
    /\ DOMAIN guesses = Replicas
    /\ \A x \in Replicas :
          /\ Spaced(failures[x], guesses[x], lastFail[x])
          /\ \A i \in 1 .. Len(guesses[x]) : guesses[x][i] <= now

LEMMA NoGuesses ==
    ASSUME NEW l \in Nat
    PROVE  Spaced(0, <<>>, l)
BY OperatorsAssumption DEF Spaced

\* Guessed appends, and forgets the oldest guess when there are too many.
LEMMA GuessedIs ==
    ASSUME NEW g \in Seq(Nat), Len(g) <= LockAfter + 1, now \in Nat
    PROVE  \E k \in {0, 1} :
              /\ k = 1 <=> Len(g) = LockAfter + 1
              /\ Guessed(g) \in Seq(Nat)
              /\ Len(Guessed(g)) = Len(g) + 1 - k
              /\ \A i \in 1 .. Len(g) - k : Guessed(g)[i] = g[i + k]
              /\ Guessed(g)[Len(g) + 1 - k] = now
<1> DEFINE all == Append(g, now)
<1>0. LockAfter \in Nat \ {0} /\ Len(g) \in Nat
  BY OperatorsAssumption
<1>1. /\ all \in Seq(Nat) /\ Len(all) = Len(g) + 1
      /\ \A i \in 1 .. Len(g) : all[i] = g[i]
      /\ all[Len(g) + 1] = now
  OBVIOUS
<1>2. CASE Len(g) = LockAfter + 1
  <2>1. Guessed(g) = Tail(all)
    BY <1>0, <1>1, <1>2 DEF Guessed
  <2>2. /\ Tail(all) \in Seq(Nat) /\ Len(Tail(all)) = Len(g)
        /\ \A i \in 1 .. Len(g) : Tail(all)[i] = all[i + 1]
    BY <1>0, <1>1
  <2>3. /\ \A i \in 1 .. Len(g) - 1 : Tail(all)[i] = g[i + 1]
        /\ Tail(all)[Len(g)] = now
    BY <1>0, <1>1, <1>2, <2>2
  <2>4. Len(g) = Len(g) + 1 - 1 /\ (1 = 1 <=> Len(g) = LockAfter + 1)
    BY <1>0, <1>2
  <2> HIDE DEF all
  <2> WITNESS 1 \in {0, 1}
  <2> QED
    BY <2>1, <2>2, <2>3, <2>4
<1>3. CASE Len(g) # LockAfter + 1
  <2>1. Guessed(g) = all
    BY <1>0, <1>1, <1>3 DEF Guessed
  <2> HIDE DEF all
  <2> QED
    BY <1>0, <1>1, <1>3, <2>1
<1> QED
  BY <1>2, <1>3

\* One more wrong password, weighed while the login is not locked.
LEMMA OneMoreGuess ==
    ASSUME NEW f \in 0 .. LockAfter, NEW g, NEW l \in Nat, now \in Nat,
           Spaced(f, g, l), \A i \in 1 .. Len(g) : g[i] <= now,
           f < LockAfter \/ l + LockFor <= now
    PROVE  /\ Spaced((IF f >= LockAfter THEN 0 ELSE f) + 1, Guessed(g), now)
           /\ \A i \in 1 .. Len(Guessed(g)) : Guessed(g)[i] <= now
<1> DEFINE n == Len(g)
           h == Guessed(g)
           e == (IF f >= LockAfter THEN 0 ELSE f) + 1
<1>0. /\ LockAfter \in Nat \ {0} /\ LockFor \in Nat \ {0}
      /\ g \in Seq(Nat) /\ n \in Nat /\ n <= LockAfter + 1
      /\ \A i \in 1 .. n : g[i] \in Nat
  BY OperatorsAssumption DEF Spaced
<1>1. PICK k \in {0, 1} :
        /\ k = 1 <=> n = LockAfter + 1
        /\ h \in Seq(Nat) /\ Len(h) = n + 1 - k
        /\ \A i \in 1 .. n - k : h[i] = g[i + k]
        /\ h[n + 1 - k] = now
  BY <1>0, GuessedIs
<1>2. /\ f = 0 => n = 0
      /\ f # 0 => n >= f /\ g[n] = l
      /\ \A i, j \in 1 .. n : i <= j => g[i] <= g[j]
      /\ f # 0 /\ n > f => g[n - f] + LockFor <= g[n - f + 1]
      /\ \A i \in 1 .. n : g[i] <= now
  BY DEF Spaced
<1> HIDE DEF h, n
<1>3. \A i, j \in 1 .. Len(h) : i <= j => h[i] <= h[j] /\ h[j] <= now
  <2> SUFFICES ASSUME NEW i \in 1 .. Len(h), NEW j \in 1 .. Len(h), i <= j
               PROVE  h[i] <= h[j] /\ h[j] <= now
    OBVIOUS
  <2>1. CASE j = n + 1 - k
    <3>1. CASE i = j
      BY <1>0, <1>1, <2>1, <3>1
    <3>2. CASE i # j
      <4>1. i \in 1 .. n - k /\ i + k \in 1 .. n
        BY <1>0, <1>1, <2>1, <3>2
      <4> QED
        BY <1>1, <1>2, <2>1, <4>1
    <3> QED
      BY <3>1, <3>2
  <2>2. CASE j # n + 1 - k
    <3>1. /\ i \in 1 .. n - k /\ j \in 1 .. n - k
          /\ i + k \in 1 .. n /\ j + k \in 1 .. n /\ i + k <= j + k
      BY <1>0, <1>1, <2>2
    <3> QED
      BY <1>1, <1>2, <3>1
  <2> QED
    BY <2>1, <2>2
<1>4. Len(h) <= LockAfter + 1 /\ Len(h) >= e /\ e # 0 /\ e \in Nat
  <2>1. CASE f < LockAfter
    BY <1>0, <1>1, <1>2, <2>1
  <2>2. CASE f = LockAfter
    BY <1>0, <1>1, <1>2, <2>2
  <2> QED
    BY <1>0, <2>1, <2>2
<1>5. Len(h) > e => h[Len(h) - e] + LockFor <= h[Len(h) - e + 1]
  <2> SUFFICES ASSUME Len(h) > e
               PROVE  h[Len(h) - e] + LockFor <= h[Len(h) - e + 1]
    OBVIOUS
  <2>1. CASE f = LockAfter
    <3>1. e = 1 /\ n - k \in 1 .. n - k /\ Len(h) - e = n - k /\ n - k + k = n
      BY <1>0, <1>1, <2>1
    <3>2. h[n - k] = l
      BY <1>0, <1>1, <1>2, <2>1, <3>1
    <3> QED
      BY <1>0, <1>1, <2>1, <3>1, <3>2
  <2>2. CASE f < LockAfter
    <3>1. f # 0 /\ n > f /\ e = f + 1
      BY <1>0, <1>1, <1>2, <2>2
    <3>2. /\ Len(h) - e = n - f - k
          /\ n - f - k \in 1 .. n - k /\ n - f - k + 1 \in 1 .. n - k
          /\ n - f - k + k = n - f /\ n - f - k + 1 + k = n - f + 1
      BY <1>0, <1>1, <2>2, <3>1
    <3>3. /\ h[n - f - k] = g[n - f - k + k]
          /\ h[n - f - k + 1] = g[n - f - k + 1 + k]
      <4> DEFINE i == n - f - k
                 j == n - f - k + 1
      <4>1. i \in 1 .. n - k /\ j \in 1 .. n - k
        BY <3>2
      <4> HIDE DEF i, j
      <4>2. h[i] = g[i + k] /\ h[j] = g[j + k]
        BY <1>1, <4>1
      <4> QED
        BY <4>2 DEF i, j
    <3> QED
      BY <1>2, <3>1, <3>2, <3>3
  <2> QED
    BY <1>0, <2>1, <2>2
<1>6. h[Len(h)] = now
  BY <1>1
<1>7. Spaced(e, h, now)
  BY <1>1, <1>3, <1>4, <1>5, <1>6 DEF Spaced
<1> QED
  BY <1>3, <1>7 DEF h

LEMMA GuessesElsewhere ==
    ASSUME GuessesOK, UNCHANGED passwords, now' = now
    PROVE  GuessesOK'
BY DEF GuessesOK, passwords

\* A login changes what is kept on its own replica.
LEMMA GuessesLogin ==
    ASSUME Typed, GuessesOK, NEW q \in Slots, Login(q)
    PROVE  GuessesOK'
<1> DEFINE x == slot[q].at
           f == failures[x]
           e == (IF f >= LockAfter THEN 0 ELSE f) + 1
<1>1. x \in Replicas
  BY DEF Login, Typed, Held, HeldBy
<1>2. /\ now \in Nat /\ now' = now /\ f \in 0 .. LockAfter
      /\ \A y \in Replicas : lastFail[y] \in Nat
      /\ LockAfter \in Nat /\ LockFor \in Nat
  BY <1>1, OperatorsAssumption DEF Login, Typed, ClockOK, PasswordsOK
<1>3. /\ DOMAIN failures = Replicas /\ DOMAIN lastFail = Replicas
  BY DEF Typed, PasswordsOK
<1>4. Spaced(f, guesses[x], lastFail[x]) /\ \A i \in 1 .. Len(guesses[x]) : guesses[x][i] <= now
  BY <1>1 DEF GuessesOK
<1>5. CASE Locked(x) /\ UNCHANGED passwords
  BY <1>2, <1>5, GuessesElsewhere
<1>6. CASE /\ failures' = [failures EXCEPT ![x] = 0]
           /\ guesses' = [guesses EXCEPT ![x] = <<>>]
           /\ lastFail' = lastFail
  <2> SUFFICES ASSUME NEW y \in Replicas
               PROVE  /\ Spaced(failures'[y], guesses'[y], lastFail'[y])
                      /\ \A i \in 1 .. Len(guesses'[y]) : guesses'[y][i] <= now
    <3>1. DOMAIN guesses' = Replicas
      BY <1>6 DEF GuessesOK
    <3> QED
      BY <1>2, <3>1 DEF GuessesOK
  <2>1. CASE y = x
    <3>1. failures'[y] = 0 /\ lastFail'[y] \in Nat
      BY <1>2, <1>3, <1>6, <2>1
    <3>2. guesses'[y] = <<>>
      BY <1>6, <2>1 DEF GuessesOK
    <3> QED
      BY <3>1, <3>2, NoGuesses
  <2>2. CASE y # x
    BY <1>3, <1>6, <2>2 DEF GuessesOK
  <2> QED
    BY <2>1, <2>2
<1>7. CASE /\ ~Locked(x)
           /\ failures' = [failures EXCEPT ![x] = e]
           /\ lastFail' = [lastFail EXCEPT ![x] = now]
           /\ guesses' = [guesses EXCEPT ![x] = Guessed(@)]
  <2> SUFFICES ASSUME NEW y \in Replicas
               PROVE  /\ Spaced(failures'[y], guesses'[y], lastFail'[y])
                      /\ \A i \in 1 .. Len(guesses'[y]) : guesses'[y][i] <= now
    <3>1. DOMAIN guesses' = Replicas
      BY <1>7 DEF GuessesOK
    <3> QED
      BY <1>2, <3>1 DEF GuessesOK
  <2>1. CASE y = x
    <3>1. f < LockAfter \/ lastFail[x] + LockFor <= now
      BY <1>1, <1>2, <1>7 DEF Locked
    <3>2. /\ Spaced(e, Guessed(guesses[x]), now)
          /\ \A i \in 1 .. Len(Guessed(guesses[x])) : Guessed(guesses[x])[i] <= now
      BY <1>1, <1>2, <1>4, <3>1, OneMoreGuess
    <3>3. failures'[y] = e /\ lastFail'[y] = now /\ guesses'[y] = Guessed(guesses[x])
      BY <1>1, <1>3, <1>7, <2>1 DEF GuessesOK
    <3> QED
      BY <3>2, <3>3
  <2>2. CASE y # x
    BY <1>3, <1>7, <2>2 DEF GuessesOK
  <2> QED
    BY <2>1, <2>2
<1> QED
  BY <1>5, <1>6, <1>7 DEF Login

LEMMA GuessesStep ==
    ASSUME Typed, GuessesOK, NEW q \in Slots, Step(q)
    PROVE  GuessesOK'
<1>1. CASE Login(q)
  BY <1>1, GuessesLogin
<1>2. CASE \/ Guard(q) \/ ReadDenylist(q) \/ RevokeHere(q) \/ RevokeInStore(q)
           \/ Issue(q) \/ GitHubLogin(q) \/ Consume(q) \/ AskGitHub(q)
  <2>1. UNCHANGED passwords /\ now' = now
    BY <1>2 DEF Guard, ReadDenylist, RevokeHere, RevokeInStore, Issue, GitHubLogin,
       Consume, AskGitHub
  <2> QED
    BY <2>1, GuessesElsewhere
<1> QED
  BY <1>1, <1>2 DEF Step

LEMMA GuessesNext ==
    ASSUME Typed, GuessesOK, [Next]_vars
    PROVE  GuessesOK'
<1>1. CASE UNCHANGED vars
  BY <1>1, GuessesElsewhere DEF vars, passwords
<1>2. ASSUME NEW q \in Slots, NEW x \in Replicas, NEW c \in mix, Start(q, x, c)
      PROVE  GuessesOK'
  BY <1>2, GuessesElsewhere DEF Start
<1>3. ASSUME NEW q \in Slots, Step(q) PROVE GuessesOK'
  BY <1>3, GuessesStep
<1>4. ASSUME NEW q \in Slots, StoreFails(q) PROVE GuessesOK'
  BY <1>4, GuessesElsewhere DEF StoreFails
<1>5. ASSUME NEW x \in Replicas, Restart(x) PROVE GuessesOK'
  <2>1. /\ failures' = [failures EXCEPT ![x] = 0]
        /\ lastFail' = [lastFail EXCEPT ![x] = 0]
        /\ guesses' = [guesses EXCEPT ![x] = <<>>]
        /\ now' = now
    BY <1>5 DEF Restart
  <2>2. DOMAIN failures = Replicas /\ DOMAIN lastFail = Replicas
    BY DEF Typed, PasswordsOK
  <2>3. DOMAIN guesses' = Replicas
    BY <2>1 DEF GuessesOK
  <2>4. ASSUME NEW y \in Replicas
        PROVE  /\ Spaced(failures'[y], guesses'[y], lastFail'[y])
               /\ \A i \in 1 .. Len(guesses'[y]) : guesses'[y][i] <= now
    <3>1. CASE y = x
      <4>1. failures'[y] = 0 /\ lastFail'[y] = 0 /\ guesses'[y] = <<>>
        BY <2>1, <2>2, <3>1 DEF GuessesOK
      <4> QED
        BY <4>1, NoGuesses
    <3>2. CASE y # x
      BY <2>1, <2>2, <3>2 DEF GuessesOK
    <3> QED
      BY <3>1, <3>2
  <2> QED
    BY <2>1, <2>3, <2>4 DEF GuessesOK
<1>6. Tick => GuessesOK'
  <2> SUFFICES ASSUME Tick PROVE GuessesOK'
    OBVIOUS
  <2>1. UNCHANGED <<failures, lastFail, guesses>> /\ now' = now + 1 /\ now \in Nat
    <3>1. UNCHANGED passwords /\ now' = now + 1
      BY DEF Tick
    <3> QED
      BY <3>1 DEF passwords, Typed, ClockOK
  <2>2. \A x \in Replicas : \A i \in 1 .. Len(guesses[x]) : guesses[x][i] <= now + 1
    <3> SUFFICES ASSUME NEW x \in Replicas, NEW i \in 1 .. Len(guesses[x])
                 PROVE  guesses[x][i] <= now + 1
      OBVIOUS
    <3>1. guesses[x][i] \in Nat /\ guesses[x][i] <= now
      BY DEF GuessesOK, Spaced
    <3> QED
      BY <2>1, <3>1
  <2> QED
    BY <2>1, <2>2 DEF GuessesOK
<1> QED
  BY <1>1, <1>2, <1>3, <1>4, <1>5, <1>6 DEF Next

LEMMA GuessesAlways == Spec => []GuessesOK
<1>1. Init => GuessesOK
  <2> SUFFICES ASSUME Init PROVE GuessesOK
    OBVIOUS
  <2>1. /\ failures = [x \in Replicas |-> 0]
        /\ lastFail = [x \in Replicas |-> 0]
        /\ guesses = [x \in Replicas |-> <<>>]
    BY DEF Init
  <2>2. \A x \in Replicas : Spaced(failures[x], guesses[x], lastFail[x])
    BY <2>1, NoGuesses
  <2>3. \A x \in Replicas : Len(guesses[x]) = 0
    BY <2>1
  <2> QED
    BY <2>1, <2>2, <2>3 DEF GuessesOK
<1> QED
  BY <1>1, GuessesNext, AlwaysTyped, PTL DEF Spec

\* A lockout lies between the oldest and the latest of LockAfter + 1 guesses.
LEMMA SpacedIs ==
    ASSUME NEW f \in 0 .. LockAfter, NEW g, NEW l, Spaced(f, g, l),
           Len(g) = LockAfter + 1
    PROVE  g[LockAfter + 1] - g[1] >= LockFor
<1>1. LockAfter \in Nat \ {0} /\ LockFor \in Nat
  BY OperatorsAssumption
<1>2. /\ g \in Seq(Nat)
      /\ f = 0 => g = <<>>
      /\ \A i, j \in 1 .. Len(g) : i <= j => g[i] <= g[j]
      /\ f # 0 /\ Len(g) > f => g[Len(g) - f] + LockFor <= g[Len(g) - f + 1]
  BY DEF Spaced
<1>3. f # 0 /\ Len(g) > f
  <2>1. Len(<<>>) = 0
    OBVIOUS
  <2>2. f # 0
    BY <1>1, <1>2, <2>1
  <2> QED
    BY <1>1, <2>2
<1>4. PICK a \in 1 .. Len(g), b \in 1 .. Len(g) : g[a] + LockFor <= g[b]
  <2>1. Len(g) - f \in 1 .. Len(g) /\ Len(g) - f + 1 \in 1 .. Len(g)
    BY <1>1, <1>3
  <2> QED
    BY <1>2, <1>3, <2>1
<1>5. g[1] <= g[a] /\ g[b] <= g[LockAfter + 1]
  BY <1>1, <1>2
<1>6. \A i \in 1 .. Len(g) : g[i] \in Nat
  BY <1>2
<1>7. /\ g[1] \in Nat /\ g[a] \in Nat /\ g[b] \in Nat /\ g[LockAfter + 1] \in Nat
  BY <1>1, <1>6
<1> QED
  BY <1>1, <1>4, <1>5, <1>7

\* GuessesAreSpaced: AdminAuthenticator weighs at most LockAfter wrong passwords
\* in a row within the lockout's time.
THEOREM LockoutSpacesGuesses == Spec => []GuessesAreSpaced
<1>1. Typed /\ GuessesOK => GuessesAreSpaced
  <2> SUFFICES ASSUME Typed, GuessesOK, NEW x \in Replicas,
                      Len(guesses[x]) = LockAfter + 1
               PROVE  guesses[x][LockAfter + 1] - guesses[x][1] >= LockFor
    BY DEF GuessesAreSpaced
  <2>1. failures[x] \in 0 .. LockAfter /\ Spaced(failures[x], guesses[x], lastFail[x])
    BY DEF GuessesOK, Typed, PasswordsOK
  <2> QED
    BY <2>1, SpacedIs
<1> QED
  BY <1>1, GuessesAlways, AlwaysTyped, PTL

\* LockoutIsNotExtended: AdminAuthenticator refuses a login unweighed only within
\* the lockout's time after the last password that it weighed.
THEOREM LockoutEnds == Spec => LockoutIsNotExtended
<1>1. ASSUME Typed, GuessesOK, [Next]_vars
      PROVE  [\A q \in Slots :
                Answers(q, "tooMany") =>
                  LET g == guesses[slot[q].at]
                  IN  g # <<>> /\ now - g[Len(g)] < LockFor]_vars
  <2> SUFFICES ASSUME Next, NEW q \in Slots, Answers(q, "tooMany")
               PROVE  /\ guesses[slot[q].at] # <<>>
                      /\ now - guesses[slot[q].at][Len(guesses[slot[q].at])] < LockFor
    BY <1>1
  <2> DEFINE x == slot[q].at
  <2>1. slot[q].pc # "idle" /\ answer' = "tooMany"
    BY DEF Answers
  <2>2. Step(q) \/ StoreFails(q)
    BY <1>1, <2>1, AnsweredBySelf
  <2>3. x \in Replicas
    BY <1>1, <2>1 DEF Typed, Held, HeldBy
  <2>4. Login(q) /\ Locked(x)
    <3>1. CASE Login(q)
      BY <2>1, <3>1 DEF Login, On, Reply
    <3>2. CASE Guard(q)
      <4>1. slot[q].call.op \in Guarded
        BY <1>1, <2>1, <3>2 DEF Guard, Typed, Held, HeldBy
      <4>2. CIVerdict(slot[q].call) # "tooMany"
        BY <4>1 DEF CIVerdict, Guarded
      <4> QED
        BY <2>1, <3>2, <4>2 DEF Guard, Admit, On, Reply
    <3>3. CASE ReadDenylist(q)
      BY <2>1, <3>3 DEF ReadDenylist, Admit, On, Reply
    <3>4. CASE \/ RevokeHere(q) \/ RevokeInStore(q) \/ Issue(q) \/ GitHubLogin(q)
      BY <2>1, <3>4 DEF RevokeHere, RevokeInStore, Issue, GitHubLogin, On, Reply
    <3>5. CASE Consume(q) \/ AskGitHub(q)
      BY <2>1, <3>5 DEF Consume, AskGitHub, On, Reply
    <3>6. CASE StoreFails(q)
      BY <2>1, <3>6 DEF StoreFails, Reply
    <3> QED
      BY <2>2, <3>1, <3>2, <3>3, <3>4, <3>5, <3>6 DEF Step
  <2>5. failures[x] # 0 /\ now - lastFail[x] < LockFor
    BY <1>1, <2>3, <2>4, OperatorsAssumption DEF Locked, Typed, PasswordsOK
  <2>6. /\ Len(guesses[x]) >= failures[x] /\ failures[x] \in Nat
        /\ guesses[x][Len(guesses[x])] = lastFail[x]
    BY <1>1, <2>3, <2>5 DEF GuessesOK, Spaced, Typed, PasswordsOK
  <2> QED
    BY <2>5, <2>6
<1> QED
  BY <1>1, GuessesAlways, AlwaysTyped, PTL DEF Spec, LockoutIsNotExtended

=============================================================================
