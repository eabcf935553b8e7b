------------------------------- MODULE Versions -------------------------------
(***************************************************************************)
(* The version order of internal/domain/version.go and the latest version  *)
(* that publishing and blocking keep in plugin.json.                        *)
(*                                                                         *)
(* A version is a string: a sequence of ASCII codes.  The order works on    *)
(* digit strings of any width and never converts them, so the characters    *)
(* are what the properties are about.  Versions have passed                 *)
(* ValidateVersion: three numbers without leading zeros, then optionally    *)
(* "-" and a pre-release, then optionally "+" and build metadata.           *)
(***************************************************************************)
EXTENDS Integers, Sequences, FiniteSets, SequencesExt

CONSTANTS
    Candidates,   \* versions that may be published
    MaxListed,    \* bound: versions a plugin lists
    IntWidth      \* digits a machine word would hold, in the mutants only

VARIABLES
    listing,      \* PluginState.Versions: the versions in upload order
    blocked,      \* PluginState.BlockedVersions
    latest        \* PluginState.LatestVersion

vars == <<listing, blocked, latest>>

-----------------------------------------------------------------------------
(* Strings. *)

Plus == 43
Hyphen == 45
Dot == 46
Zero == 48
Digits == 48 .. 57

Empty == <<>>

Least(S) == CHOOSE i \in S : \A j \in S : i <= j
Where(s, ch) == {i \in DOMAIN s : s[i] = ch}

\* strings.IndexByte and the two slices around the first ch.
Before(s, ch) ==
    IF Where(s, ch) = {} THEN s ELSE SubSeq(s, 1, Least(Where(s, ch)) - 1)
After(s, ch) ==
    IF Where(s, ch) = {} THEN Empty
    ELSE SubSeq(s, Least(Where(s, ch)) + 1, Len(s))

\* Where the k-th field ends: at the k-th dot, or behind the last character.
Cut(s, k) ==
    IF k = 0 THEN 0
    ELSE Least({i \in Where(s, Dot) : Cardinality(Where(s, Dot) \cap 1 .. i) = k}
                 \cup {Len(s) + 1})

\* strings.Split at every dot.
Fields(s) ==
    [k \in 1 .. Cardinality(Where(s, Dot)) + 1 |->
        SubSeq(s, Cut(s, k - 1) + 1, Cut(s, k) - 1)]

\* The build metadata goes first: it may hold hyphens of its own.
SplitVersion(v) ==
    LET w == Before(v, Plus)
    IN  [core |-> Fields(Before(w, Hyphen)), pre |-> After(w, Hyphen)]

-----------------------------------------------------------------------------
(* Comparisons: -1, 0 or 1. *)

CompareInt(a, b) == IF a < b THEN -1 ELSE IF a > b THEN 1 ELSE 0

\* The first element that differs decides, then the length.
CompareBy(Cmp(_, _), s, t) ==
    LET diffs == {i \in DOMAIN s \cap DOMAIN t : Cmp(s[i], t[i]) # 0}
    IN  IF diffs = {} THEN CompareInt(Len(s), Len(t))
        ELSE Cmp(s[Least(diffs)], t[Least(diffs)])

\* strings.Compare.
CompareStrings(s, t) == CompareBy(CompareInt, s, t)

IsNumeric(s) == s # Empty /\ \A i \in DOMAIN s : s[i] \in Digits

TrimZeros(s) ==
    LET kept == {i \in DOMAIN s : s[i] # Zero}
    IN  IF kept = {} THEN Empty ELSE SubSeq(s, Least(kept), Len(s))

\* Variant with a bug: numbers wider than a machine word saturate.
CompareSaturating(a, b) ==
    LET s == TrimZeros(a)
        t == TrimZeros(b)
    IN  IF Len(s) > IntWidth /\ Len(t) > IntWidth THEN 0
        ELSE IF Len(s) # Len(t) THEN CompareInt(Len(s), Len(t))
        ELSE CompareStrings(s, t)

\* Digit strings by value, at any width.
CompareNumeric(a, b) ==
    LET s == TrimZeros(a)
        t == TrimZeros(b)
    IN  IF Len(s) # Len(t) THEN CompareInt(Len(s), Len(t))
        ELSE CompareStrings(s, t)

\* Variant with a bug: two kinds of field are compared as strings.
ComparePrereleaseFieldMixed(a, b) ==
    IF IsNumeric(a) /\ IsNumeric(b) THEN CompareNumeric(a, b)
    ELSE CompareStrings(a, b)

ComparePrereleaseField(a, b) ==
    CASE IsNumeric(a) /\ IsNumeric(b)  -> CompareNumeric(a, b)
      [] IsNumeric(a) /\ ~IsNumeric(b) -> -1
      [] ~IsNumeric(a) /\ IsNumeric(b) -> 1
      [] OTHER                         -> CompareStrings(a, b)

\* A release is above its pre-releases.
ComparePrerelease(a, b) ==
    CASE a = b                  -> 0
      [] a = Empty /\ b # Empty -> 1
      [] a # Empty /\ b = Empty -> -1
      [] OTHER -> CompareBy(ComparePrereleaseField, Fields(a), Fields(b))

CompareVersions ==
    [a \in Candidates |-> [b \in Candidates |->
        LET s == SplitVersion(a)
            t == SplitVersion(b)
            core == CompareBy(CompareNumeric, s.core, t.core)
        IN  IF core # 0 THEN core ELSE ComparePrerelease(s.pre, t.pre)]]

\* Variant with a bug: a blocked version makes the pass start again.
LatestAfterBlocked(versions, withheld) ==
    LET top[n \in 0 .. Len(versions)] ==
            IF n = 0 THEN Empty
            ELSE IF versions[n] \in withheld THEN Empty
            ELSE IF \/ top[n - 1] = Empty
                    \/ CompareVersions[versions[n]][top[n - 1]] > 0
            THEN versions[n]
            ELSE top[n - 1]
    IN  top[Len(versions)]

\* One pass over the list; the empty string when every version is blocked.
LatestInstallableVersion(versions, withheld) ==
    LET top[n \in 0 .. Len(versions)] ==
            IF n = 0 THEN Empty
            ELSE IF /\ versions[n] \notin withheld
                    /\ \/ top[n - 1] = Empty
                       \/ CompareVersions[versions[n]][top[n - 1]] > 0
            THEN versions[n]
            ELSE top[n - 1]
    IN  top[Len(versions)]

-----------------------------------------------------------------------------
(* The lists of one plugin.json.                                            *)

Init == listing = <<>> /\ blocked = {} /\ latest = Empty

\* The mutator of publish; a version that is listed keeps its place.
Publish(v) ==
    /\ \/ v \in ToSet(listing) /\ UNCHANGED listing
       \/ /\ v \notin ToSet(listing) /\ Len(listing) < MaxListed
          /\ listing' = Append(listing, v)
    /\ latest' = LatestInstallableVersion(listing', blocked)
    /\ UNCHANGED blocked

\* The mutator of BlockVersion.
BlockVersion(v) ==
    /\ v \in ToSet(listing) \ blocked
    /\ blocked' = blocked \cup {v}
    /\ latest' = LatestInstallableVersion(listing, blocked')
    /\ UNCHANGED listing

Next == \E v \in Candidates : Publish(v) \/ BlockVersion(v)

Spec == Init /\ [][Next]_vars

-----------------------------------------------------------------------------
(* The reference: the precedence of Semantic Versioning 2.0.0, section 11,  *)
(* stated as a relation, with numbers as numbers.                           *)

\* The number a string of digits denotes.
Value(s) ==
    LET value[n \in 0 .. Len(s)] ==
            IF n = 0 THEN 0 ELSE 10 * value[n - 1] + (s[n] - Zero)
    IN  value[Len(s)]

StringBelow(s, t) ==
    \/ \E i \in DOMAIN s \cap DOMAIN t :
          s[i] < t[i] /\ SubSeq(s, 1, i - 1) = SubSeq(t, 1, i - 1)
    \/ Len(s) < Len(t) /\ s = SubSeq(t, 1, Len(s))

FieldBelow(f, g) ==
    \/ IsNumeric(f) /\ IsNumeric(g) /\ Value(f) < Value(g)
    \/ IsNumeric(f) /\ ~IsNumeric(g)
    \/ ~IsNumeric(f) /\ ~IsNumeric(g) /\ StringBelow(f, g)

SameField(f, g) ==
    \/ f = g
    \/ IsNumeric(f) /\ IsNumeric(g) /\ Value(f) = Value(g)

\* s is below t in the first field where they differ, or ends before it.
FieldsBelow(s, t) ==
    \/ \E i \in DOMAIN s \cap DOMAIN t :
          FieldBelow(s[i], t[i]) /\ \A j \in 1 .. i - 1 : SameField(s[j], t[j])
    \/ Len(s) < Len(t) /\ \A j \in DOMAIN s : SameField(s[j], t[j])

Core(v) == Fields(Before(Before(v, Plus), Hyphen))
Pre(v) == After(Before(v, Plus), Hyphen)

\* What ValidateVersion has let through.
ASSUME CandidatesAssumption ==
    /\ MaxListed \in Nat
    /\ \A v \in Candidates :
          /\ v \in Seq(Nat)
          /\ Len(Core(v)) = 3 /\ \A i \in 1 .. 3 : IsNumeric(Core(v)[i])

Precedes(a, b) ==
    \/ FieldsBelow(Core(a), Core(b))
    \/ /\ \A i \in 1 .. 3 : Value(Core(a)[i]) = Value(Core(b)[i])
       /\ \/ Pre(a) # Empty /\ Pre(b) = Empty
          \/ /\ Pre(a) # Empty /\ Pre(b) # Empty
             /\ FieldsBelow(Fields(Pre(a)), Fields(Pre(b)))

SemVerBelow == [a \in Candidates |-> [b \in Candidates |-> Precedes(a, b)]]

-----------------------------------------------------------------------------
(* Properties.                                                              *)

Installable == ToSet(listing) \ blocked

\* Type correctness: lists hold versions, and a block names a listed one.
TypeOK ==
    /\ listing \in BoundedSeq(Candidates, MaxListed)
    /\ blocked \subseteq ToSet(listing)
    /\ latest \in Candidates \cup {Empty}

\* CompareVersions is the precedence of Semantic Versioning on whatever two
\* versions a plugin lists: numbers of any width, pre-releases with empty,
\* numeric and mixed fields, hyphens in the build metadata.
OrderIsSemVer ==
    \A a, b \in ToSet(listing) :
        CompareVersions[a][b] = IF SemVerBelow[a][b] THEN -1
                                ELSE IF SemVerBelow[b][a] THEN 1 ELSE 0

\* CompareVersions orders any three listed versions without a cycle and ties
\* are consistent, so that "the highest version" means something.
OrderIsTotal ==
    \A a, b, c \in ToSet(listing) :
        /\ CompareVersions[a][b] = -CompareVersions[b][a]
        /\ CompareVersions[a][b] <= 0 /\ CompareVersions[b][c] <= 0
              => /\ CompareVersions[a][c] <= 0
                 /\ CompareVersions[a][c] = 0 => CompareVersions[a][b] = 0

\* The latest version a plugin.json names is one a client may install, and none
\* that it may install is above it, in whatever order they were uploaded and
\* blocked: publishing a patch of an old branch last demotes nothing.
LatestIsHighest ==
    IF Installable = {} THEN latest = Empty
    ELSE latest \in Installable /\ \A v \in Installable : ~SemVerBelow[latest][v]

=============================================================================
