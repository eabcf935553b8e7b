------------------------------- MODULE Licences -------------------------------
(***************************************************************************)
(* The licence entitlements of internal/license/service.go: what            *)
(* auth/authorized_keys.json holds, what each operation makes of it and     *)
(* what a licence token proves.  How the document is stored is the subject  *)
(* of LocalStore and AtomicDocument.                                        *)
(*                                                                         *)
(* A key pair is generated by the request that issues it, so a key is       *)
(* named by that request.                                                   *)
(***************************************************************************)
EXTENDS Naturals

CONSTANTS
    Customers,      \* customer ids
    Keys,           \* key pairs, one for each request
    Instants,       \* times at which an entitlement or a token may expire
    NoEntitlement,  \* a customer without an entitlement
    NoDocument      \* there is no authorized_keys.json

ASSUME LicenceAssumption ==
    /\ Instants \subseteq Nat
    /\ NoEntitlement \notin [keys : SUBSET Keys, until : Instants]
    /\ NoDocument \notin
          [Customers -> [keys : SUBSET Keys, until : Instants] \cup {NoEntitlement}]

Entitlement == [keys : SUBSET Keys, until : Instants]
Document == [Customers -> Entitlement \cup {NoEntitlement}]

\* Revoke and Rotate ignore "until".
LicenceCall == [op : {"create", "revoke", "rotate"}, customer : Customers,
                until : Instants]

NoEntitlements == [c \in Customers |-> NoEntitlement]

\* What an operation starts from when there is no document.
Held(d) == IF d = NoDocument THEN NoEntitlements ELSE d

KeysOf(d, c) == IF Held(d)[c] = NoEntitlement THEN {} ELSE Held(d)[c].keys

\* Why an operation refuses the document it has read; "" when it does not.
\* Revoke and RotateKey unmarshal an empty document, which fails.
LicenceRefusal(c, d) ==
    CASE c.op = "create" ->
            IF Held(d)[c.customer] # NoEntitlement THEN "conflict" ELSE ""
      [] c.op # "create" /\ d = NoDocument -> "internalError"
      [] c.op # "create" /\ d # NoDocument ->
            IF d[c.customer] = NoEntitlement THEN "notFound" ELSE ""

\* The document an operation writes; k is the key pair it generated.
WithLicence(c, k, d) ==
    CASE c.op = "create" ->
            [Held(d) EXCEPT ![c.customer] = [keys |-> {k}, until |-> c.until]]
      [] c.op = "rotate" -> [Held(d) EXCEPT ![c.customer].keys = @ \cup {k}]
      [] c.op = "revoke" -> [Held(d) EXCEPT ![c.customer] = NoEntitlement]

-----------------------------------------------------------------------------
(* Tokens.  A token says which customer it is for and when it expires, and   *)
(* is signed with one key.                                                   *)

\* VerifyToken on a document it has loaded: "" when the token proves an
\* entitlement.  The claimed customer only selects the candidate keys.
TokenRefusal(t, d, now) ==
    CASE Held(d)[t.customer] = NoEntitlement -> "invalid"
      [] Held(d)[t.customer] # NoEntitlement /\
            (t.key \notin KeysOf(d, t.customer) \/ now >= t.until) -> "invalid"
      [] OTHER -> IF now > Held(d)[t.customer].until THEN "expired" ELSE ""

=============================================================================
