------------------------------ MODULE MCOperators ------------------------------
(***************************************************************************)
(* A small instance of Operators: two replicas, two requests at a time, and  *)
(* three mixes of traffic.                                                   *)
(***************************************************************************)
EXTENDS Operators, TLC

CONSTANTS a, b, q1, q2, s1, s2, o1

\* Interchangeable replicas and request slots.
Alike == Permutations(Replicas) \cup Permutations(Slots)

Do(op, bearer, cookie, matches, right) ==
    [op |-> op, bearer |-> bearer, cookie |-> cookie, matches |-> matches,
     right |-> right, state |-> o1]
Plain(op) == Do(op, Nothing, Nothing, TRUE, TRUE)

\* Passwords, right and wrong.
Passwords == {Plain("login"), Do("login", Nothing, Nothing, TRUE, FALSE)}

\* The GitHub login and its callback.
GitHub == {Plain("github"), Plain("callback"),
           Do("callback", Nothing, Nothing, FALSE, TRUE), Do("get", s1, Nothing, FALSE, TRUE)}

\* Requests with every kind of credential, and logouts.
Credentials ==
    {Plain("login"), Plain("operate"),
     Do("logout", s1, Nothing, FALSE, TRUE), Do("logout", Nothing, s1, TRUE, TRUE),
     Do("get", Nothing, s1, FALSE, TRUE), Do("operate", s1, s2, FALSE, TRUE),
     Do("operate", Nothing, s1, TRUE, TRUE), Do("operate", "listed", s1, TRUE, TRUE),
     Do("publish", "listed", Nothing, FALSE, TRUE), Do("publish", "unlisted", s1, TRUE, TRUE),
     Do("publish", s1, Nothing, FALSE, TRUE), Do("logout", "listed", Nothing, FALSE, TRUE)}

Traffic == {Passwords, GitHub, Credentials}
=============================================================================
