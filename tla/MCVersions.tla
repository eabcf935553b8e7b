------------------------------- MODULE MCVersions -------------------------------
(***************************************************************************)
(* The versions TLC publishes: a pair for every rule of the order, with      *)
(* machine words of two digits.                                              *)
(***************************************************************************)
EXTENDS Versions

n0 == <<48>>
n1 == <<49>>
n2 == <<50>>
n9 == <<57>>
n10 == <<49, 48>>
n01 == <<48, 49>>
n998 == <<57, 57, 56>>
n999 == <<57, 57, 57>>
upper == <<66>>
lower == <<97>>
under == <<95>>
hyphen == <<Hyphen>>
dot == <<Dot>>
plus == <<Plus>>

Release(major, minor, patch) == major \o dot \o minor \o dot \o patch
PreOf(s) == Release(n1, n0, n0) \o hyphen \o s

Releases == {Release(n1, n0, n0), Release(n1, n9, n0), Release(n1, n10, n0),
             Release(n998, n0, n0), Release(n999, n0, n0)}

Builds == {Release(n1, n0, n0) \o plus \o lower \o hyphen \o n1,
           Release(n1, n9, n0) \o plus \o n2}

\* rc fields: numbers with and without leading zeros, wide ones, letters of
\* either case, a signed number, an empty field, one field more.
PreReleases ==
    {PreOf(s) : s \in {n2, n10, n01, n1, n998, n999, upper, lower, under,
                       lower \o dot \o n1, lower \o dot, hyphen \o n2,
                       lower \o dot \o lower, n1 \o lower}}

Published == Releases \cup Builds \cup PreReleases
=============================================================================
