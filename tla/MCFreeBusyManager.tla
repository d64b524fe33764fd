-------------------------- MODULE MCFreeBusyManager --------------------------
\* Two addresses, two providers and two URLs, u with a password and v the same without.
EXTENDS FreeBusyManager, TLC
CONSTANTS u, v

MCDisplayed == [url \in Urls |-> v]
Symmetry == Permutations(Emails)
=============================================================================
