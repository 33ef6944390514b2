---------------------------- MODULE MCRateLimit ----------------------------
(* Instances of RateLimit for TLC.                                         *)
EXTENDS RateLimit, TLC

CONSTANTS principal, client, reset

\* A login with and without a known client address.
PrincipalAndClient == {<<principal, client>>, <<principal>>, <<>>}

PrincipalOnly == {<<principal>>}

\* A request has keys of its own flow.
ResetRequest == {<<reset>>, <<>>}

NoRequests == {}

Symmetry == Permutations(Calls) \cup Permutations(Hashes)
=============================================================================
