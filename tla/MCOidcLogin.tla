---------------------------- MODULE MCOidcLogin ----------------------------
EXTENDS OidcLogin, TLC

Symmetry ==
    Permutations(Requests) \cup Permutations(Calls) \cup Permutations(Subjects)
        \cup Permutations(Users)
============================================================================
