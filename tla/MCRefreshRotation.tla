------------------------- MODULE MCRefreshRotation -------------------------
(* An instance of RefreshRotation for TLC.                                 *)
EXTENDS RefreshRotation, TLC

\* Calls are interchangeable, and so are families: no action and no invariant
\* names one of them.
Symmetry == Permutations(Calls) \cup Permutations(Families)

\* The run looks at the two sides of the protocol one at a time: time passes
\* and refreshes meet at most one call of each other kind, over sessions without
\* grants; or the instant is one, all calls are refreshes of a known token, and
\* grants and users change.
TimeSide ==
    /\ updates = 0
    /\ \A i \in TokenId : Exists(i) =>
         tokens[i].source = "StoredUser" /\ tokens[i].grants = {}

GrantSide ==
    /\ clock = 0
    /\ \A c \in Calls : request[c].kind = "refresh"

SideNext ==
    \/ TimeSide /\ Tick
    \/ GrantSide /\ \E u \in Users : UpdateUser(u)
    \/ \E f \in Families, u \in Users : Issue(f, u) /\ (TimeSide \/ GrantSide)'
    \/ \E c \in Calls :
         \/ \E i \in Delivered : Begin(c, "refresh", i)
         \/ TimeSide /\ Begin(c, "refresh", None)
         \/ /\ TimeSide
            /\ \E k \in Kinds \ {request[d].kind : d \in Calls},
                  i \in Delivered \cup {None} : Begin(c, k, i)
         \/ Step(c)
         \/ Fail(c)

SideSpec == Init /\ [][SideNext]_vars
=============================================================================
