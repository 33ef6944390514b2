--------------------------- MODULE SessionFamily ---------------------------
(***************************************************************************)
(* What refresh-token rotation promises of a session family, as seen by a  *)
(* client: a family is opened with one live token; the live token moves to *)
(* a token that was never used before, or the family ends; an ended family *)
(* never has a live token again.                                           *)
(***************************************************************************)
CONSTANTS Families, Tokens

VARIABLES
    opened,     \* families that have been opened
    live,       \* the live tokens of each family
    used        \* tokens that are or have been live

fvars == <<opened, live, used>>

Init ==
    /\ opened = {}
    /\ live = [f \in Families |-> {}]
    /\ used = {}

Open(f) ==
    /\ f \notin opened
    /\ opened' = opened \cup {f}
    /\ \E i \in Tokens \ used :
         /\ live' = [live EXCEPT ![f] = {i}]
         /\ used' = used \cup {i}

Move(f) ==
    /\ \E o \in used : live[f] = {o}
    /\ \E i \in Tokens \ used :
         /\ live' = [live EXCEPT ![f] = {i}]
         /\ used' = used \cup {i}
    /\ UNCHANGED opened

End(f) ==
    /\ live[f] # {}
    /\ live' = [live EXCEPT ![f] = {}]
    /\ UNCHANGED <<opened, used>>

Next == \E f \in Families : Open(f) \/ Move(f) \/ End(f)

Spec == Init /\ [][Next]_fvars
=============================================================================
