---------------------------- MODULE MCCredentials ----------------------------
(* An instance of Credentials for TLC.                                     *)
EXTENDS Credentials, TLC

Symmetry == Permutations(Calls)

\* The stores of the three kinds of credential share nothing, so the run looks
\* at calls and changes of one store at a time.
StoreOf(k) ==
    CASE k = "reset" -> "resets"
      [] k = "api" -> "tokens"
      [] OTHER -> "steps"

InUse ==
    {StoreOf(kind[c]) : c \in {d \in Calls : kind[d] # None}}
        \cup {"resets" : t \in {r \in Resets : reset[r] # "new"}}
        \cup {"tokens" : t \in {r \in Tokens : api[r] # "new"}}
        \cup {"steps" : s \in used}

SideNext == Next /\ Cardinality(InUse') <= 1

SideSpec == Init /\ [][SideNext]_vars
==============================================================================
