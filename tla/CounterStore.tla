---------------------------- MODULE CounterStore ----------------------------
(***************************************************************************)
(* What AuthRateLimitStore promises to the abuse-protection engine: a map  *)
(* of versioned entries in which an entry that has not expired changes     *)
(* only through an operation that names its revision.  Entries that have   *)
(* expired may be reclaimed by any operation.                              *)
(***************************************************************************)
EXTENDS Integers

CONSTANTS Keys, Revisions, Times, None

VARIABLES
    entries,    \* key -> [revision, expires_at] or None
    clock,      \* the store's clock
    reply       \* the last operation and its answer

svars == <<entries, clock, reply>>

Entry == [revision: Revisions, expires_at: Times]

Expired == {k \in Keys : entries[k] # None /\ entries[k].expires_at <= clock}

Without(gone) == [k \in Keys |-> IF k \in gone THEN None ELSE entries[k]]

Revision(entry) == IF entry = None THEN None ELSE entry.revision

NoReply == [op |-> "none", key |-> None, expected |-> None, answer |-> "done"]

Init ==
    /\ entries = [k \in Keys |-> None]
    /\ clock \in Times
    /\ reply = NoReply

Time ==
    /\ clock' \in Times
    /\ UNCHANGED <<entries, reply>>

CompareExchange(k, expected, replacement, kept) ==
    /\ Revision(kept[k]) = expected
    /\ entries' = [kept EXCEPT ![k] = replacement]
    /\ reply' = [op |-> "compare_exchange", key |-> k, expected |-> expected,
                 answer |-> "true"]

Clear(k, expected, kept) ==
    /\ Revision(kept[k]) = expected
    /\ entries' = [kept EXCEPT ![k] = None]
    /\ reply' = [op |-> "clear", key |-> k, expected |-> expected,
                 answer |-> "true"]

\* Reads, conflicts and errors change nothing else.
Reclaim(kept) ==
    /\ entries' = kept
    /\ reply'.answer # "true"

Operation ==
    /\ \E gone \in SUBSET Expired :
         LET kept == Without(gone)
         IN  \/ Reclaim(kept)
             \/ \E k \in Keys, expected \in Revisions \cup {None} :
                  \/ Clear(k, expected, kept)
                  \/ \E replacement \in Entry :
                       CompareExchange(k, expected, replacement, kept)
    /\ UNCHANGED clock

Next == Time \/ Operation

Spec == Init /\ [][Next]_svars
=============================================================================
