------------------------ MODULE MemoryRateLimitStore ------------------------
(***************************************************************************)
(* MemoryAuthRateLimitStore: entries and an index of their expiry times    *)
(* under one mutex.  Every operation holds the mutex from its first read   *)
(* of the clock to its end, so it is one step.  A clock that panics while  *)
(* the mutex is held poisons it.                                           *)
(*                                                                         *)
(* Of a counter only the revision and the expiry matter here; a bucket of  *)
(* the index that is not there is an empty one.                            *)
(***************************************************************************)
EXTENDS Integers, FiniteSets

CONSTANTS
    Keys,           \* AuthRateLimitKey
    Revisions,      \* revisions that callers supply
    Times,          \* values of the clock and of expires_at
    Capacity,       \* capacity
    None            \* Rust's None

Entry == [revision: Revisions, expires_at: Times]

ASSUME StoreAssumption ==
    /\ Times \subseteq Int
    /\ Capacity \in Nat \ {0}
    /\ None \notin Keys \cup Revisions \cup Entry

VARIABLES
    entries,        \* MemoryState.entries
    expirations,    \* MemoryState.expirations
    poisoned,       \* the mutex is poisoned
    clock,          \* the trusted clock
    reply           \* the last operation and its answer

vars == <<entries, expirations, poisoned, clock, reply>>

Answers == {"true", "false", "done", "key mismatch", "already expired",
            "unavailable"}

Reply == [op: {"none", "find", "compare_exchange", "clear", "purge"},
          key: Keys \cup {None},
          expected: Revisions \cup {None},
          answer: Answers]

TypeOK ==
    /\ entries \in [Keys -> Entry \cup {None}]
    /\ expirations \in [Times -> SUBSET Keys]
    /\ poisoned \in BOOLEAN
    /\ clock \in Times
    /\ reply \in Reply

-----------------------------------------------------------------------------
(* MemoryState, as functions from state to state.                          *)

\* Keys in the buckets of the index that are due.
Due(t) == UNION {expirations[x] : x \in {x \in Times : x <= t}}

\* purge_expired removes what the index names.
purge_expired(t) ==
    [entries |-> [k \in Keys |-> IF k \in Due(t) THEN None ELSE entries[k]],
     expirations |-> [x \in Times |-> IF x <= t THEN {} ELSE expirations[x]]]

remove(state, k) ==
    IF state.entries[k] = None THEN state
    ELSE [entries |-> [state.entries EXCEPT ![k] = None],
          expirations |->
            [state.expirations EXCEPT ![state.entries[k].expires_at] = @ \ {k}]]

\* Mutant: an update leaves the old expiry in the index.
insert_KeepsOldExpiry(state, k, entry) ==
    [entries |-> [state.entries EXCEPT ![k] = entry],
     expirations |->
       [state.expirations EXCEPT ![entry.expires_at] = @ \cup {k}]]

insert(state, k, entry) ==
    LET rest == remove(state, k)
    IN  [entries |-> [rest.entries EXCEPT ![k] = entry],
         expirations |->
           [rest.expirations EXCEPT ![entry.expires_at] = @ \cup {k}]]

Revision(entry) == IF entry = None THEN None ELSE entry.revision

Occupied(state) == {k \in Keys : state.entries[k] # None}

-----------------------------------------------------------------------------
(* The operations.                                                         *)

Answer(op, k, expected, answer) ==
    reply' = [op |-> op, key |-> k, expected |-> expected, answer |-> answer]

\* The mutex is released with this state.
Unlock(state) ==
    /\ entries' = state.entries
    /\ expirations' = state.expirations
    /\ UNCHANGED <<poisoned, clock>>

Find(k) ==
    /\ ~poisoned
    /\ Unlock(purge_expired(clock))
    /\ Answer("find", k, None, "done")

\* The host reclaims expired entries while idle.
Purge ==
    /\ ~poisoned
    /\ Unlock(purge_expired(clock))
    /\ Answer("purge", None, None, "done")

\* A new key finds no room.
Full(state, k) ==
    /\ state.entries[k] = None
    /\ Cardinality(Occupied(state)) >= Capacity

CompareExchange(k, expected, replacement) ==
    LET state == purge_expired(clock)
        answer ==
          IF Revision(state.entries[k]) # expected THEN "false"
          ELSE IF replacement.expires_at <= clock THEN "already expired"
          ELSE IF Full(state, k) THEN "unavailable"
          ELSE "true"
    IN  /\ ~poisoned
        /\ Unlock(IF answer = "true" THEN insert(state, k, replacement)
                                     ELSE state)
        /\ Answer("compare_exchange", k, expected, answer)

\* Refused before the mutex is taken.
CompareExchangeOtherKey(k, expected) ==
    /\ Answer("compare_exchange", k, expected, "key mismatch")
    /\ UNCHANGED <<entries, expirations, poisoned, clock>>

Clear(k, expected) ==
    LET state == purge_expired(clock)
        matches == Revision(state.entries[k]) = expected
    IN  /\ ~poisoned
        /\ Unlock(IF matches /\ expected # None THEN remove(state, k)
                                                ELSE state)
        /\ Answer("clear", k, expected, IF matches THEN "true" ELSE "false")

\* The clock panics under the mutex, before anything is changed.
ClockPanics ==
    /\ ~poisoned
    /\ poisoned' = TRUE
    /\ UNCHANGED <<entries, expirations, clock, reply>>

\* Every operation on a poisoned mutex fails.
Refused(op, k, expected) ==
    /\ poisoned
    /\ Answer(op, k, expected, "unavailable")
    /\ UNCHANGED <<entries, expirations, poisoned, clock>>

\* Time passes; an injected or adjusted clock may also go back.
Time ==
    /\ clock' \in Times
    /\ UNCHANGED <<entries, expirations, poisoned, reply>>

-----------------------------------------------------------------------------
Init ==
    /\ entries = [k \in Keys |-> None]
    /\ expirations = [t \in Times |-> {}]
    /\ poisoned = FALSE
    /\ clock \in Times
    /\ reply = [op |-> "none", key |-> None, expected |-> None,
                answer |-> "done"]

Next ==
    \/ Time
    \/ ClockPanics
    \/ Purge
    \/ Refused("purge", None, None)
    \/ \E k \in Keys : Find(k) \/ Refused("find", k, None)
    \/ \E k \in Keys, expected \in Revisions \cup {None} :
         \/ \E replacement \in Entry : CompareExchange(k, expected, replacement)
         \/ CompareExchangeOtherKey(k, expected)
         \/ Clear(k, expected)
         \/ \E op \in {"compare_exchange", "clear"} : Refused(op, k, expected)

Spec == Init /\ [][Next]_vars

-----------------------------------------------------------------------------
(* Properties.                                                             *)

\* The expiry index holds every stored key exactly once, under the expiry of
\* the stored entry, after any sequence of updates, clears and purges.
IndexMatchesEntries ==
    \A k \in Keys, t \in Times :
      k \in expirations[t] <=> (entries[k] # None /\ entries[k].expires_at = t)

\* The store never holds more entries than its capacity.
WithinCapacity == Cardinality({k \in Keys : entries[k] # None}) <= Capacity

Contract == INSTANCE CounterStore

\* The store keeps the contract of AuthRateLimitStore: whatever is updated,
\* cleared, purged or refused, an entry that has not expired changes only
\* through an operation that named its revision and was answered with true.
KeepsContract == Contract!Spec
=============================================================================
