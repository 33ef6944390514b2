--------------------- MODULE MemoryRateLimitStoreProofs ---------------------
(***************************************************************************)
(* Theorems about the in-memory rate-limit store, for any keys, revisions, *)
(* capacity and clock, a clock that goes back included.                    *)
(***************************************************************************)
EXTENDS MemoryRateLimitStore, FiniteSetTheorems, TLAPS

\* What holds of the state behind the mutex whenever the mutex is free.
StateOK(state) ==
    /\ state.entries \in [Keys -> Entry \cup {None}]
    /\ state.expirations \in [Times -> SUBSET Keys]
    /\ \A k \in Keys, t \in Times : (k \in state.expirations[t]) <=>
         (state.entries[k] # None /\ state.entries[k].expires_at = t)
    /\ IsFiniteSet(Occupied(state))
    /\ Cardinality(Occupied(state)) <= Capacity

Behind == [entries |-> entries, expirations |-> expirations]

\* The inductive invariant: the capacity needs the stored keys to be finite.
IndInv ==
    /\ poisoned \in BOOLEAN
    /\ clock \in Times
    /\ reply \in Reply
    /\ StateOK(Behind)

\* The inductive invariant is the invariants that the runs check, and more.
LEMMA Consequences ==
  ASSUME IndInv
  PROVE  TypeOK /\ IndexMatchesEntries /\ WithinCapacity
  BY DEF IndInv, StateOK, Behind, Occupied, TypeOK, IndexMatchesEntries,
         WithinCapacity

-----------------------------------------------------------------------------
(* MemoryState.                                                            *)

\* A state with fewer entries stays within the capacity.
LEMMA Fewer ==
  ASSUME NEW S, NEW T, IsFiniteSet(S), T \subseteq S,
         Cardinality(S) <= Capacity
  PROVE  IsFiniteSet(T) /\ Cardinality(T) <= Capacity
  <1>1. /\ IsFiniteSet(T)
        /\ Cardinality(T) <= Cardinality(S)
    BY FS_Subset
  <1>2. Cardinality(S) \in Nat /\ Cardinality(T) \in Nat
    BY <1>1, FS_CardinalityType
  <1> QED
    BY <1>1, <1>2, StoreAssumption

\* purge_expired removes exactly the entries that are due, from the entries
\* and from the index.
LEMMA PurgeExact ==
  ASSUME IndInv, NEW t \in Times
  PROVE  Due(t) = {k \in Keys : entries[k] # None /\ entries[k].expires_at <= t}
  <1>1. /\ expirations \in [Times -> SUBSET Keys]
        /\ entries \in [Keys -> Entry \cup {None}]
        /\ \A k \in Keys, x \in Times : (k \in expirations[x]) <=>
             (entries[k] # None /\ entries[k].expires_at = x)
    BY DEF IndInv, StateOK, Behind
  <1>2. \A k \in Keys : entries[k] # None => entries[k].expires_at \in Times
    BY <1>1 DEF Entry
  <1> QED
    BY <1>1, <1>2 DEF Due

\* purge_expired keeps the state sound.
LEMMA PurgeOK ==
  ASSUME IndInv, NEW t \in Times
  PROVE  StateOK(purge_expired(t))
  <1> DEFINE s == purge_expired(t)
  <1>1. /\ expirations \in [Times -> SUBSET Keys]
        /\ entries \in [Keys -> Entry \cup {None}]
        /\ \A k \in Keys, x \in Times : (k \in expirations[x]) <=>
             (entries[k] # None /\ entries[k].expires_at = x)
        /\ IsFiniteSet(Occupied(Behind))
        /\ Cardinality(Occupied(Behind)) <= Capacity
    BY DEF IndInv, StateOK, Behind
  <1>2. /\ s.entries = [k \in Keys |-> IF k \in Due(t) THEN None ELSE entries[k]]
        /\ s.expirations = [x \in Times |-> IF x <= t THEN {} ELSE expirations[x]]
    BY DEF purge_expired
  <1>3. /\ s.entries \in [Keys -> Entry \cup {None}]
        /\ s.expirations \in [Times -> SUBSET Keys]
    BY <1>1, <1>2
  <1>4. ASSUME NEW k \in Keys, NEW x \in Times
        PROVE  (k \in s.expirations[x]) <=>
                 (s.entries[k] # None /\ s.entries[k].expires_at = x)
    BY <1>1, <1>2, PurgeExact
  <1>5. Occupied(s) \subseteq Occupied(Behind)
    BY <1>2 DEF Occupied, Behind
  <1>6. IsFiniteSet(Occupied(s)) /\ Cardinality(Occupied(s)) <= Capacity
    BY <1>1, <1>5, Fewer
  <1> QED
    BY <1>3, <1>4, <1>6 DEF StateOK

\* remove takes the key out of both maps.
LEMMA RemoveOK ==
  ASSUME NEW s, StateOK(s), NEW k \in Keys
  PROVE  /\ StateOK(remove(s, k))
         /\ remove(s, k).entries = [s.entries EXCEPT ![k] = None]
  <1> DEFINE r == remove(s, k)
  <1>1. CASE s.entries[k] = None
    <2>1. r = s
      BY <1>1 DEF remove
    <2>2. s.entries = [s.entries EXCEPT ![k] = None]
      BY <1>1 DEF StateOK
    <2> QED
      BY <2>1, <2>2
  <1>2. CASE s.entries[k] # None
    <2> DEFINE x == s.entries[k].expires_at
    <2>1. /\ r.entries = [s.entries EXCEPT ![k] = None]
          /\ r.expirations = [s.expirations EXCEPT ![x] = @ \ {k}]
      BY <1>2 DEF remove
    <2>2. x \in Times
      BY <1>2 DEF StateOK, Entry
    <2>3. /\ r.entries \in [Keys -> Entry \cup {None}]
          /\ r.expirations \in [Times -> SUBSET Keys]
      BY <2>1, <2>2 DEF StateOK
    <2>4. ASSUME NEW j \in Keys, NEW t \in Times
          PROVE  (j \in r.expirations[t]) <=>
                   (r.entries[j] # None /\ r.entries[j].expires_at = t)
      BY <1>2, <2>1, <2>2 DEF StateOK
    <2>5. Occupied(r) \subseteq Occupied(s)
      BY <2>1 DEF Occupied, StateOK
    <2>6. IsFiniteSet(Occupied(r)) /\ Cardinality(Occupied(r)) <= Capacity
      BY <2>5, Fewer DEF StateOK
    <2> QED
      BY <2>1, <2>3, <2>4, <2>6 DEF StateOK
  <1> QED
    BY <1>1, <1>2

\* insert files the key once, under the new expiry, and fits if the key was
\* there or the store was not full.
LEMMA InsertOK ==
  ASSUME NEW s, StateOK(s), NEW k \in Keys, NEW e \in Entry, ~Full(s, k)
  PROVE  /\ StateOK(insert(s, k, e))
         /\ insert(s, k, e).entries = [s.entries EXCEPT ![k] = e]
  <1> DEFINE r == remove(s, k)
             i == insert(s, k, e)
  <1>1. /\ StateOK(r)
        /\ r.entries = [s.entries EXCEPT ![k] = None]
    BY RemoveOK
  <1>2. /\ i.entries = [r.entries EXCEPT ![k] = e]
        /\ i.expirations = [r.expirations EXCEPT ![e.expires_at] = @ \cup {k}]
    BY DEF insert
  <1>3. e.expires_at \in Times /\ e # None
    BY StoreAssumption DEF Entry
  <1>4. /\ i.entries = [s.entries EXCEPT ![k] = e]
        /\ i.entries \in [Keys -> Entry \cup {None}]
        /\ i.expirations \in [Times -> SUBSET Keys]
    BY <1>1, <1>2, <1>3 DEF StateOK
  <1>5. ASSUME NEW j \in Keys, NEW t \in Times
        PROVE  (j \in i.expirations[t]) <=>
                 (i.entries[j] # None /\ i.entries[j].expires_at = t)
    BY <1>1, <1>2, <1>3 DEF StateOK
  <1>6. Occupied(i) = Occupied(s) \cup {k}
    BY <1>3, <1>4 DEF Occupied, StateOK
  <1>7. IsFiniteSet(Occupied(i)) /\ Cardinality(Occupied(i)) <= Capacity
    <2>1. CASE k \in Occupied(s)
      <3>1. Occupied(i) = Occupied(s)
        BY <1>6, <2>1
      <3> QED
        BY <3>1 DEF StateOK
    <2>2. CASE k \notin Occupied(s)
      <3>1. /\ IsFiniteSet(Occupied(i))
            /\ Cardinality(Occupied(i)) = Cardinality(Occupied(s)) + 1
        BY <1>6, <2>2, FS_AddElement DEF StateOK
      <3>2. Cardinality(Occupied(s)) \in Nat
        BY FS_CardinalityType DEF StateOK
      <3>3. ~(Cardinality(Occupied(s)) >= Capacity)
        BY <2>2 DEF Full, Occupied
      <3> QED
        BY <3>1, <3>2, <3>3, StoreAssumption
    <2> QED
      BY <2>1, <2>2
  <1> QED
    BY <1>4, <1>5, <1>7 DEF StateOK

-----------------------------------------------------------------------------
(* The operations.                                                         *)

\* An operation that leaves a sound state behind keeps the invariant.
LEMMA UnlockOK ==
  ASSUME IndInv, NEW s, StateOK(s), Unlock(s), reply' \in Reply
  PROVE  IndInv'
  <1>1. Behind'.entries = s.entries /\ Behind'.expirations = s.expirations
    BY DEF Behind, Unlock
  <1>2. Occupied(Behind') = Occupied(s)
    BY <1>1 DEF Occupied
  <1>3. StateOK(Behind')
    BY <1>1, <1>2 DEF StateOK
  <1> QED
    BY <1>3 DEF IndInv, Unlock, StateOK, Behind, Occupied

\* Replies are well typed.
LEMMA AnswerTyped ==
  ASSUME NEW op \in {"none", "find", "compare_exchange", "clear", "purge"},
         NEW k \in Keys \cup {None}, NEW expected \in Revisions \cup {None},
         NEW answer \in Answers, Answer(op, k, expected, answer)
  PROVE  reply' \in Reply
  BY DEF Answer, Reply

\* Nothing behind the mutex is touched.
LEMMA UntouchedOK ==
  ASSUME IndInv, UNCHANGED <<entries, expirations>>, poisoned' \in BOOLEAN,
         clock' \in Times, reply' \in Reply
  PROVE  IndInv'
  <1>1. Behind' = Behind
    BY DEF Behind
  <1>2. StateOK(Behind')
    BY <1>1 DEF IndInv
  <1> QED
    BY <1>2 DEF IndInv, StateOK, Behind, Occupied

\* What compare_exchange answers, and the state it leaves.
LEMMA ExchangeCases ==
  ASSUME NEW k \in Keys, NEW expected, NEW e, CompareExchange(k, expected, e)
  PROVE  \/ /\ Revision(purge_expired(clock).entries[k]) = expected
            /\ ~Full(purge_expired(clock), k)
            /\ Unlock(insert(purge_expired(clock), k, e))
            /\ Answer("compare_exchange", k, expected, "true")
         \/ /\ Unlock(purge_expired(clock))
            /\ \E answer \in Answers \ {"true"} :
                 Answer("compare_exchange", k, expected, answer)
  BY DEF CompareExchange, Answers

\* What clear answers, and the state it leaves.
LEMMA ClearCases ==
  ASSUME NEW k \in Keys, NEW expected, Clear(k, expected)
  PROVE  \/ /\ Revision(purge_expired(clock).entries[k]) = expected
            /\ expected # None
            /\ Unlock(remove(purge_expired(clock), k))
            /\ Answer("clear", k, expected, "true")
         \/ /\ Revision(purge_expired(clock).entries[k]) = expected
            /\ expected = None
            /\ Unlock(purge_expired(clock))
            /\ Answer("clear", k, expected, "true")
         \/ /\ Unlock(purge_expired(clock))
            /\ Answer("clear", k, expected, "false")
  BY DEF Clear

\* Every step keeps the inductive invariant.
LEMMA Inductive == IndInv /\ [Next]_vars => IndInv'
  <1> SUFFICES ASSUME IndInv, [Next]_vars PROVE IndInv'
    OBVIOUS
  <1>0. clock \in Times
    BY DEF IndInv
  <1>p. StateOK(purge_expired(clock))
    BY <1>0, PurgeOK
  <1>1. CASE Time
    BY <1>1, UntouchedOK DEF Time, IndInv
  <1>2. CASE ClockPanics
    BY <1>2, UntouchedOK DEF ClockPanics, IndInv
  <1>3. CASE Purge
    BY <1>p, <1>3, UnlockOK, AnswerTyped DEF Purge, Answers
  <1>4. ASSUME NEW k \in Keys, Find(k) PROVE IndInv'
    BY <1>p, <1>4, UnlockOK, AnswerTyped DEF Find, Answers
  <1>5. ASSUME NEW k \in Keys, NEW expected \in Revisions \cup {None},
               NEW e \in Entry, CompareExchange(k, expected, e)
        PROVE  IndInv'
    <2>1. CASE /\ ~Full(purge_expired(clock), k)
               /\ Unlock(insert(purge_expired(clock), k, e))
               /\ Answer("compare_exchange", k, expected, "true")
      <3>1. StateOK(insert(purge_expired(clock), k, e))
        BY <1>p, <2>1, InsertOK
      <3>2. reply' \in Reply
        BY <2>1, AnswerTyped DEF Answers
      <3> QED
        BY <2>1, <3>1, <3>2, UnlockOK
    <2>2. CASE /\ Unlock(purge_expired(clock))
               /\ \E answer \in Answers \ {"true"} :
                    Answer("compare_exchange", k, expected, answer)
      BY <1>p, <2>2, UnlockOK, AnswerTyped
    <2> QED
      BY <1>5, <2>1, <2>2, ExchangeCases
  <1>6. ASSUME NEW k \in Keys, NEW expected \in Revisions \cup {None},
               CompareExchangeOtherKey(k, expected)
        PROVE  IndInv'
    <2>1. reply' \in Reply
      BY <1>6, AnswerTyped DEF CompareExchangeOtherKey, Answers
    <2> QED
      BY <1>6, <2>1, UntouchedOK DEF CompareExchangeOtherKey, IndInv
  <1>7. ASSUME NEW k \in Keys, NEW expected \in Revisions \cup {None},
               Clear(k, expected)
        PROVE  IndInv'
    <2>1. StateOK(remove(purge_expired(clock), k))
      BY <1>p, RemoveOK
    <2>2. reply' \in Reply
      BY <1>7, ClearCases, AnswerTyped DEF Answers
    <2> QED
      BY <1>p, <1>7, <2>1, <2>2, ClearCases, UnlockOK
  <1>8. ASSUME NEW op \in {"find", "compare_exchange", "clear", "purge"},
               NEW k \in Keys \cup {None},
               NEW expected \in Revisions \cup {None},
               Refused(op, k, expected)
        PROVE  IndInv'
    <2>1. reply' \in Reply
      BY <1>8, AnswerTyped DEF Refused, Answers
    <2> QED
      BY <1>8, <2>1, UntouchedOK DEF Refused, IndInv
  <1>9. CASE UNCHANGED vars
    BY <1>9, UntouchedOK DEF vars, IndInv
  <1> QED
    BY <1>1, <1>2, <1>3, <1>4, <1>5, <1>6, <1>7, <1>8, <1>9 DEF Next

\* The empty store satisfies the invariant.
LEMMA Initially == Init => IndInv
  <1> SUFFICES ASSUME Init PROVE IndInv
    OBVIOUS
  <1>1. Occupied(Behind) = {}
    BY DEF Init, Occupied, Behind
  <1>2. IsFiniteSet(Occupied(Behind)) /\ Cardinality(Occupied(Behind)) = 0
    BY <1>1, FS_EmptySet
  <1>3. StateOK(Behind)
    BY <1>2, StoreAssumption DEF StateOK, Init, Behind
  <1> QED
    BY <1>3 DEF IndInv, Init, Reply, Answers

\* The invariant holds throughout.
THEOREM Invariant == Spec => []IndInv
  BY Initially, Inductive, PTL DEF Spec

\* Every variable of the store keeps its type.
THEOREM TypeCorrect == Spec => []TypeOK
  BY Invariant, Consequences, PTL

\* The expiry index of MemoryState is exact after any sequence of updates,
\* clears and purges.
THEOREM IndexExact == Spec => []IndexMatchesEntries
  BY Invariant, Consequences, PTL

\* The store holds at most capacity entries.
THEOREM CapacityKept == Spec => []WithinCapacity
  BY Invariant, Consequences, PTL

-----------------------------------------------------------------------------
(* The contract of AuthRateLimitStore.                                     *)

\* A purge gives up expired entries only.
LEMMA PurgeReclaims ==
  ASSUME IndInv
  PROVE  /\ Due(clock) \in SUBSET Contract!Expired
         /\ purge_expired(clock).entries = Contract!Without(Due(clock))
  <1>1. clock \in Times
    BY DEF IndInv
  <1> QED
    BY <1>1, PurgeExact DEF Contract!Expired, Contract!Without, purge_expired

\* An operation that leaves the purged entries and does not answer true is a
\* step of the contract.
LEMMA ReclaimStep ==
  ASSUME IndInv, entries' = purge_expired(clock).entries,
         reply'.answer # "true", clock' = clock
  PROVE  Contract!Operation
  BY PurgeReclaims DEF Contract!Operation, Contract!Reclaim

\* So is one that changes nothing.
LEMMA NothingStep ==
  ASSUME IndInv, entries' = entries, reply'.answer # "true", clock' = clock
  PROVE  Contract!Operation
  <1>1. entries \in [Keys -> Entry \cup {None}]
    BY DEF IndInv, StateOK, Behind
  <1>2. entries = Contract!Without({})
    BY <1>1 DEF Contract!Without
  <1> QED
    BY <1>2 DEF Contract!Operation, Contract!Reclaim

\* Every step of the store is a step of the contract.
LEMMA ContractStep ==
  ASSUME IndInv, [Next]_vars PROVE [Contract!Next]_(Contract!svars)
  <1> DEFINE p == purge_expired(clock)
             kept == Contract!Without(Due(clock))
  <1>0. clock \in Times
    BY DEF IndInv
  <1>p. /\ StateOK(p)
        /\ p.entries = kept
        /\ Due(clock) \in SUBSET Contract!Expired
    BY <1>0, PurgeOK, PurgeReclaims
  <1>1. CASE Time
    BY <1>1 DEF Time, Contract!Next, Contract!Time
  <1>2. CASE ClockPanics
    BY <1>2 DEF ClockPanics, Contract!svars
  <1>3. CASE Purge
    BY <1>3, ReclaimStep DEF Purge, Unlock, Answer, Contract!Next
  <1>4. ASSUME NEW k \in Keys, Find(k) PROVE Contract!Next
    BY <1>4, ReclaimStep DEF Find, Unlock, Answer, Contract!Next
  <1>5. ASSUME NEW k \in Keys, NEW expected \in Revisions \cup {None},
               NEW e \in Entry, CompareExchange(k, expected, e)
        PROVE  Contract!Next
    <2>1. CASE /\ Revision(p.entries[k]) = expected
               /\ ~Full(p, k)
               /\ Unlock(insert(p, k, e))
               /\ Answer("compare_exchange", k, expected, "true")
      <3>1. insert(p, k, e).entries = [kept EXCEPT ![k] = e]
        BY <1>p, <2>1, InsertOK
      <3>2. /\ entries' = [kept EXCEPT ![k] = e]
            /\ clock' = clock
        BY <2>1, <3>1 DEF Unlock
      <3>3. Contract!Revision(kept[k]) = expected
        BY <1>p, <2>1 DEF Revision, Contract!Revision
      <3>4. Contract!CompareExchange(k, expected, e, kept)
        BY <2>1, <3>2, <3>3 DEF Contract!CompareExchange, Answer
      <3>5. e \in Contract!Entry
        BY DEF Entry, Contract!Entry
      <3> QED
        BY <1>p, <3>2, <3>4, <3>5 DEF Contract!Next, Contract!Operation
    <2>2. CASE /\ Unlock(p)
               /\ \E answer \in Answers \ {"true"} :
                    Answer("compare_exchange", k, expected, answer)
      BY <2>2, ReclaimStep DEF Unlock, Answer, Contract!Next
    <2> QED
      BY <1>5, <2>1, <2>2, ExchangeCases
  <1>6. ASSUME NEW k \in Keys, NEW expected \in Revisions \cup {None},
               CompareExchangeOtherKey(k, expected)
        PROVE  Contract!Next
    BY <1>6, NothingStep DEF CompareExchangeOtherKey, Answer, Contract!Next
  <1>7. ASSUME NEW k \in Keys, NEW expected \in Revisions \cup {None},
               Clear(k, expected)
        PROVE  Contract!Next
    <2>1. ASSUME entries' = [kept EXCEPT ![k] = None], clock' = clock,
                 Revision(p.entries[k]) = expected,
                 Answer("clear", k, expected, "true")
          PROVE  Contract!Next
      <3>1. Contract!Clear(k, expected, kept)
        BY <1>p, <2>1
        DEF Contract!Clear, Contract!Revision, Revision, Answer
      <3> QED
        BY <1>p, <2>1, <3>1 DEF Contract!Next, Contract!Operation
    <2>2. CASE /\ Revision(p.entries[k]) = expected
               /\ Unlock(remove(p, k))
               /\ Answer("clear", k, expected, "true")
      BY <1>p, <2>1, <2>2, RemoveOK DEF Unlock
    <2>3. CASE /\ Revision(p.entries[k]) = expected
               /\ expected = None
               /\ Unlock(p)
               /\ Answer("clear", k, expected, "true")
      <3>1. p.entries[k] = None
        BY <1>p, <2>3, StoreAssumption DEF StateOK, Revision, Entry
      <3>2. kept = [kept EXCEPT ![k] = None]
        BY <1>p, <3>1 DEF StateOK
      <3> QED
        BY <1>p, <2>1, <2>3, <3>2 DEF Unlock
    <2>4. CASE Unlock(p) /\ Answer("clear", k, expected, "false")
      BY <2>4, ReclaimStep DEF Unlock, Answer, Contract!Next
    <2> QED
      BY <1>7, <2>2, <2>3, <2>4, ClearCases
  <1>8. ASSUME NEW op, NEW k, NEW expected, Refused(op, k, expected)
        PROVE  Contract!Next
    BY <1>8, NothingStep DEF Refused, Answer, Contract!Next
  <1>9. CASE UNCHANGED vars
    BY <1>9 DEF vars, Contract!svars
  <1> QED
    BY <1>1, <1>2, <1>3, <1>4, <1>5, <1>6, <1>7, <1>8, <1>9 DEF Next

\* The in-memory store implements CounterStore, the contract that the
\* abuse-protection engine relies on: a live entry changes only through an
\* operation that named its revision.
THEOREM Implements == Spec => KeepsContract
  <1>1. Init => Contract!Init
    BY DEF Init, Contract!Init, Contract!NoReply
  <1> QED
    BY <1>1, Invariant, ContractStep, PTL DEF Spec, KeepsContract, Contract!Spec
=============================================================================
