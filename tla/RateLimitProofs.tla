------------------------- MODULE RateLimitProofs -------------------------
(***************************************************************************)
(* Theorems about abuse protection, for every number of calls, keys and    *)
(* users and every policy that AuthRateLimitPolicy::validate accepts.      *)
(*                                                                         *)
(* The argument rests on the revisions.  A stored revision is older than   *)
(* the next one handed out, so a snapshot or a permit whose revision still *)
(* matches stands for exactly what is stored: a swap that wins adds its    *)
(* own attempt to the count it read, and a clear removes only what it saw. *)
(*                                                                         *)
(* The last section is about the worker pool the password login waits for. *)
(***************************************************************************)
EXTENDS RateLimit, PasswordWork, FiniteSetTheorems, TLAPS

-----------------------------------------------------------------------------
(* The inductive invariant.                                                *)

KeysIn(s) == {s[i] : i \in DOMAIN s}

Distinct(s) == \A i, j \in DOMAIN s : s[i] = s[j] => i = j

Looping == {"reject", "record", "cas", "clear"}

Untouched == {"reject", "lookup", "verify", "clear", "current", "issue",
              "Locked", "Throttled", "Unavailable", "Changed", "Session"}

\* A call knows what it was asked, and the keys it has still to do are keys of
\* its request.
RequestOf(c) ==
    /\ pc[c] # "idle" =>
         /\ request[c] # None
         /\ request[c].kind = "login" =>
              /\ request[c].keys \in LoginKeys
              /\ request[c].user \in Users
              /\ pc[c] \notin {"Admitted", "Denied"}
         /\ request[c].kind = "request" =>
              /\ request[c].keys \in RequestKeys
              /\ pc[c] \in {"record", "cas", "Admitted", "Denied",
                            "Contention", "Failed"}
         /\ KeysIn(todo[c]) \subseteq KeysIn(request[c].keys)
    /\ pc[c] = "idle" => request[c] = None
    /\ pc[c] \in Looping => todo[c] # <<>>
    /\ Distinct(todo[c])
    /\ pc[c] = "cas" => tries[c] < MaxTries
    /\ now[c] \in 0..clock

\* A call is charged for the keys it has done, and for none before it records.
ChargeOf(c) ==
    /\ request[c] = None => charged[c] = {}
    /\ request[c] # None => charged[c] \subseteq KeysIn(request[c].keys)
    /\ pc[c] \in {"record", "cas"} =>
         /\ charged[c] \cup KeysIn(todo[c]) = KeysIn(request[c].keys)
         /\ charged[c] \cap KeysIn(todo[c]) = {}
    /\ pc[c] \in Untouched => charged[c] = {}
    /\ pc[c] \in {"Invalid", "Disabled", "Admitted"} =>
         charged[c] = KeysIn(request[c].keys)

\* A snapshot whose revision is still stored is what is stored.
SnapOf(c) ==
    /\ snap[c] # None => snap[c].revision < fresh
    /\ pc[c] = "cas" =>
         /\ RevisionOf(store[Head(todo[c])]) = RevisionOf(snap[c]) =>
              store[Head(todo[c])] = snap[c]
         /\ request[c].kind = "request" => ~Active(snap[c], now[c])

\* A permit whose revision is still stored knows all that is counted.
PermitOf(c) ==
    \A k \in Keys :
      permit[c][k] # None =>
        /\ permit[c][k] < fresh
        /\ RevisionOf(store[k]) = permit[c][k] => counted[k] \subseteq known[c][k]

\* After the verification the user's record is a witness, and the password is
\* the one that was verified.
SessionOf(c) ==
    /\ pc[c] \in {"verify", "clear", "current", "issue"} => found[c] # None
    /\ pc[c] \in {"clear", "current", "issue"} =>
         /\ found[c].hash = request[c].password
         /\ users[request[c].user] \in witness[c]
    /\ pc[c] \in {"issue", "Session"} =>
         \E r \in witness[c] : r.status = "enabled" /\ r.hash = request[c].password

CallsInv ==
    \A c \in Calls :
      RequestOf(c) /\ ChargeOf(c) /\ SnapOf(c) /\ PermitOf(c) /\ SessionOf(c)

\* Stored revisions are old, and who is counted was charged.
StoreInv ==
    \A k \in Keys :
      /\ store[k] # None => store[k].revision < fresh
      /\ \A c \in counted[k] : k \in charged[c]

\* The requests of the present moment that were charged to a key.
Burst(k) == {c \in Calls : /\ request[c] # None
                           /\ request[c].kind = "request"
                           /\ now[c] = clock
                           /\ k \in charged[c]}

\* Once one of them is charged, the key's state outlives the moment and holds
\* at least as many attempts; when enough are, it shuts out the others.
BurstOf(k) ==
    Burst(k) # {} =>
      /\ store[k] # None
      /\ store[k].state.expires_at > clock
      /\ store[k].state.first_attempt_at + Window > clock
      /\ Cardinality(Burst(k)) <= BackoffAfter
      /\ Cardinality(Burst(k)) <= store[k].state.attempts
      /\ Active(store[k], clock) \/ Cardinality(Burst(k)) < BackoffAfter

BurstInv == BaseBackoff > 0 /\ Lockout > 0 => \A k \in Keys : BurstOf(k)

IndInv ==
    /\ TypeOK
    /\ CallsInv
    /\ StoreInv
    /\ NoFailureLost
    /\ BurstInv

-----------------------------------------------------------------------------
(* Keys, times and counters.                                               *)

\* Doing the first key of a list leaves the others.
LEMMA FirstKey ==
  ASSUME NEW s \in Seq(Keys), s # <<>>
  PROVE  /\ Head(s) \in Keys
         /\ Tail(s) \in Seq(Keys)
         /\ Head(s) \in KeysIn(s)
         /\ KeysIn(s) = {Head(s)} \cup KeysIn(Tail(s))
         /\ Distinct(s) => Distinct(Tail(s)) /\ Head(s) \notin KeysIn(Tail(s))
         /\ Len(s) = 1 => KeysIn(Tail(s)) = {}
         /\ Len(s) # 1 => Tail(s) # <<>>
  <1>1. /\ Len(s) \in Nat /\ Len(s) >= 1 /\ DOMAIN s = 1..Len(s)
        /\ Head(s) = s[1] /\ s[1] \in Keys
        /\ Tail(s) \in Seq(Keys)
        /\ DOMAIN Tail(s) = 1..(Len(s) - 1)
        /\ \A i \in 1..(Len(s) - 1) : Tail(s)[i] = s[i + 1]
        /\ Len(Tail(s)) = Len(s) - 1
    OBVIOUS
  <1>2. KeysIn(s) = {Head(s)} \cup KeysIn(Tail(s))
    <2>1. ASSUME NEW i \in 1..Len(s), i # 1
          PROVE  i - 1 \in 1..(Len(s) - 1) /\ s[i] = Tail(s)[i - 1]
      BY <1>1, <2>1
    <2>2. ASSUME NEW i \in 1..(Len(s) - 1)
          PROVE  i + 1 \in 1..Len(s) /\ Tail(s)[i] = s[i + 1]
      BY <1>1, <2>2
    <2>3. 1 \in 1..Len(s)
      BY <1>1
    <2>4. KeysIn(s) = {s[i] : i \in 1..Len(s)}
      BY <1>1 DEF KeysIn
    <2>5. KeysIn(Tail(s)) = {Tail(s)[i] : i \in 1..(Len(s) - 1)}
      BY <1>1 DEF KeysIn
    <2>6. \A x \in KeysIn(s) : x = Head(s) \/ x \in KeysIn(Tail(s))
      BY <1>1, <2>1, <2>4, <2>5, Zenon
    <2>7. \A x \in KeysIn(Tail(s)) : x \in KeysIn(s)
      BY <2>2, <2>4, <2>5, Zenon
    <2>8. Head(s) \in KeysIn(s)
      BY <1>1, <2>3, <2>4, Zenon
    <2> QED
      BY <2>6, <2>7, <2>8
  <1>3. ASSUME Distinct(s)
        PROVE  Distinct(Tail(s)) /\ Head(s) \notin KeysIn(Tail(s))
    <2>1. \A i, j \in 1..(Len(s) - 1) :
            /\ i + 1 \in 1..Len(s) /\ j + 1 \in 1..Len(s) /\ 1 \in 1..Len(s)
            /\ i + 1 # 1
            /\ i + 1 = j + 1 => i = j
      BY <1>1
    <2> QED
      BY <1>1, <1>3, <2>1 DEF Distinct, KeysIn
  <1>4. Len(s) = 1 => KeysIn(Tail(s)) = {}
    BY <1>1 DEF KeysIn
  <1>5. Len(s) # 1 => Tail(s) # <<>>
    <2>1. Len(s) # 1 => Len(Tail(s)) # 0
      BY <1>1
    <2>2. Len(<<>>) = 0
      OBVIOUS
    <2> QED
      BY <2>1, <2>2, Zenon
  <1> QED
    BY <1>1, <1>2, <1>3, <1>4, <1>5

\* There is nothing in an empty list.
LEMMA NoKeys == KeysIn(<<>>) = {} /\ Distinct(<<>>) /\ <<>> \in Seq(Keys)
  BY DEF KeysIn, Distinct

\* The keys of a request are different from each other.
LEMMA GivenKeys ==
  ASSUME NEW s \in LoginKeys \cup RequestKeys
  PROVE  s \in Seq(Keys) /\ Distinct(s) /\ KeysIn(s) \subseteq Keys
  BY ModelAssumption DEF Distinct, KeysIn

\* The code doubles at most 30 times, and a doubled one is positive.
LEMMA Doubling == ASSUME NEW n \in 0..30 PROVE 2 ^ n \in Int /\ 2 ^ n >= 1
  <1>1. \/ n = 0 \/ n = 1 \/ n = 2 \/ n = 3 \/ n = 4 \/ n = 5 \/ n = 6 \/ n = 7
        \/ n = 8 \/ n = 9 \/ n = 10 \/ n = 11 \/ n = 12 \/ n = 13 \/ n = 14
        \/ n = 15 \/ n = 16 \/ n = 17 \/ n = 18 \/ n = 19 \/ n = 20 \/ n = 21
        \/ n = 22 \/ n = 23 \/ n = 24 \/ n = 25 \/ n = 26 \/ n = 27 \/ n = 28
        \/ n = 29 \/ n = 30
    OBVIOUS
  <1>2. /\ 2^0 >= 1 /\ 2^1 >= 1 /\ 2^2 >= 1 /\ 2^3 >= 1 /\ 2^4 >= 1 /\ 2^5 >= 1
        /\ 2^6 >= 1 /\ 2^7 >= 1 /\ 2^8 >= 1 /\ 2^9 >= 1 /\ 2^10 >= 1 /\ 2^11 >= 1
        /\ 2^12 >= 1 /\ 2^13 >= 1 /\ 2^14 >= 1 /\ 2^15 >= 1 /\ 2^16 >= 1
        /\ 2^17 >= 1 /\ 2^18 >= 1 /\ 2^19 >= 1 /\ 2^20 >= 1 /\ 2^21 >= 1
        /\ 2^22 >= 1 /\ 2^23 >= 1 /\ 2^24 >= 1 /\ 2^25 >= 1 /\ 2^26 >= 1
        /\ 2^27 >= 1 /\ 2^28 >= 1 /\ 2^29 >= 1 /\ 2^30 >= 1
    OBVIOUS
  <1>3. 2 ^ n >= 1
    BY <1>1, <1>2, Zenon
  <1> QED
    BY <1>3

\* A backoff is a duration, and there is one when the base is not zero.
LEMMA Backoff ==
  ASSUME NEW a \in Nat, a >= BackoffAfter
  PROVE  /\ backoff_duration(a) \in Nat
         /\ BaseBackoff > 0 => backoff_duration(a) > 0
  <1>0. /\ BaseBackoff \in Nat /\ MaxBackoff \in Nat /\ BaseBackoff <= MaxBackoff
        /\ BackoffAfter \in Nat
    BY PolicyAssumption DEF validate
  <1>1. AtMost(a - BackoffAfter, 30) \in 0..30
    BY <1>0 DEF AtMost
  <1>2. PICK p \in Int : p = 2 ^ AtMost(a - BackoffAfter, 30) /\ p >= 1
    BY <1>1, Doubling
  <1>3. BaseBackoff * p \in Int /\ BaseBackoff * p >= BaseBackoff
    BY <1>0, <1>2
  <1>4. backoff_duration(a) = AtMost(BaseBackoff * p, MaxBackoff)
    BY <1>2 DEF backoff_duration
  <1> QED
    BY <1>0, <1>3, <1>4 DEF AtMost

\* What recording an attempt makes of a counter: the next count, a life beyond
\* the moment of the attempt and, from the threshold on, a control in force.
LEMMA NextState ==
  ASSUME NEW e \in Snapshot \cup {None}, NEW t \in Nat,
         NEW n, n = next_rate_limit_state(e, t)
  PROVE  /\ n \in State
         /\ n.attempts = IF Resets(e, t) THEN 1
                         ELSE AtMost(e.state.attempts + 1, AttemptsMax)
         /\ n.first_attempt_at = IF Resets(e, t) THEN t
                                 ELSE e.state.first_attempt_at
         /\ n.expires_at > t
         /\ n.expires_at >= n.first_attempt_at + Window
         /\ n.attempts >= BackoffAfter /\ BaseBackoff > 0 /\ Lockout > 0 =>
              Control(n, t) # "open"
  <1>0. /\ Window \in Nat /\ Window >= 1 /\ StateTTL \in Nat /\ StateTTL >= 1
        /\ Lockout \in Nat /\ BackoffAfter \in Nat /\ BackoffAfter >= 1
        /\ LockAfter \in Nat /\ BackoffAfter <= LockAfter
        /\ AttemptsMax \in Nat /\ AttemptsMax >= 1
        /\ None \notin Int
    BY PolicyAssumption, ModelAssumption DEF validate
  <1> DEFINE a == IF Resets(e, t) THEN 1 ELSE AtMost(e.state.attempts + 1, AttemptsMax)
             f == IF Resets(e, t) THEN t ELSE e.state.first_attempt_at
             l == IF a >= LockAfter THEN t + Lockout ELSE None
             b == IF a >= BackoffAfter /\ a < LockAfter
                  THEN t + backoff_duration(a) ELSE None
             x == Latest(Latest(AtLeast(t + StateTTL, f + Window), b), l)
  <1>1. n = [attempts |-> a, first_attempt_at |-> f, backoff_until |-> b,
             locked_until |-> l, expires_at |-> x]
    BY DEF next_rate_limit_state, saturating_add
  <1>2. ~Resets(e, t) => e.state \in State
    BY DEF Resets, Snapshot
  <1>3. a \in 1..AttemptsMax
    <2>1. ~Resets(e, t) => e.state.attempts \in 1..AttemptsMax
      BY <1>2 DEF State
    <2> QED
      BY <1>0, <2>1 DEF AtMost
  <1>4. f \in Int
    <2>1. ~Resets(e, t) => e.state.first_attempt_at \in Int
      BY <1>2 DEF State
    <2> QED
      BY <2>1
  <1> HIDE DEF a, f
  <1>5. a >= BackoffAfter => /\ backoff_duration(a) \in Nat
                             /\ BaseBackoff > 0 => backoff_duration(a) > 0
    BY <1>0, <1>3, Backoff
  <1>6. l \in Int \cup {None} /\ (a >= LockAfter /\ Lockout > 0 => l # None /\ l > t)
    BY <1>0, <1>3
  <1>7. /\ b \in Int \cup {None}
        /\ a >= BackoffAfter /\ a < LockAfter /\ BaseBackoff > 0 => b # None /\ b > t
    BY <1>0, <1>3, <1>5
  <1> HIDE DEF l, b
  <1>8. x \in Int /\ x > t /\ x >= f + Window
    BY <1>0, <1>4, <1>6, <1>7 DEF Latest, AtLeast
  <1> HIDE DEF x
  <1>9. n \in State
    BY <1>1, <1>3, <1>4, <1>6, <1>7, <1>8 DEF State
  <1>10. a >= BackoffAfter /\ BaseBackoff > 0 /\ Lockout > 0 => Control(n, t) # "open"
    BY <1>0, <1>1, <1>3, <1>6, <1>7, <1>8 DEF Control, After
  <1> QED
    BY <1>1, <1>8, <1>9, <1>10 DEF a, f

-----------------------------------------------------------------------------
(* Type correctness.                                                       *)

\* The locals keep their types when a call returns.
LEMMA ReturnTyped ==
  ASSUME TypeOK, NEW c \in Calls, NEW result \in Results, Return(c, result),
         world' = world, counters' = counters, witness' = witness
  PROVE  TypeOK'
  <1>1. NoPermit \in [Keys -> Nat \cup {None}] /\ NoneKnown \in [Keys -> SUBSET Calls]
    BY DEF NoPermit, NoneKnown
  <1>2. 0 \in 0..MaxTries
    BY ModelAssumption
  <1> QED
    BY <1>1, <1>2, NoKeys DEF TypeOK, Return, Go, world, counters

\* The revision of what is stored is a number.
LEMMA Revision ==
  ASSUME NEW e \in Snapshot \cup {None}
  PROVE  /\ RevisionOf(e) \in Nat \cup {None}
         /\ RevisionOf(e) = None <=> e = None
         /\ e # None => RevisionOf(e) = e.revision /\ e.revision \in Nat
  BY ModelAssumption, RecordAssumption DEF RevisionOf, Snapshot

\* Which key a call is at, in one of its loops.
LEMMA KeyAt ==
  ASSUME TypeOK, NEW c \in Calls, RequestOf(c), pc[c] \in Looping
  PROVE  /\ todo[c] # <<>>
         /\ Head(todo[c]) \in Keys
         /\ Tail(todo[c]) \in Seq(Keys)
         /\ store[Head(todo[c])] \in Snapshot \cup {None}
         /\ pc[c] # "idle"
  BY FirstKey DEF TypeOK, RequestOf, Looping

\* Answers of a call that has recorded its attempt.
LEMMA Verdicts == ASSUME NEW c PROVE Verdict(c) \in {"Admitted", "Disabled", "Invalid"}
  BY DEF Verdict

\* A swap that wins writes the successor of what is stored.
LEMMA CasEffect ==
  ASSUME TypeOK, NEW c \in Calls, RequestOf(c), SnapOf(c), CasWon(c),
         NEW k, k = Head(todo[c])
  PROVE  /\ k \in Keys
         /\ pc[c] = "cas"
         /\ store[k] = snap[c]
         /\ store'[k].state = next_rate_limit_state(store[k], now[c])
         /\ store'[k].revision = fresh
         /\ store'[k] \in Snapshot
         /\ store' = [store EXCEPT ![k] = store'[k]]
         /\ fresh' = fresh + 1
         /\ counted' = [counted EXCEPT ![k] =
              IF Resets(store[k], now[c]) THEN {c} ELSE counted[k] \cup {c}]
         /\ charged' = [charged EXCEPT ![c] = charged[c] \cup {k}]
         /\ UNCHANGED <<clock, users, updates, witness, request, now>>
  <1>1. pc[c] = "cas" /\ k \in Keys
    BY KeyAt DEF CasWon, Looping
  <1> DEFINE n == next_rate_limit_state(snap[c], now[c])
  <1>2. /\ RevisionOf(store[k]) = RevisionOf(snap[c])
        /\ store' = [store EXCEPT ![k] = [state |-> n, revision |-> fresh]]
    BY DEF CasWon, compare_exchange_auth_rate_limit_state
  <1>3. store[k] = snap[c]
    BY <1>1, <1>2 DEF SnapOf
  <1>4. now[c] \in Nat /\ snap[c] \in Snapshot \cup {None} /\ fresh \in Nat
    BY DEF TypeOK, RequestOf
  <1>5. n \in State
    BY <1>4, NextState
  <1>6. store'[k] = [state |-> n, revision |-> fresh]
    BY <1>1, <1>2 DEF TypeOK
  <1> HIDE DEF n
  <1>7. store'[k] \in Snapshot /\ store'[k].state = n /\ store'[k].revision = fresh
    BY <1>4, <1>5, <1>6 DEF Snapshot
  <1>8. /\ UNCHANGED <<clock, users, updates, witness, request, now>>
        /\ fresh' = fresh + 1
        /\ counted' = [counted EXCEPT ![k] =
              IF Resets(store[k], now[c]) THEN {c} ELSE counted[k] \cup {c}]
        /\ charged' = [charged EXCEPT ![c] = charged[c] \cup {k}]
    BY DEF CasWon, world, Return
  <1> QED
    BY <1>1, <1>2, <1>3, <1>6, <1>7, <1>8 DEF n

\* Every step keeps the types.
LEMMA TypeStep == ASSUME IndInv, [Next]_vars PROVE TypeOK'
  <1>0. TypeOK /\ \A c \in Calls : RequestOf(c) /\ SnapOf(c) /\ SessionOf(c)
    BY DEF IndInv, CallsInv
  <1>1. CASE UNCHANGED vars
    BY <1>0, <1>1 DEF TypeOK, vars, world, counters, locals
  <1>2. CASE Tick
    BY <1>0, <1>2 DEF TypeOK, Tick, counters, locals
  <1>3. ASSUME NEW u \in Users, UpdateUser(u) PROVE TypeOK'
    <2>1. PICK r \in UserRecord :
            /\ users' = [users EXCEPT ![u] = r]
            /\ witness' = [c \in Calls |->
                 IF pc[c] \in {"clear", "current", "issue"} /\ request[c].user = u
                 THEN witness[c] \cup {r}
                 ELSE witness[c]]
      BY <1>3 DEF UpdateUser
    <2> QED
      BY <1>0, <1>3, <2>1 DEF TypeOK, UpdateUser, counters, locals
  <1>4. ASSUME NEW k \in Keys, Reclaim(k) PROVE TypeOK'
    BY <1>0, <1>4 DEF TypeOK, Reclaim, world, locals
  <1>5. ASSUME NEW c \in Calls, NEW r \in Request, NEW loop \in Steps \cup Results,
               NEW without \in Steps \cup Results, Begin(c, r, loop, without)
        PROVE  TypeOK'
    <2>1. r.keys \in Seq(Keys)
      BY DEF Request
    <2> QED
      BY <1>0, <1>5, <2>1 DEF TypeOK, Begin, Go, world, counters
  <1>6. ASSUME NEW c \in Calls, BeginLogin(c) PROVE TypeOK'
    <2>1. PICK keys \in LoginKeys, u \in Users, p \in Hashes :
            Begin(c, LoginRequest(keys, u, p), "reject", "lookup")
      BY <1>6 DEF BeginLogin
    <2>2. LoginRequest(keys, u, p) \in Request
      BY ModelAssumption DEF LoginRequest, Request
    <2> QED
      BY <1>5, <2>1, <2>2 DEF Steps
  <1>7. ASSUME NEW c \in Calls, BeginRequest(c) PROVE TypeOK'
    <2>1. PICK keys \in RequestKeys :
            Begin(c, AdmissionRequest(keys), "record", "Admitted")
      BY <1>7 DEF BeginRequest
    <2>2. AdmissionRequest(keys) \in Request
      BY ModelAssumption DEF AdmissionRequest, Request
    <2> QED
      BY <1>5, <2>1, <2>2 DEF Steps, Results
  <1>8. ASSUME NEW c \in Calls, RejectRead(c) PROVE TypeOK'
    <2>1. /\ Head(todo[c]) \in Keys /\ Tail(todo[c]) \in Seq(Keys)
          /\ RevisionOf(store[Head(todo[c])]) \in Nat \cup {None}
      BY <1>0, <1>8, KeyAt, Revision DEF RejectRead, Looping
    <2>2. Worst(c) \in {"open", "throttled", "locked"}
      BY DEF Worst
    <2>3. /\ permit' = [permit EXCEPT ![c][Head(todo[c])] =
                          RevisionOf(store[Head(todo[c])])]
          /\ known' = [known EXCEPT ![c][Head(todo[c])] = counted[Head(todo[c])]]
      BY <1>8 DEF RejectRead
    <2>4. permit' \in [Calls -> [Keys -> Nat \cup {None}]]
      BY <1>0, <2>1, <2>3 DEF TypeOK
    <2>5. known' \in [Calls -> [Keys -> SUBSET Calls]]
      BY <1>0, <2>1, <2>3 DEF TypeOK
    <2>6. /\ todo' \in [Calls -> Seq(Keys)]
          /\ hit' \in [Calls -> {"open", "throttled", "locked"}]
          /\ pc' \in [Calls -> {"idle"} \cup Steps \cup Results]
      BY <1>0, <1>8, <2>1, <2>2 DEF TypeOK, RejectRead, Go, Steps
    <2> QED
      BY <1>0, <1>8, <2>4, <2>5, <2>6 DEF TypeOK, RejectRead, world, counters
  <1>9. ASSUME NEW c \in Calls,
               RejectDenied(c) \/ VerifyUnavailable(c) \/ RecordDenied(c)
               \/ RecordExhausted(c) \/ CurrentRefused(c) \/ IssueSession(c)
               \/ Fail(c)
        PROVE  TypeOK'
    BY <1>0, <1>9, ReturnTyped
    DEF RejectDenied, VerifyUnavailable, RecordDenied, RecordExhausted,
        CurrentRefused, IssueSession, Fail, Results
  <1>10. ASSUME NEW c \in Calls, Lookup(c) PROVE TypeOK'
    <2>1. users[request[c].user] \in UserRecord
      BY <1>0, <1>10 DEF Lookup, RequestOf, TypeOK, Request
    <2> QED
      BY <1>0, <1>10, <2>1 DEF TypeOK, Lookup, Go, Steps, world, counters
  <1>11. ASSUME NEW c \in Calls, pc[c] # "idle" PROVE request[c].keys \in Seq(Keys)
    BY <1>0, <1>11 DEF RequestOf, TypeOK, Request
  <1>12. ASSUME NEW c \in Calls, VerifyPassed(c) PROVE TypeOK'
    <2>1. users[request[c].user] \in UserRecord /\ request[c].keys \in Seq(Keys)
      BY <1>0, <1>11, <1>12 DEF VerifyPassed, RequestOf, TypeOK, Request
    <2> QED
      BY <1>0, <1>12, <2>1 DEF TypeOK, VerifyPassed, Go, Steps, world, counters
  <1>13. ASSUME NEW c \in Calls, VerifyFailed(c) PROVE TypeOK'
    <2>1. CASE request[c].keys = <<>>
      <3>1. Verdict(c) \in Results
        BY Verdicts DEF Results
      <3> QED
        BY <1>0, <1>13, <2>1, <3>1, ReturnTyped DEF VerifyFailed
    <2>2. CASE request[c].keys # <<>>
      <3>1. request[c].keys \in Seq(Keys)
        BY <1>11, <1>13 DEF VerifyFailed
      <3>2. /\ todo' = [todo EXCEPT ![c] = request[c].keys]
            /\ now' = [now EXCEPT ![c] = clock]
            /\ pc' = [pc EXCEPT ![c] = "record"]
            /\ UNCHANGED <<request, hit, permit, snap, tries, found, known>>
            /\ UNCHANGED <<world, counters, witness>>
        BY <1>13, <2>2 DEF VerifyFailed, Go
      <3> QED
        BY <1>0, <3>1, <3>2 DEF TypeOK, Steps, world, counters
    <2> QED
      BY <2>1, <2>2
  <1>14. ASSUME NEW c \in Calls, RecordRead(c) PROVE TypeOK'
    <2>1. store[Head(todo[c])] \in Snapshot \cup {None}
      BY <1>0, <1>14, KeyAt DEF RecordRead, Looping
    <2> QED
      BY <1>0, <1>14, <2>1 DEF TypeOK, RecordRead, Go, Steps, world, counters
  <1>15. ASSUME NEW c \in Calls, CasWon(c) PROVE TypeOK'
    <2>1. PICK k \in Keys : k = Head(todo[c]) /\ Tail(todo[c]) \in Seq(Keys)
      BY <1>0, <1>15, KeyAt DEF CasWon, Looping
    <2>2. /\ store'[k] \in Snapshot /\ store' = [store EXCEPT ![k] = store'[k]]
          /\ fresh' = fresh + 1
          /\ counted' = [counted EXCEPT ![k] =
               IF Resets(store[k], now[c]) THEN {c} ELSE counted[k] \cup {c}]
          /\ charged' = [charged EXCEPT ![c] = charged[c] \cup {k}]
          /\ UNCHANGED <<clock, users, updates, witness, request, now>>
      BY <1>0, <1>15, <2>1, CasEffect
    <2>3. /\ store' \in [Keys -> Snapshot \cup {None}] /\ fresh' \in Nat
          /\ counted' \in [Keys -> SUBSET Calls]
          /\ charged' \in [Calls -> SUBSET Keys]
      <3>1. store' \in [Keys -> Snapshot \cup {None}]
        <4>1. \A n \in Snapshot :
                [store EXCEPT ![k] = n] \in [Keys -> Snapshot \cup {None}]
          BY <1>0, <2>1 DEF TypeOK
        <4> QED
          BY <2>2, <4>1, Zenon
      <3>2. fresh' \in Nat /\ counted' \in [Keys -> SUBSET Calls]
        BY <1>0, <2>1, <2>2 DEF TypeOK
      <3>3. charged' \in [Calls -> SUBSET Keys]
        BY <1>0, <2>1, <2>2 DEF TypeOK
      <3> QED
        BY <3>1, <3>2, <3>3
    <2>4. 0 \in 0..MaxTries /\ Verdict(c) \in Results
      BY Verdicts, ModelAssumption DEF Results
    <2>5. NoPermit \in [Keys -> Nat \cup {None}] /\ NoneKnown \in [Keys -> SUBSET Calls]
      BY DEF NoPermit, NoneKnown
    <2>6. /\ pc' \in [Calls -> {"idle"} \cup Steps \cup Results]
          /\ todo' \in [Calls -> Seq(Keys)]
          /\ hit' \in [Calls -> {"open", "throttled", "locked"}]
          /\ permit' \in [Calls -> [Keys -> Nat \cup {None}]]
          /\ snap' \in [Calls -> Snapshot \cup {None}]
          /\ tries' \in [Calls -> 0..MaxTries]
          /\ found' \in [Calls -> UserRecord \cup {None}]
          /\ known' \in [Calls -> [Keys -> SUBSET Calls]]
      <3>1. CASE LastKey(c)
        <4>1. Return(c, Verdict(c))
          BY <1>15, <3>1 DEF CasWon
        <4> QED
          BY <1>0, <2>4, <2>5, <4>1, NoKeys DEF TypeOK, Return, Go
      <3>2. CASE ~LastKey(c)
        <4>1. /\ todo' = [todo EXCEPT ![c] = Tail(@)]
              /\ tries' = [tries EXCEPT ![c] = 0]
              /\ snap' = [snap EXCEPT ![c] = None]
              /\ pc' = [pc EXCEPT ![c] = "record"]
              /\ UNCHANGED <<request, now, hit, permit, found, known>>
          BY <1>15, <3>2 DEF CasWon, Go
        <4> QED
          BY <1>0, <2>1, <2>4, <4>1 DEF TypeOK, Steps
      <3> QED
        BY <3>1, <3>2
    <2> QED
      BY <1>0, <2>2, <2>3, <2>6 DEF TypeOK
  <1>16. ASSUME NEW c \in Calls, CasLost(c) PROVE TypeOK'
    <2>1. tries[c] + 1 \in 0..MaxTries
      BY <1>0, <1>16, ModelAssumption DEF TypeOK, CasLost, RequestOf
    <2> QED
      BY <1>0, <1>16, <2>1 DEF TypeOK, CasLost, Go, Steps, world, counters
  <1>17. ASSUME NEW c \in Calls, ClearKey(c) PROVE TypeOK'
    <2>1. /\ Head(todo[c]) \in Keys /\ Tail(todo[c]) \in Seq(Keys)
      BY <1>0, <1>17, KeyAt DEF ClearKey, Looping
    <2>2. /\ store' \in [Keys -> Snapshot \cup {None}]
          /\ counted' \in [Keys -> SUBSET Calls]
      BY <1>0, <1>17, <2>1 DEF TypeOK, ClearKey, clear_auth_rate_limit_state
    <2> QED
      BY <1>0, <1>17, <2>1, <2>2 DEF TypeOK, ClearKey, Go, Steps, world
  <1>18. ASSUME NEW c \in Calls, CurrentAccepted(c) PROVE TypeOK'
    BY <1>0, <1>18 DEF TypeOK, CurrentAccepted, Go, Steps, world, counters, locals
  <1> QED
    BY <1>1, <1>2, <1>3, <1>4, <1>6, <1>7, <1>8, <1>9, <1>10, <1>12, <1>13, <1>14,
       <1>15, <1>16, <1>17, <1>18 DEF Next, Step

-----------------------------------------------------------------------------
(* What a step does to the store and to the other calls.                   *)

\* Time and revisions only move on, and only these write the store.
LEMMA Writers ==
  ASSUME TypeOK, [Next]_vars
  PROVE  /\ clock <= clock'
         /\ \/ UNCHANGED <<store, fresh, counted, charged>>
            \/ /\ UNCHANGED <<clock, fresh, charged>>
               /\ \/ \E k \in Keys : Reclaim(k)
                  \/ \E c \in Calls : ClearKey(c)
            \/ \E c \in Calls : CasWon(c)
  <1>0. clock \in Nat
    BY DEF TypeOK
  <1>1. CASE Tick
    BY <1>0, <1>1 DEF Tick, counters
  <1>2. ASSUME NEW k \in Keys, Reclaim(k) PROVE UNCHANGED <<clock, fresh, charged>>
    BY <1>2 DEF Reclaim, world
  <1>3. ASSUME NEW c \in Calls, ClearKey(c) PROVE UNCHANGED <<clock, fresh, charged>>
    BY <1>3 DEF ClearKey, world
  <1>4. ASSUME NEW c \in Calls, CasWon(c) PROVE clock' = clock
    BY <1>4 DEF CasWon, world
  <1>5. ASSUME NEW c \in Calls, Step(c) \/ Fail(c) \/ BeginLogin(c) \/ BeginRequest(c),
               ~CasWon(c), ~ClearKey(c)
        PROVE  UNCHANGED <<clock, store, fresh, counted, charged>>
    BY <1>5
    DEF Step, Fail, BeginLogin, BeginRequest, Begin, RejectRead, RejectDenied,
        Lookup, VerifyUnavailable, VerifyPassed, VerifyFailed, RecordRead,
        RecordDenied, RecordExhausted, CasLost, CurrentAccepted, CurrentRefused,
        IssueSession, world, counters
  <1>6. ASSUME NEW u \in Users, UpdateUser(u)
        PROVE  UNCHANGED <<clock, store, fresh, counted, charged>>
    BY <1>6 DEF UpdateUser, counters
  <1> QED
    BY <1>0, <1>1, <1>2, <1>3, <1>4, <1>5, <1>6 DEF Next, vars, world, counters

\* A swap touches no key but its own.
LEMMA OtherKeys ==
  ASSUME TypeOK, NEW c \in Calls, RequestOf(c), SnapOf(c), CasWon(c),
         NEW k \in Keys, k # Head(todo[c])
  PROVE  store'[k] = store[k] /\ counted'[k] = counted[k]
  <1>1. PICK j \in Keys : j = Head(todo[c])
    BY CasEffect
  <1>2. /\ store' = [store EXCEPT ![j] = store'[j]]
        /\ counted' = [counted EXCEPT ![j] =
             IF Resets(store[j], now[c]) THEN {c} ELSE counted[j] \cup {c}]
    BY <1>1, CasEffect
  <1>3. counted'[k] = counted[k]
    BY <1>1, <1>2 DEF TypeOK
  <1>4. \A n : [store EXCEPT ![j] = n][k] = store[k]
    BY <1>1 DEF TypeOK
  <1>5. store'[k] = store[k]
    BY <1>2, <1>4, Zenon
  <1> QED
    BY <1>3, <1>5

\* A key's state is left alone, removed with its count, or replaced under a
\* revision never used before.
LEMMA StoreMoves ==
  ASSUME IndInv, [Next]_vars, NEW k \in Keys
  PROVE  /\ \/ store'[k] = store[k] /\ counted'[k] = counted[k]
            \/ store'[k] = None /\ counted'[k] = {}
            \/ /\ store'[k] # None
               /\ store'[k].revision = fresh
               /\ fresh < fresh'
  <1>0. /\ TypeOK /\ fresh \in Nat
        /\ \A c \in Calls : RequestOf(c) /\ SnapOf(c)
    BY DEF IndInv, CallsInv, TypeOK
  <1>1. ASSUME NEW j \in Keys, Reclaim(j)
        PROVE  /\ \/ store'[k] = store[k] /\ counted'[k] = counted[k]
                  \/ store'[k] = None /\ counted'[k] = {}
    BY <1>0, <1>1 DEF Reclaim, world, TypeOK
  <1>2. ASSUME NEW c \in Calls, CasWon(c)
        PROVE  /\ fresh' = fresh + 1
               /\ \/ store'[k] = store[k] /\ counted'[k] = counted[k]
                  \/ store'[k] # None /\ store'[k].revision = fresh
    <2>1. PICK j \in Keys : j = Head(todo[c])
      BY <1>0, <1>2, CasEffect
    <2>2. /\ store'[j].revision = fresh /\ store'[j] \in Snapshot
          /\ store' = [store EXCEPT ![j] = store'[j]]
          /\ fresh' = fresh + 1
          /\ counted' = [counted EXCEPT ![j] =
               IF Resets(store[j], now[c]) THEN {c} ELSE counted[j] \cup {c}]
      BY <1>0, <1>2, <2>1, CasEffect
    <2>3. CASE k = j
      BY <2>2, <2>3, RecordAssumption
    <2>4. CASE k # j
      BY <1>0, <1>2, <2>1, <2>2, <2>4, OtherKeys
    <2> QED
      BY <2>3, <2>4
  <1>3. ASSUME NEW c \in Calls, ClearKey(c)
        PROVE  /\ \/ store'[k] = store[k] /\ counted'[k] = counted[k]
                  \/ store'[k] = None /\ counted'[k] = {}
    <2>1. Head(todo[c]) \in Keys
      BY <1>0, <1>3, KeyAt DEF ClearKey, Looping
    <2> QED
      BY <1>0, <1>3, <2>1
      DEF ClearKey, clear_auth_rate_limit_state, world, TypeOK
  <1> QED
    BY <1>0, <1>1, <1>2, <1>3, Writers

\* Revisions only move on.
LEMMA FreshMoves ==
  ASSUME IndInv, [Next]_vars PROVE fresh <= fresh'
  <1>1. TypeOK /\ fresh \in Nat /\ \A c \in Calls : RequestOf(c) /\ SnapOf(c)
    BY DEF IndInv, CallsInv, TypeOK
  <1>2. ASSUME NEW c \in Calls, CasWon(c) PROVE fresh' = fresh + 1
    BY <1>2 DEF CasWon
  <1> QED
    BY <1>1, <1>2, Writers

\* Nothing of a call changes but what the host does to its user.
SameCall(d) ==
    /\ pc'[d] = pc[d] /\ request'[d] = request[d] /\ todo'[d] = todo[d]
    /\ now'[d] = now[d] /\ permit'[d] = permit[d] /\ snap'[d] = snap[d]
    /\ tries'[d] = tries[d] /\ found'[d] = found[d] /\ known'[d] = known[d]
    /\ charged'[d] = charged[d]
    /\ witness[d] \subseteq witness'[d]
    /\ pc[d] \in {"clear", "current", "issue"} =>
         \/ users'[request[d].user] = users[request[d].user]
         \/ users'[request[d].user] \in witness'[d]

\* The step of a call leaves the other calls alone.
LEMMA OneCallMoves ==
  ASSUME TypeOK, NEW c \in Calls,
         Step(c) \/ Fail(c) \/ BeginLogin(c) \/ BeginRequest(c),
         NEW d \in Calls \ {c}
  PROVE  SameCall(d)
  <1>1. CASE \/ RejectDenied(c) \/ VerifyUnavailable(c) \/ RecordDenied(c)
             \/ RecordExhausted(c) \/ CurrentRefused(c) \/ IssueSession(c)
             \/ Fail(c)
    BY <1>1
    DEF RejectDenied, VerifyUnavailable, RecordDenied, RecordExhausted,
        CurrentRefused, IssueSession, Fail, Return, Go, world, counters, TypeOK,
        SameCall
  <1>2. CASE BeginLogin(c) \/ BeginRequest(c)
    BY <1>2
    DEF BeginLogin, BeginRequest, Begin, Go, world, counters, TypeOK, SameCall
  <1>3. CASE RejectRead(c) \/ Lookup(c) \/ VerifyPassed(c)
    BY <1>3
    DEF RejectRead, Lookup, VerifyPassed, Go, world, counters, TypeOK, SameCall
  <1>4. CASE VerifyFailed(c)
    BY <1>4 DEF VerifyFailed, Return, Go, world, counters, TypeOK, SameCall
  <1>5. CASE RecordRead(c) \/ CasLost(c) \/ ClearKey(c) \/ CurrentAccepted(c)
    BY <1>5
    DEF RecordRead, CasLost, ClearKey, CurrentAccepted, Go, world, counters, locals,
        TypeOK, SameCall
  <1>6. CASE CasWon(c)
    <2>1. /\ charged' = [charged EXCEPT ![c] = @ \cup {Head(todo[c])}]
          /\ UNCHANGED <<world, witness>>
      BY <1>6 DEF CasWon
    <2>2. CASE LastKey(c)
      BY <1>6, <2>1, <2>2 DEF CasWon, Return, Go, world, TypeOK, SameCall
    <2>3. CASE ~LastKey(c)
      BY <1>6, <2>1, <2>3 DEF CasWon, Go, world, TypeOK, SameCall
    <2> QED
      BY <2>2, <2>3
  <1> QED
    BY <1>1, <1>2, <1>3, <1>4, <1>5, <1>6 DEF Step

\* What a permit knows stays true of the store: revisions are never used again.
LEMMA PermitKept ==
  ASSUME IndInv, [Next]_vars, NEW d \in Calls,
         permit'[d] = permit[d], known'[d] = known[d]
  PROVE  PermitOf(d)'
  <1>0. TypeOK /\ PermitOf(d) /\ fresh \in Nat /\ fresh' \in Nat
    BY TypeStep DEF IndInv, CallsInv, TypeOK
  <1> SUFFICES ASSUME NEW k \in Keys, permit'[d][k] # None
               PROVE  /\ permit'[d][k] < fresh'
                      /\ RevisionOf(store'[k]) = permit'[d][k] =>
                           counted'[k] \subseteq known'[d][k]
    BY DEF PermitOf, RevisionOf
  <1>1. permit[d][k] \in Nat /\ permit[d][k] < fresh /\ permit'[d][k] = permit[d][k]
    BY <1>0 DEF PermitOf, TypeOK
  <1>2. store[k] \in Snapshot \cup {None} /\ store'[k] \in Snapshot \cup {None}
    BY <1>0, TypeStep DEF TypeOK
  <1>3. RevisionOf(store'[k]) = permit[d][k] => counted'[k] \subseteq known[d][k]
    BY <1>0, <1>1, <1>2, StoreMoves, Revision DEF PermitOf
  <1> QED
    BY <1>0, <1>1, <1>3, FreshMoves

\* A call that does nothing keeps its invariant: what it remembers of the store
\* is known by revisions that are never used again.
LEMMA CallStill ==
  ASSUME IndInv, [Next]_vars, NEW d \in Calls, SameCall(d)
  PROVE  (RequestOf(d) /\ ChargeOf(d) /\ SnapOf(d) /\ PermitOf(d) /\ SessionOf(d))'
  <1>0. /\ TypeOK /\ RequestOf(d) /\ ChargeOf(d) /\ SnapOf(d) /\ PermitOf(d)
        /\ SessionOf(d) /\ StoreInv
        /\ clock \in Nat /\ fresh \in Nat /\ clock' \in Nat /\ fresh' \in Nat
        /\ now[d] \in Int
    BY TypeStep DEF IndInv, CallsInv, TypeOK
  <1>1. RequestOf(d)'
    <2>1. clock <= clock'
      BY <1>0, Writers
    <2> QED
      BY <1>0, <2>1 DEF RequestOf, SameCall
  <1>2. ChargeOf(d)'
    BY <1>0 DEF ChargeOf, SameCall
  <1>3. SnapOf(d)'
    <2>1. snap'[d] # None => snap'[d].revision < fresh'
      BY <1>0, FreshMoves, Revision DEF SnapOf, SameCall, TypeOK
    <2>2. ASSUME pc'[d] = "cas"
          PROVE  /\ RevisionOf(store'[Head(todo'[d])]) = RevisionOf(snap'[d]) =>
                      store'[Head(todo'[d])] = snap'[d]
                 /\ request'[d].kind = "request" => ~Active(snap'[d], now'[d])
      <3>1. PICK k \in Keys : k = Head(todo[d])
        BY <1>0, <2>2, KeyAt DEF SameCall, Looping
      <3>2. /\ store[k] \in Snapshot \cup {None} /\ store'[k] \in Snapshot \cup {None}
            /\ snap[d] \in Snapshot \cup {None}
        BY <1>0, TypeStep DEF TypeOK
      <3>3. RevisionOf(store'[k]) = RevisionOf(snap[d]) => store'[k] = snap[d]
        BY <1>0, <2>2, <3>1, <3>2, StoreMoves, Revision DEF SnapOf, SameCall
      <3> QED
        BY <1>0, <2>2, <3>1, <3>3 DEF SnapOf, SameCall
    <2> QED
      BY <2>1, <2>2 DEF SnapOf, Active, Control, After, RevisionOf
  <1>4. PermitOf(d)'
    BY PermitKept DEF SameCall
  <1>5. SessionOf(d)'
    BY <1>0 DEF SessionOf, SameCall
  <1> QED
    BY <1>1, <1>2, <1>3, <1>4, <1>5

-----------------------------------------------------------------------------
(* What a step does to the call that takes it.                             *)

Parts(c) == RequestOf(c) /\ ChargeOf(c) /\ SnapOf(c) /\ PermitOf(c) /\ SessionOf(c)

\* The parts of the invariant that a call has when nothing is left to do.
LEMMA ReturnParts ==
  ASSUME IndInv, [Next]_vars, NEW c \in Calls, pc[c] \in Steps,
         NEW result \in Results, Return(c, result),
         charged'[c] \subseteq KeysIn(request[c].keys),
         result \in Untouched => charged'[c] = {},
         result \in {"Invalid", "Disabled", "Admitted"} =>
           charged'[c] = KeysIn(request[c].keys),
         request[c].kind = "login" => result \notin {"Admitted", "Denied"},
         request[c].kind = "request" =>
           result \in {"Admitted", "Denied", "Contention", "Failed"},
         result = "Session" =>
           \E r \in witness'[c] : r.status = "enabled" /\ r.hash = request[c].password
  PROVE  Parts(c)'
  <1>0. /\ TypeOK /\ RequestOf(c) /\ ChargeOf(c)
        /\ pc[c] # "idle" /\ result # "idle" /\ result \notin Steps
        /\ clock \in Nat /\ clock' \in Nat /\ now[c] \in Int
    BY TypeStep DEF IndInv, CallsInv, TypeOK, Steps, Results
  <1>1. /\ pc'[c] = result /\ todo'[c] = <<>> /\ request'[c] = request[c]
        /\ now'[c] = now[c] /\ snap'[c] = None /\ permit'[c] = NoPermit
        /\ tries'[c] = 0
    BY <1>0 DEF Return, Go, TypeOK
  <1>2. request[c] # None
    BY <1>0 DEF RequestOf
  <1>3. RequestOf(c)'
    <2>1. clock <= clock'
      BY <1>0, Writers
    <2> QED
      BY <1>0, <1>1, <1>2, <2>1, NoKeys DEF RequestOf, Looping, Steps
  <1>4. ChargeOf(c)'
    BY <1>0, <1>1, <1>2 DEF ChargeOf, Steps
  <1>5. SnapOf(c)'
    BY <1>0, <1>1 DEF SnapOf, Steps
  <1>6. PermitOf(c)'
    BY <1>1 DEF PermitOf, NoPermit
  <1>7. SessionOf(c)'
    BY <1>0, <1>1 DEF SessionOf, Steps
  <1> QED
    BY <1>3, <1>4, <1>5, <1>6, <1>7 DEF Parts

\* Answers that charge nobody.
LEMMA RefusalParts ==
  ASSUME IndInv, [Next]_vars, NEW c \in Calls,
         \/ RejectDenied(c) \/ VerifyUnavailable(c) \/ RecordDenied(c)
         \/ RecordExhausted(c) \/ CurrentRefused(c) \/ IssueSession(c)
         \/ Fail(c)
  PROVE  Parts(c)'
  <1>0. /\ TypeOK /\ RequestOf(c) /\ ChargeOf(c) /\ SessionOf(c)
    BY DEF IndInv, CallsInv
  <1>1. UNCHANGED <<charged, witness>>
    BY DEF RejectDenied, VerifyUnavailable, RecordDenied, RecordExhausted,
           CurrentRefused, IssueSession, Fail, counters
  <1>2. /\ pc[c] \in Steps
        /\ \/ /\ pc[c] \in {"reject", "verify", "current", "issue"}
              /\ \E r \in {"Locked", "Throttled", "Unavailable", "Changed"} :
                   Return(c, r)
           \/ pc[c] = "issue" /\ Return(c, "Session")
           \/ pc[c] = "record" /\ Return(c, "Contention")
           \/ pc[c] = "record" /\ request[c].kind = "request" /\ Return(c, "Denied")
           \/ Return(c, "Failed")
    BY DEF RejectDenied, VerifyUnavailable, RecordDenied, RecordExhausted,
           CurrentRefused, IssueSession, Fail, Steps, Running, Denies
  <1>3. charged'[c] \subseteq KeysIn(request[c].keys)
    BY <1>0, <1>1, <1>2 DEF ChargeOf, RequestOf, Steps
  <1>4. pc[c] \in {"reject", "verify", "current", "issue"} =>
          /\ charged'[c] = {}
          /\ request[c].kind # "request"
    BY <1>0, <1>1 DEF ChargeOf, Untouched, RequestOf
  <1>5. ASSUME NEW r \in {"Locked", "Throttled", "Unavailable", "Changed"},
               pc[c] \in {"reject", "verify", "current", "issue"}, Return(c, r)
        PROVE  Parts(c)'
    BY <1>2, <1>3, <1>4, <1>5, ReturnParts DEF Results
  <1>6. CASE pc[c] = "issue" /\ Return(c, "Session")
    <2>1. \E r \in witness'[c] : r.status = "enabled" /\ r.hash = request[c].password
      BY <1>0, <1>1, <1>6 DEF SessionOf
    <2> QED
      BY <1>2, <1>3, <1>4, <1>6, <2>1, ReturnParts DEF Results
  <1>7. CASE pc[c] = "record" /\ Return(c, "Contention")
    BY <1>2, <1>3, <1>7, ReturnParts DEF Results, Untouched
  <1>8. CASE pc[c] = "record" /\ request[c].kind = "request" /\ Return(c, "Denied")
    BY <1>2, <1>3, <1>8, ReturnParts DEF Results, Untouched
  <1>9. CASE Return(c, "Failed")
    BY <1>2, <1>3, <1>9, ReturnParts DEF Results, Untouched
  <1> QED
    BY <1>2, <1>5, <1>6, <1>7, <1>8, <1>9

\* A call that begins has all its keys to do and is charged for none.
LEMMA BeginParts ==
  ASSUME IndInv, [Next]_vars, NEW c \in Calls, BeginLogin(c) \/ BeginRequest(c)
  PROVE  Parts(c)'
  <1>0. /\ TypeOK /\ RequestOf(c) /\ ChargeOf(c) /\ SnapOf(c) /\ PermitOf(c)
        /\ StoreInv /\ clock \in Nat
    BY DEF IndInv, CallsInv, TypeOK
  <1>1. ASSUME NEW r, r # None, r.keys \in LoginKeys \cup RequestKeys,
               NEW loop, NEW without, Begin(c, r, loop, without),
               \/ /\ r.kind = "login" /\ r.user \in Users /\ r.keys \in LoginKeys
                  /\ loop = "reject" /\ without = "lookup"
               \/ /\ r.kind = "request" /\ r.keys \in RequestKeys
                  /\ loop = "record" /\ without = "Admitted"
        PROVE  Parts(c)'
    <2>1. /\ pc[c] = "idle"
          /\ request'[c] = r /\ todo'[c] = r.keys /\ now'[c] = clock
          /\ pc'[c] = IF r.keys = <<>> THEN without ELSE loop
          /\ UNCHANGED <<clock, users, store, fresh, counted, charged, permit, snap,
                         tries, found, known, witness>>
      BY <1>0, <1>1 DEF Begin, Go, world, counters, TypeOK
    <2>2. Distinct(r.keys) /\ (r.keys = <<>> => KeysIn(r.keys) = {})
      BY <1>1, GivenKeys, NoKeys
    <2>3. request[c] = None /\ charged[c] = {}
      BY <1>0, <2>1 DEF RequestOf, ChargeOf
    <2>4. pc'[c] \in {"reject", "lookup", "record", "Admitted"}
          /\ pc'[c] \notin {"cas", "idle"}
      BY <1>1, <2>1
    <2>5. RequestOf(c)'
      <3>1. CASE r.kind = "login" /\ r.keys = <<>>
        BY <1>0, <1>1, <2>1, <2>2, <2>4, <3>1 DEF RequestOf, Looping
      <3>2. CASE r.kind = "login" /\ r.keys # <<>>
        BY <1>0, <1>1, <2>1, <2>2, <2>4, <3>2 DEF RequestOf, Looping
      <3>3. CASE r.kind = "request" /\ r.keys = <<>>
        BY <1>0, <1>1, <2>1, <2>2, <2>4, <3>3 DEF RequestOf, Looping
      <3>4. CASE r.kind = "request" /\ r.keys # <<>>
        BY <1>0, <1>1, <2>1, <2>2, <2>4, <3>4 DEF RequestOf, Looping
      <3> QED
        BY <1>1, <3>1, <3>2, <3>3, <3>4
    <2>6. ChargeOf(c)'
      BY <1>1, <2>1, <2>2, <2>3, <2>4 DEF ChargeOf, Untouched
    <2>7. SnapOf(c)' /\ PermitOf(c)'
      BY <1>0, <2>1, <2>4 DEF SnapOf, PermitOf, RevisionOf
    <2>8. SessionOf(c)'
      BY <2>4 DEF SessionOf
    <2> QED
      BY <2>5, <2>6, <2>7, <2>8 DEF Parts
  <1>2. CASE BeginLogin(c)
    <2>1. PICK keys \in LoginKeys, u \in Users, p \in Hashes :
            Begin(c, LoginRequest(keys, u, p), "reject", "lookup")
      BY <1>2 DEF BeginLogin
    <2>2. LoginRequest(keys, u, p) \in Request
      BY ModelAssumption DEF LoginRequest, Request
    <2>3. /\ LoginRequest(keys, u, p).kind = "login"
          /\ LoginRequest(keys, u, p).user = u
          /\ LoginRequest(keys, u, p).keys = keys
      BY DEF LoginRequest
    <2> QED
      BY <1>1, <2>1, <2>2, <2>3, RecordAssumption
  <1>3. CASE BeginRequest(c)
    <2>1. PICK keys \in RequestKeys :
            Begin(c, AdmissionRequest(keys), "record", "Admitted")
      BY <1>3 DEF BeginRequest
    <2>2. AdmissionRequest(keys) \in Request
      BY ModelAssumption DEF AdmissionRequest, Request
    <2>3. /\ AdmissionRequest(keys).kind = "request"
          /\ AdmissionRequest(keys).keys = keys
      BY DEF AdmissionRequest
    <2> QED
      BY <1>1, <2>1, <2>2, <2>3, RecordAssumption
  <1> QED
    BY <1>2, <1>3

\* reject_if_rate_limited remembers the revision of each key it reads.
LEMMA ReadParts ==
  ASSUME IndInv, [Next]_vars, NEW c \in Calls, RejectRead(c)
  PROVE  Parts(c)'
  <1>0. /\ TypeOK /\ RequestOf(c) /\ ChargeOf(c) /\ SnapOf(c) /\ PermitOf(c)
        /\ StoreInv /\ clock \in Nat /\ pc[c] = "reject"
    BY DEF IndInv, CallsInv, TypeOK, RejectRead
  <1>1. PICK k \in Keys : k = Head(todo[c])
    BY <1>0, KeyAt DEF Looping
  <1>2. /\ UNCHANGED <<clock, users, store, fresh, counted, charged, snap, tries,
                       found, witness, request, now>>
        /\ todo'[c] = Tail(todo[c])
        /\ pc'[c] = IF LastKey(c) THEN "lookup" ELSE "reject"
    BY <1>0 DEF RejectRead, Go, world, counters, TypeOK
  <1>3. /\ permit'[c] = [permit[c] EXCEPT ![k] = RevisionOf(store[k])]
        /\ known'[c] = [known[c] EXCEPT ![k] = counted[k]]
    BY <1>0, <1>1 DEF RejectRead, TypeOK
  <1>4. /\ KeysIn(todo'[c]) \subseteq KeysIn(todo[c])
        /\ Distinct(todo'[c])
        /\ ~LastKey(c) => todo'[c] # <<>>
    <2>1. todo[c] \in Seq(Keys) /\ todo[c] # <<>> /\ Distinct(todo[c])
      BY <1>0 DEF TypeOK, RequestOf, Looping
    <2> QED
      BY <1>2, <2>1, FirstKey DEF LastKey
  <1>5. pc'[c] \in {"reject", "lookup"} /\ (pc'[c] = "reject" => ~LastKey(c))
    BY <1>2
  <1>6. RequestOf(c)'
    BY <1>0, <1>2, <1>4, <1>5 DEF RequestOf, Looping
  <1>7. ChargeOf(c)'
    BY <1>0, <1>2, <1>5 DEF ChargeOf, Untouched
  <1>8. SnapOf(c)'
    BY <1>0, <1>2, <1>5 DEF SnapOf
  <1>9. PermitOf(c)'
    <2> SUFFICES ASSUME NEW j \in Keys, permit'[c][j] # None
                 PROVE  /\ permit'[c][j] < fresh
                        /\ RevisionOf(store[j]) = permit'[c][j] =>
                             counted[j] \subseteq known'[c][j]
      BY <1>2 DEF PermitOf, RevisionOf
    <2>1. CASE j = k
      <3>1. store[k] \in Snapshot \cup {None} /\ permit'[c][k] = RevisionOf(store[k])
            /\ known'[c][k] = counted[k]
        BY <1>0, <1>1, <1>3 DEF TypeOK
      <3> QED
        BY <1>0, <2>1, <3>1, Revision DEF StoreInv
    <2>2. CASE j # k
      BY <1>0, <1>3, <2>2 DEF PermitOf, TypeOK
    <2> QED
      BY <2>1, <2>2
  <1>10. SessionOf(c)'
    BY <1>5 DEF SessionOf
  <1> QED
    BY <1>6, <1>7, <1>8, <1>9, <1>10 DEF Parts

\* login looks the user up, verifies the password and, when it matches, has the
\* keys to clear and the present record as a first witness.
LEMMA VerifyParts ==
  ASSUME IndInv, [Next]_vars, NEW c \in Calls,
         Lookup(c) \/ VerifyPassed(c) \/ CurrentAccepted(c)
  PROVE  Parts(c)'
  <1>0. /\ TypeOK /\ RequestOf(c) /\ ChargeOf(c) /\ SnapOf(c) /\ PermitOf(c)
        /\ SessionOf(c) /\ clock \in Nat
        /\ pc[c] \in {"lookup", "verify", "current"}
    BY DEF IndInv, CallsInv, TypeOK, Lookup, VerifyPassed, CurrentAccepted
  <1>1. /\ UNCHANGED <<clock, users, store, fresh, counted, charged, snap, tries,
                       request, now, permit, known>>
    BY DEF Lookup, VerifyPassed, CurrentAccepted, world, counters, locals
  <1>2. /\ request[c] # None /\ request[c].kind = "login" /\ request[c] \in Request
        /\ request[c].keys \in LoginKeys /\ request[c].user \in Users
        /\ charged[c] = {}
        /\ users[request[c].user] \in UserRecord
    BY <1>0 DEF RequestOf, ChargeOf, Untouched, TypeOK, Request
  <1>3. PermitOf(c)'
    BY <1>1, PermitKept
  <1>4. CASE Lookup(c)
    <2>1. /\ pc'[c] = "verify" /\ todo'[c] = todo[c]
          /\ found'[c] = users[request[c].user]
      BY <1>0, <1>4 DEF Lookup, Go, TypeOK
    <2>2. RequestOf(c)' /\ ChargeOf(c)' /\ SnapOf(c)'
      BY <1>0, <1>1, <1>2, <2>1 DEF RequestOf, ChargeOf, SnapOf, Looping, Untouched
    <2>3. SessionOf(c)'
      BY <1>2, <2>1, RecordAssumption DEF SessionOf
    <2> QED
      BY <1>3, <2>2, <2>3 DEF Parts
  <1>5. CASE VerifyPassed(c)
    <2>1. /\ pc'[c] = IF request[c].keys = <<>> THEN "current" ELSE "clear"
          /\ todo'[c] = request[c].keys
          /\ witness'[c] = {users[request[c].user]}
          /\ found'[c] = found[c] /\ found[c].hash = request[c].password
      BY <1>0, <1>5 DEF VerifyPassed, Passes, Go, TypeOK
    <2>2. /\ pc'[c] \in {"current", "clear"} /\ (pc'[c] = "clear" => todo'[c] # <<>>)
          /\ pc[c] = "verify"
      BY <1>5, <2>1 DEF VerifyPassed
    <2>3. Distinct(todo'[c])
      BY <1>2, <2>1, GivenKeys
    <2>4. RequestOf(c)'
      BY <1>0, <1>1, <1>2, <2>1, <2>2, <2>3 DEF RequestOf, Looping
    <2>5. ChargeOf(c)' /\ SnapOf(c)'
      BY <1>0, <1>1, <1>2, <2>2 DEF ChargeOf, SnapOf, Untouched
    <2>6. SessionOf(c)'
      BY <1>0, <1>1, <2>1, <2>2 DEF SessionOf
    <2> QED
      BY <1>3, <2>4, <2>5, <2>6 DEF Parts
  <1>6. CASE CurrentAccepted(c)
    <2>1. /\ pc[c] = "current" /\ pc'[c] = "issue"
          /\ UNCHANGED <<todo, found, witness>>
          /\ users[request[c].user].status = "enabled"
          /\ users[request[c].user].hash = found[c].hash
      BY <1>0, <1>6 DEF CurrentAccepted, StillValid, Go, locals, TypeOK
    <2>2. RequestOf(c)' /\ ChargeOf(c)' /\ SnapOf(c)'
      BY <1>0, <1>1, <1>2, <2>1 DEF RequestOf, ChargeOf, SnapOf, Looping, Untouched
    <2>3. SessionOf(c)'
      BY <1>0, <1>1, <2>1 DEF SessionOf
    <2> QED
      BY <1>3, <2>2, <2>3 DEF Parts
  <1> QED
    BY <1>4, <1>5, <1>6

\* A refused password has every key to charge.
LEMMA FailedParts ==
  ASSUME IndInv, [Next]_vars, NEW c \in Calls, VerifyFailed(c)
  PROVE  Parts(c)'
  <1>0. /\ TypeOK /\ RequestOf(c) /\ ChargeOf(c) /\ SnapOf(c) /\ PermitOf(c)
        /\ clock \in Nat /\ pc[c] = "verify"
    BY DEF IndInv, CallsInv, TypeOK, VerifyFailed
  <1>1. UNCHANGED <<clock, users, store, fresh, counted, charged, witness, request>>
    BY DEF VerifyFailed, Return, world, counters
  <1>2. /\ request[c] # None /\ request[c].kind = "login"
        /\ request[c].keys \in LoginKeys /\ request[c].user \in Users
        /\ charged[c] = {}
    BY <1>0 DEF RequestOf, ChargeOf, Untouched, TypeOK, Request
  <1>3. CASE request[c].keys = <<>>
    <2>1. Return(c, Verdict(c)) /\ Verdict(c) \in {"Disabled", "Invalid"}
      BY <1>2, <1>3 DEF VerifyFailed, Verdict
    <2>2. charged'[c] = {} /\ KeysIn(request[c].keys) = {}
      BY <1>1, <1>2, <1>3, NoKeys
    <2>3. PICK r \in {"Disabled", "Invalid"} : Return(c, r)
      BY <2>1
    <2> QED
      BY <1>0, <1>2, <2>2, <2>3, ReturnParts DEF Results, Steps, Untouched
  <1>4. CASE request[c].keys # <<>>
    <2>1. /\ todo'[c] = request[c].keys /\ now'[c] = clock /\ pc'[c] = "record"
          /\ UNCHANGED <<request, permit, snap, tries, found, known>>
      BY <1>0, <1>4 DEF VerifyFailed, Go, TypeOK
    <2>2. Distinct(request[c].keys)
      BY <1>2, GivenKeys
    <2>3. RequestOf(c)'
      BY <1>0, <1>1, <1>2, <1>4, <2>1, <2>2 DEF RequestOf, Looping
    <2>4. ChargeOf(c)' /\ SnapOf(c)' /\ SessionOf(c)'
      BY <1>0, <1>1, <1>2, <2>1 DEF ChargeOf, SnapOf, SessionOf, Untouched
    <2>5. PermitOf(c)'
      BY <2>1, PermitKept
    <2> QED
      BY <2>3, <2>4, <2>5 DEF Parts
  <1> QED
    BY <1>3, <1>4

\* A pass of the compare-and-swap loop that reads, or that is lost.
LEMMA RetryParts ==
  ASSUME IndInv, [Next]_vars, NEW c \in Calls, RecordRead(c) \/ CasLost(c)
  PROVE  Parts(c)'
  <1>0. /\ TypeOK /\ RequestOf(c) /\ ChargeOf(c) /\ StoreInv /\ clock \in Nat
        /\ pc[c] \in {"record", "cas"}
    BY DEF IndInv, CallsInv, TypeOK, RecordRead, CasLost
  <1>1. UNCHANGED <<clock, store, fresh, counted, charged, request, todo, now, permit,
                    known>>
    BY DEF RecordRead, CasLost, world, counters
  <1>2. PermitOf(c)'
    BY <1>1, PermitKept
  <1>3. CASE RecordRead(c)
    <2>1. PICK k \in Keys : k = Head(todo[c]) /\ store[k] \in Snapshot \cup {None}
      BY <1>0, KeyAt DEF Looping
    <2>2. /\ pc[c] = "record" /\ pc'[c] = "cas" /\ snap'[c] = store[k]
          /\ tries'[c] = tries[c] /\ tries[c] < MaxTries
          /\ request[c].kind = "request" => ~Active(store[k], now[c])
      BY <1>0, <1>3, <2>1 DEF RecordRead, Denies, Go, TypeOK
    <2>3. RequestOf(c)' /\ ChargeOf(c)' /\ SessionOf(c)'
      BY <1>0, <1>1, <2>2 DEF RequestOf, ChargeOf, SessionOf, Looping, Untouched
    <2>4. SnapOf(c)'
      <3>1. store[k] # None => store[k].revision < fresh
        BY <1>0 DEF StoreInv
      <3> QED
        BY <1>1, <2>1, <2>2, <3>1
        DEF SnapOf, Active, Control, After, RevisionOf
    <2> QED
      BY <1>2, <2>3, <2>4 DEF Parts
  <1>4. CASE CasLost(c)
    <2>1. pc[c] = "cas" /\ pc'[c] = "record" /\ snap'[c] = None
      BY <1>0, <1>4 DEF CasLost, Go, TypeOK
    <2>2. RequestOf(c)' /\ ChargeOf(c)' /\ SessionOf(c)' /\ SnapOf(c)'
      BY <1>0, <1>1, <2>1
      DEF RequestOf, ChargeOf, SessionOf, SnapOf, Looping, Untouched
    <2> QED
      BY <1>2, <2>2 DEF Parts
  <1> QED
    BY <1>3, <1>4

\* A swap that wins charges the key it is at; the last one answers the call.
LEMMA WonParts ==
  ASSUME IndInv, [Next]_vars, NEW c \in Calls, CasWon(c)
  PROVE  Parts(c)'
  <1>0. /\ TypeOK /\ RequestOf(c) /\ ChargeOf(c) /\ SnapOf(c) /\ clock \in Nat
        /\ pc[c] = "cas" /\ pc[c] \in Steps
    BY DEF IndInv, CallsInv, TypeOK, CasWon, Steps
  <1>1. PICK k \in Keys : k = Head(todo[c])
    BY <1>0, KeyAt DEF Looping
  <1>2. /\ charged' = [charged EXCEPT ![c] = charged[c] \cup {k}]
        /\ UNCHANGED <<clock, users, updates, witness, request, now>>
    BY <1>0, <1>1, CasEffect
  <1>3. charged'[c] = charged[c] \cup {k} /\ request[c] # None
    BY <1>0, <1>2 DEF TypeOK, RequestOf
  <1>4. todo[c] \in Seq(Keys) /\ todo[c] # <<>> /\ Distinct(todo[c])
    BY <1>0 DEF TypeOK, RequestOf, Looping
  <1>5. /\ KeysIn(todo[c]) = {k} \cup KeysIn(Tail(todo[c]))
        /\ Distinct(Tail(todo[c])) /\ k \notin KeysIn(Tail(todo[c]))
        /\ LastKey(c) => KeysIn(Tail(todo[c])) = {}
        /\ ~LastKey(c) => Tail(todo[c]) # <<>>
    BY <1>1, <1>4, FirstKey DEF LastKey
  <1>6. /\ charged[c] \cup KeysIn(todo[c]) = KeysIn(request[c].keys)
        /\ charged[c] \cap KeysIn(todo[c]) = {}
    BY <1>0 DEF ChargeOf
  <1>7. CASE LastKey(c)
    <2>1. charged'[c] = KeysIn(request[c].keys)
      BY <1>3, <1>5, <1>6, <1>7
    <2>2. /\ Return(c, Verdict(c))
          /\ request[c].kind = "request" => Verdict(c) = "Admitted"
          /\ request[c].kind # "request" => Verdict(c) \in {"Disabled", "Invalid"}
      BY <1>7 DEF CasWon, Verdict
    <2>3. PICK r \in {"Admitted", "Disabled", "Invalid"} :
            /\ Return(c, r)
            /\ request[c].kind = "request" => r = "Admitted"
            /\ request[c].kind # "request" => r # "Admitted"
      BY <2>2
    <2> QED
      BY <1>0, <2>1, <2>3, ReturnParts DEF Results, Untouched
  <1>8. CASE ~LastKey(c)
    <2>1. /\ todo'[c] = Tail(todo[c]) /\ pc'[c] = "record" /\ snap'[c] = None
          /\ UNCHANGED <<permit, known>>
      BY <1>0, <1>8 DEF CasWon, Go, TypeOK
    <2>2. RequestOf(c)'
      BY <1>0, <1>2, <1>5, <1>8, <2>1 DEF RequestOf, Looping
    <2>3. ChargeOf(c)'
      BY <1>2, <1>3, <1>5, <1>6, <2>1 DEF ChargeOf, Untouched
    <2>4. SnapOf(c)' /\ SessionOf(c)'
      BY <2>1 DEF SnapOf, SessionOf
    <2>5. PermitOf(c)'
      BY <2>1, PermitKept
    <2> QED
      BY <2>2, <2>3, <2>4, <2>5 DEF Parts
  <1> QED
    BY <1>7, <1>8

\* A verified login clears one key after the other.
LEMMA ClearParts ==
  ASSUME IndInv, [Next]_vars, NEW c \in Calls, ClearKey(c)
  PROVE  Parts(c)'
  <1>0. /\ TypeOK /\ RequestOf(c) /\ ChargeOf(c) /\ SnapOf(c) /\ SessionOf(c)
        /\ clock \in Nat /\ pc[c] = "clear"
    BY DEF IndInv, CallsInv, TypeOK, ClearKey
  <1>1. /\ UNCHANGED <<clock, users, fresh, charged, request, now, permit, snap,
                       tries, found, known, witness>>
        /\ todo'[c] = Tail(todo[c])
        /\ pc'[c] = IF LastKey(c) THEN "current" ELSE "clear"
    BY <1>0 DEF ClearKey, Go, world, TypeOK
  <1>2. pc'[c] \in {"current", "clear"} /\ (pc'[c] = "clear" => ~LastKey(c))
    BY <1>1
  <1>3. /\ KeysIn(todo'[c]) \subseteq KeysIn(todo[c])
        /\ Distinct(todo'[c])
        /\ ~LastKey(c) => todo'[c] # <<>>
    <2>1. todo[c] \in Seq(Keys) /\ todo[c] # <<>> /\ Distinct(todo[c])
      BY <1>0 DEF TypeOK, RequestOf, Looping
    <2> QED
      BY <1>1, <2>1, FirstKey DEF LastKey
  <1>4. RequestOf(c)'
    BY <1>0, <1>1, <1>2, <1>3 DEF RequestOf, Looping
  <1>5. ChargeOf(c)' /\ SessionOf(c)'
    BY <1>0, <1>1, <1>2 DEF ChargeOf, SessionOf, Untouched
  <1>6. SnapOf(c)'
    BY <1>0, <1>1, <1>2 DEF SnapOf
  <1>7. PermitOf(c)'
    BY <1>1, PermitKept
  <1> QED
    BY <1>4, <1>5, <1>6, <1>7 DEF Parts

\* Every step keeps what is known of the calls.
LEMMA CallsStep == ASSUME IndInv, [Next]_vars PROVE CallsInv'
  <1>0. TypeOK
    BY DEF IndInv
  <1>1. ASSUME NEW d \in Calls, SameCall(d) PROVE Parts(d)'
    BY <1>1, CallStill DEF Parts
  <1>2. ASSUME NEW c \in Calls, Step(c) \/ Fail(c) \/ BeginLogin(c) \/ BeginRequest(c)
        PROVE  \A d \in Calls : Parts(d)'
    <2>1. Parts(c)'
      BY <1>2, RefusalParts, BeginParts, ReadParts, VerifyParts, FailedParts,
         RetryParts, WonParts, ClearParts DEF Step
    <2>2. \A d \in Calls \ {c} : SameCall(d)
      BY <1>0, <1>2, OneCallMoves
    <2> QED
      BY <1>1, <2>1, <2>2
  <1>3. CASE UNCHANGED vars
    <2>1. \A d \in Calls : SameCall(d)
      BY <1>3 DEF vars, world, counters, locals, SameCall
    <2> QED
      BY <1>1, <2>1 DEF CallsInv, Parts
  <1>4. CASE Tick
    <2>1. \A d \in Calls : SameCall(d)
      BY <1>4 DEF Tick, counters, locals, SameCall
    <2> QED
      BY <1>1, <2>1 DEF CallsInv, Parts
  <1>5. ASSUME NEW k \in Keys, Reclaim(k) PROVE CallsInv'
    <2>1. \A d \in Calls : SameCall(d)
      BY <1>5 DEF Reclaim, world, locals, SameCall
    <2> QED
      BY <1>1, <2>1 DEF CallsInv, Parts
  <1>6. ASSUME NEW u \in Users, UpdateUser(u) PROVE CallsInv'
    <2>1. PICK r \in UserRecord :
            /\ users' = [users EXCEPT ![u] = r]
            /\ witness' = [c \in Calls |->
                 IF pc[c] \in {"clear", "current", "issue"} /\ request[c].user = u
                 THEN witness[c] \cup {r}
                 ELSE witness[c]]
      BY <1>6 DEF UpdateUser
    <2>2. UNCHANGED <<counters, pc, locals>>
      BY <1>6 DEF UpdateUser
    <2>3. ASSUME NEW d \in Calls PROVE SameCall(d)
      <3>1. witness[d] \subseteq witness'[d]
        BY <2>1
      <3>2. ASSUME pc[d] \in {"clear", "current", "issue"}
            PROVE  \/ users'[request[d].user] = users[request[d].user]
                   \/ users'[request[d].user] \in witness'[d]
        <4>1. CASE request[d].user = u
          <5>1. users'[u] = r /\ r \in witness'[d]
            BY <1>0, <2>1, <3>2, <4>1 DEF TypeOK
          <5> QED
            BY <4>1, <5>1
        <4>2. CASE request[d].user # u
          BY <1>0, <2>1, <4>2 DEF TypeOK
        <4> QED
          BY <4>1, <4>2
      <3> QED
        BY <2>2, <3>1, <3>2 DEF counters, locals, SameCall
    <2> QED
      BY <1>1, <2>3 DEF CallsInv, Parts
  <1> QED
    BY <1>2, <1>3, <1>4, <1>5, <1>6 DEF Next, CallsInv, Parts

-----------------------------------------------------------------------------
(* The counters.                                                           *)

\* Who is charged stays charged, and who is counted by a swap was not before.
LEMMA StoreStep == ASSUME IndInv, [Next]_vars PROVE StoreInv'
  <1>0. /\ TypeOK /\ StoreInv /\ fresh \in Nat /\ fresh' \in Nat
        /\ \A c \in Calls : RequestOf(c) /\ SnapOf(c)
    BY TypeStep DEF IndInv, CallsInv, TypeOK
  <1> SUFFICES ASSUME NEW k \in Keys
               PROVE  /\ store'[k] # None => store'[k].revision < fresh'
                      /\ \A d \in counted'[k] : k \in charged'[d]
    BY DEF StoreInv
  <1>1. store'[k] # None => store'[k].revision < fresh'
    <2>1. store[k] \in Snapshot \cup {None}
      BY <1>0 DEF TypeOK
    <2> QED
      BY <1>0, <2>1, StoreMoves, FreshMoves, Revision DEF StoreInv
  <1>2. ASSUME NEW d \in counted'[k] PROVE k \in charged'[d]
    <2>0. counted[k] \subseteq Calls
      BY <1>0 DEF TypeOK
    <2>1. ASSUME NEW c \in Calls, CasWon(c) PROVE k \in charged'[d]
      <3>1. PICK j \in Keys : j = Head(todo[c])
        BY <1>0, <2>1, CasEffect
      <3>2. /\ counted' = [counted EXCEPT ![j] =
                 IF Resets(store[j], now[c]) THEN {c} ELSE counted[j] \cup {c}]
            /\ charged' = [charged EXCEPT ![c] = charged[c] \cup {j}]
        BY <1>0, <2>1, <3>1, CasEffect
      <3>3. \A e \in Calls : charged[e] \subseteq charged'[e]
        BY <1>0, <3>2 DEF TypeOK
      <3>4. d \in counted[k] \/ (d = c /\ k = j)
        BY <1>0, <1>2, <3>2 DEF TypeOK
      <3>5. j \in charged'[c]
        BY <1>0, <3>2 DEF TypeOK
      <3> QED
        BY <1>0, <2>0, <3>3, <3>4, <3>5 DEF StoreInv
    <2>2. CASE charged' = charged /\ counted'[k] \subseteq counted[k]
      BY <1>0, <1>2, <2>2 DEF StoreInv
    <2>3. ASSUME NEW j \in Keys, Reclaim(j) PROVE counted'[k] \subseteq counted[k]
      BY <1>0, <2>3 DEF Reclaim, TypeOK
    <2>4. ASSUME NEW c \in Calls, ClearKey(c) PROVE counted'[k] \subseteq counted[k]
      BY <1>0, <2>4 DEF ClearKey, clear_auth_rate_limit_state, TypeOK
    <2> QED
      BY <1>0, <2>1, <2>2, <2>3, <2>4, Writers
  <1> QED
    BY <1>1, <1>2

\* Counting one more saturates as the count does.
LEMMA Saturates ==
  ASSUME NEW n \in Nat, NEW m \in Nat \ {0}
  PROVE  AtMost(AtMost(n, m) + 1, m) = AtMost(n + 1, m)
  BY DEF AtMost

\* The key a call records is one it was not charged for yet, so it is not
\* among those the key's count stands for.
LEMMA NotCounted ==
  ASSUME IndInv, NEW c \in Calls, pc[c] = "cas", NEW k \in Keys, k = Head(todo[c])
  PROVE  k \notin charged[c] /\ c \notin counted[k] /\ k \in KeysIn(request[c].keys)
  <1>1. TypeOK /\ RequestOf(c) /\ ChargeOf(c) /\ StoreInv
    BY DEF IndInv, CallsInv
  <1>2. k \in KeysIn(todo[c])
    BY <1>1, FirstKey DEF TypeOK, RequestOf, Looping
  <1> QED
    BY <1>1, <1>2 DEF ChargeOf, StoreInv

\* A swap that wins makes the count what it stands for, with one more call.
LEMMA CountStep == ASSUME IndInv, [Next]_vars PROVE NoFailureLost'
  <1>0. /\ TypeOK /\ NoFailureLost /\ AttemptsMax \in Nat \ {0}
        /\ \A c \in Calls : RequestOf(c) /\ SnapOf(c)
    BY PolicyAssumption DEF IndInv, CallsInv, validate
  <1> SUFFICES ASSUME NEW k \in Keys, store'[k] # None
               PROVE  store'[k].state.attempts =
                        AtMost(Cardinality(counted'[k]), AttemptsMax)
    BY DEF NoFailureLost, AtMost
  <1>1. CASE store'[k] = store[k] /\ counted'[k] = counted[k]
    BY <1>0, <1>1 DEF NoFailureLost
  <1>2. ASSUME NEW c \in Calls, CasWon(c), k = Head(todo[c])
        PROVE  store'[k].state.attempts =
                 AtMost(Cardinality(counted'[k]), AttemptsMax)
    <2>1. /\ pc[c] = "cas"
          /\ store'[k].state = next_rate_limit_state(store[k], now[c])
          /\ counted'[k] = IF Resets(store[k], now[c]) THEN {c}
                           ELSE counted[k] \cup {c}
      <3>1. counted' = [counted EXCEPT ![k] =
              IF Resets(store[k], now[c]) THEN {c} ELSE counted[k] \cup {c}]
        BY <1>0, <1>2, CasEffect
      <3>2. counted'[k] = IF Resets(store[k], now[c]) THEN {c}
                          ELSE counted[k] \cup {c}
        BY <1>0, <3>1 DEF TypeOK
      <3> QED
        BY <1>0, <1>2, <3>2, CasEffect
    <2>2. store[k] \in Snapshot \cup {None} /\ now[c] \in Nat
      BY <1>0 DEF TypeOK, RequestOf
    <2>3. store'[k].state.attempts =
            IF Resets(store[k], now[c]) THEN 1
            ELSE AtMost(store[k].state.attempts + 1, AttemptsMax)
      BY <2>1, <2>2, NextState
    <2>4. CASE Resets(store[k], now[c])
      <3>1. Cardinality({c}) = 1
        BY FS_Singleton
      <3> QED
        BY <1>0, <2>1, <2>3, <2>4, <3>1 DEF AtMost
    <2>5. CASE ~Resets(store[k], now[c])
      <3>1. store[k] # None
        BY <2>5 DEF Resets
      <3>2. c \notin counted[k]
        BY <1>2, <2>1, NotCounted
      <3>3. IsFiniteSet(counted[k])
        BY <1>0, ModelAssumption, FS_Subset DEF TypeOK
      <3>4. /\ Cardinality(counted[k]) \in Nat
            /\ Cardinality(counted[k] \cup {c}) = Cardinality(counted[k]) + 1
        BY <3>2, <3>3, FS_AddElement, FS_CardinalityType
      <3>5. store[k].state.attempts = AtMost(Cardinality(counted[k]), AttemptsMax)
        BY <1>0, <3>1 DEF NoFailureLost
      <3>6. counted'[k] = counted[k] \cup {c}
        BY <2>1, <2>5
      <3> QED
        BY <1>0, <2>3, <2>5, <3>4, <3>5, <3>6, Saturates
    <2> QED
      BY <2>4, <2>5
  <1>3. ASSUME NEW c \in Calls, CasWon(c), k # Head(todo[c])
        PROVE  store'[k] = store[k] /\ counted'[k] = counted[k]
    BY <1>0, <1>3, OtherKeys
  <1>4. ASSUME NEW j \in Keys, Reclaim(j)
        PROVE  store'[k] = store[k] /\ counted'[k] = counted[k]
    BY <1>0, <1>4 DEF Reclaim, TypeOK
  <1>5. ASSUME NEW c \in Calls, ClearKey(c)
        PROVE  store'[k] = store[k] /\ counted'[k] = counted[k]
    BY <1>0, <1>5 DEF ClearKey, clear_auth_rate_limit_state, TypeOK
  <1> QED
    BY <1>0, <1>1, <1>2, <1>3, <1>4, <1>5, Writers

-----------------------------------------------------------------------------
(* Bursts of requests.                                                     *)

\* A control in force at a time was in force before.
LEMMA ActiveBefore ==
  ASSUME NEW e \in Snapshot \cup {None}, NEW t \in Nat, NEW u \in Nat, t <= u,
         Active(e, u)
  PROVE  Active(e, t)
  <1>1. e \in Snapshot /\ e.state \in State
    BY DEF Active, Snapshot
  <1>2. /\ e.state.expires_at \in Int
        /\ e.state.locked_until \in Int \cup {None}
        /\ e.state.backoff_until \in Int \cup {None}
    BY <1>1 DEF State
  <1> QED
    BY <1>2 DEF Active, Control, After

\* The keys of requests are not keys of logins.
LEMMA FlowsApart ==
  ASSUME IndInv, NEW k \in Keys, NEW d \in Burst(k),
         NEW c \in Calls, k \in KeysIn(todo[c])
  PROVE  request[c].kind # "login" \/ pc[c] = "idle"
  <1>1. /\ RequestOf(c) /\ RequestOf(d) /\ ChargeOf(d) /\ d \in Calls
        /\ request[d] # None /\ request[d].kind = "request" /\ k \in charged[d]
    BY DEF IndInv, CallsInv, Burst
  <1>2. k \in KeysIn(request[d].keys) /\ request[d].keys \in RequestKeys
    BY <1>1 DEF RequestOf, ChargeOf
  <1>3. ASSUME request[c].kind = "login", pc[c] # "idle"
        PROVE  k \in KeysIn(request[c].keys) /\ request[c].keys \in LoginKeys
    BY <1>1, <1>3 DEF RequestOf
  <1> QED
    BY <1>2, <1>3, ModelAssumption DEF KeysIn

\* At one moment, only a swap adds a request to a burst.
LEMMA BurstMoves ==
  ASSUME IndInv, [Next]_vars, NEW k \in Keys, NEW d \in Burst(k)'
  PROVE  /\ d \in Calls
         /\ clock' = clock
         /\ \/ d \in Burst(k)
            \/ /\ CasWon(d)
               /\ k = Head(todo[d])
               /\ request[d].kind = "request"
               /\ now[d] = clock
  <1>0. /\ TypeOK /\ \A c \in Calls : RequestOf(c) /\ ChargeOf(c)
        /\ clock \in Nat /\ clock' \in Nat
        /\ d \in Calls /\ request'[d] # None /\ request'[d].kind = "request"
        /\ now'[d] = clock' /\ k \in charged'[d]
    BY TypeStep DEF IndInv, CallsInv, Burst, TypeOK
  <1>1. ASSUME SameCall(d) PROVE clock' = clock /\ d \in Burst(k)
    <2>1. request[d] # None /\ request[d].kind = "request" /\ k \in charged[d]
          /\ now[d] = clock'
      BY <1>0, <1>1 DEF SameCall
    <2>2. now[d] <= clock /\ clock <= clock'
      BY <1>0, Writers DEF RequestOf
    <2>3. clock' = clock
      BY <1>0, <2>1, <2>2
    <2> QED
      BY <1>0, <2>1, <2>3 DEF Burst
  <1>2. ASSUME NEW c \in Calls, BeginLogin(c) \/ BeginRequest(c)
        PROVE  clock' = clock /\ d \in Burst(k)
    <2>1. CASE d # c
      BY <1>0, <1>1, <1>2, <2>1, OneCallMoves
    <2>2. CASE d = c
      <3>1. pc[c] = "idle" /\ charged' = charged
        BY <1>2 DEF BeginLogin, BeginRequest, Begin, counters
      <3> QED
        BY <1>0, <2>2, <3>1 DEF RequestOf, ChargeOf
    <2> QED
      BY <2>1, <2>2
  <1>3. ASSUME NEW c \in Calls, Step(c) \/ Fail(c)
        PROVE  /\ clock' = clock
               /\ \/ d \in Burst(k)
                  \/ /\ CasWon(d) /\ k = Head(todo[d])
                     /\ request[d].kind = "request" /\ now[d] = clock
    <2>1. CASE d # c
      BY <1>0, <1>1, <1>3, <2>1, OneCallMoves
    <2>2. CASE d = c
      <3>1. clock' = clock /\ request' = request
        BY <1>3
        DEF Step, Fail, Return, RejectRead, RejectDenied, Lookup, VerifyUnavailable,
            VerifyPassed, VerifyFailed, RecordRead, RecordDenied, RecordExhausted,
            CasWon, CasLost, ClearKey, CurrentAccepted, CurrentRefused,
            IssueSession, world, locals
      <3>2. ~VerifyFailed(c)
        BY <1>0, <2>2, <3>1 DEF VerifyFailed, RequestOf
      <3>3. now' = now
        BY <1>3, <3>2
        DEF Step, Fail, Return, RejectRead, RejectDenied, Lookup, VerifyUnavailable,
            VerifyPassed, RecordRead, RecordDenied, RecordExhausted, CasWon,
            CasLost, ClearKey, CurrentAccepted, CurrentRefused, IssueSession,
            locals
      <3>4. CASE k \in charged[d]
        BY <1>0, <3>1, <3>3, <3>4 DEF Burst
      <3>5. CASE k \notin charged[d]
        <4>1. CasWon(c) /\ charged' = [charged EXCEPT ![c] = @ \cup {Head(todo[c])}]
          <5>1. charged' # charged
            BY <1>0, <3>5
          <5>2. ASSUME ~CasWon(c) PROVE charged' = charged
            BY <1>3, <5>2
            DEF Step, Fail, RejectRead, RejectDenied, Lookup, VerifyUnavailable,
                VerifyPassed, VerifyFailed, RecordRead, RecordDenied,
                RecordExhausted, CasLost, ClearKey, CurrentAccepted,
                CurrentRefused, IssueSession, counters
          <5> QED
            BY <5>1, <5>2 DEF CasWon
        <4>2. k = Head(todo[d])
          BY <1>0, <2>2, <3>5, <4>1 DEF TypeOK
        <4> QED
          BY <1>0, <2>2, <3>1, <3>3, <4>1, <4>2
      <3> QED
        BY <3>4, <3>5
    <2> QED
      BY <2>1, <2>2
  <1>4. CASE UNCHANGED vars \/ Tick \/ \E j \in Keys : Reclaim(j)
    BY <1>0, <1>1, <1>4 DEF vars, world, counters, locals, Tick, Reclaim, SameCall
  <1>5. ASSUME NEW u \in Users, UpdateUser(u) PROVE clock' = clock /\ d \in Burst(k)
    <2>1. UNCHANGED <<clock, charged, request, now>>
      BY <1>5 DEF UpdateUser, counters, locals
    <2> QED
      BY <1>0, <2>1 DEF Burst
  <1> QED
    BY <1>0, <1>1, <1>2, <1>3, <1>4, <1>5 DEF Next

\* While a burst is on, the key's state stays, except for what swaps make of it.
LEMMA BurstHolds ==
  ASSUME IndInv, [Next]_vars, NEW k \in Keys, Burst(k) # {}, BurstOf(k)
  PROVE  store'[k] = store[k] \/ \E c \in Calls : CasWon(c) /\ k = Head(todo[c])
  <1>0. /\ TypeOK /\ clock \in Nat /\ \A c \in Calls : RequestOf(c) /\ SnapOf(c)
        /\ store[k].state.expires_at \in Int /\ store[k].state.expires_at > clock
    <2>1. store[k] \in Snapshot
      BY DEF IndInv, TypeOK, BurstOf
    <2>2. store[k].state.expires_at \in Int
      BY <2>1 DEF Snapshot, State
    <2> QED
      BY <2>2 DEF IndInv, CallsInv, TypeOK, BurstOf
  <1>1. ASSUME NEW j \in Keys, Reclaim(j) PROVE store'[k] = store[k]
    <2>1. j # k
      BY <1>0, <1>1 DEF Reclaim
    <2> QED
      BY <1>0, <1>1, <2>1 DEF Reclaim, TypeOK
  <1>2. ASSUME NEW c \in Calls, ClearKey(c) PROVE store'[k] = store[k]
    <2>1. pc[c] = "clear" /\ request[c].kind = "login"
      BY <1>0, <1>2 DEF ClearKey, RequestOf, TypeOK, Request
    <2>2. Head(todo[c]) \in KeysIn(todo[c])
      BY <1>0, <2>1, FirstKey DEF TypeOK, RequestOf, Looping
    <2>3. k # Head(todo[c])
      BY <2>1, <2>2, FlowsApart
    <2> QED
      BY <1>0, <1>2, <2>3 DEF ClearKey, clear_auth_rate_limit_state, TypeOK
  <1>3. ASSUME NEW c \in Calls, CasWon(c), k # Head(todo[c])
        PROVE  store'[k] = store[k]
    BY <1>0, <1>3, OtherKeys
  <1> QED
    BY <1>0, <1>1, <1>2, <1>3, Writers

\* The size of a burst, and of the burst with one more call.
LEMMA BurstSize ==
  ASSUME NEW k \in Keys, NEW S, S \subseteq Burst(k)
  PROVE  /\ Cardinality(S) \in Nat /\ Cardinality(Burst(k)) \in Nat
         /\ Cardinality(S) <= Cardinality(Burst(k))
         /\ \A c : c \notin Burst(k) =>
              Cardinality(Burst(k) \cup {c}) = Cardinality(Burst(k)) + 1
  <1>1. IsFiniteSet(Burst(k))
    BY ModelAssumption, FS_Subset DEF Burst
  <1> QED
    BY <1>1, FS_Subset, FS_CardinalityType, FS_AddElement

\* The swap of a request finds no control in force; so there is room in the
\* burst, and when it takes the last place it starts the control.
LEMMA BurstSwap ==
  ASSUME IndInv, [Next]_vars, BaseBackoff > 0, Lockout > 0,
         NEW c \in Calls, CasWon(c), NEW k \in Keys, k = Head(todo[c]), BurstOf(k)
  PROVE  BurstOf(k)'
  <1>0. /\ TypeOK /\ RequestOf(c) /\ SnapOf(c) /\ pc[c] = "cas"
        /\ clock \in Nat /\ now[c] \in Nat /\ now[c] <= clock
        /\ Window \in Nat /\ Window >= 1 /\ BackoffAfter \in Nat /\ BackoffAfter >= 1
        /\ AttemptsMax \in Nat /\ BackoffAfter <= AttemptsMax
        /\ store[k] \in Snapshot \cup {None}
    BY PolicyAssumption DEF IndInv, CallsInv, TypeOK, RequestOf, CasWon, validate
  <1>1. /\ store[k] = snap[c]
        /\ store'[k].state = next_rate_limit_state(store[k], now[c])
        /\ store'[k] \in Snapshot /\ store'[k] # None
        /\ clock' = clock
    BY <1>0, CasEffect, RecordAssumption
  <1>2. PICK n : n = store'[k].state
    OBVIOUS
  <1>3. /\ n \in State
        /\ n.attempts = IF Resets(store[k], now[c]) THEN 1
                        ELSE AtMost(store[k].state.attempts + 1, AttemptsMax)
        /\ n.first_attempt_at = IF Resets(store[k], now[c]) THEN now[c]
                                ELSE store[k].state.first_attempt_at
        /\ n.expires_at > now[c]
        /\ n.expires_at >= n.first_attempt_at + Window
        /\ n.attempts >= BackoffAfter => Control(n, now[c]) # "open"
    BY <1>0, <1>1, <1>2, NextState
  <1>4. /\ n.attempts \in Nat /\ n.attempts >= 1
        /\ n.first_attempt_at \in Int /\ n.expires_at \in Int
    BY <1>3 DEF State
  <1>5. store[k] # None => /\ store[k].state.attempts \in 1..AttemptsMax
                           /\ store[k].state.first_attempt_at \in Int
                           /\ store[k].state.expires_at \in Int
    BY <1>0 DEF Snapshot, State
  <1>6. c \notin Burst(k) /\ k \in KeysIn(todo[c])
    <2>1. k \in KeysIn(todo[c])
      BY <1>0, FirstKey DEF TypeOK, RequestOf, Looping
    <2> QED
      BY <1>0, <2>1, NotCounted DEF Burst
  <1>7. ASSUME Burst(k) # {}
        PROVE  /\ request[c].kind = "request" /\ ~Active(store[k], clock)
               /\ store[k] # None
               /\ ~Resets(store[k], now[c])
               /\ Cardinality(Burst(k)) < BackoffAfter
               /\ Cardinality(Burst(k)) <= store[k].state.attempts
               /\ store[k].state.first_attempt_at + Window > clock
    <2>1. request[c].kind # "login"
      BY <1>0, <1>6, <1>7, FlowsApart
    <2>2. request[c].kind = "request"
      BY <1>0, <2>1 DEF RequestOf, TypeOK, Request
    <2>3. ~Active(store[k], now[c])
      BY <1>0, <1>1, <2>2 DEF SnapOf
    <2>4. ~Active(store[k], clock)
      BY <1>0, <2>3, ActiveBefore
    <2>5. ~Resets(store[k], now[c])
      BY <1>0, <1>5, <1>7 DEF BurstOf, Resets
    <2> QED
      BY <1>7, <2>2, <2>4, <2>5 DEF BurstOf
  <1>8. PICK B : B = Burst(k)'
    OBVIOUS
  <1>9. \A d \in B : d \in Burst(k) \/ (d = c /\ now[c] = clock)
    <2>1. ASSUME NEW d \in Burst(k)', d \notin Burst(k)
          PROVE  d = c /\ now[d] = clock
      <3>1. CasWon(d) /\ d \in Calls /\ k = Head(todo[d]) /\ now[d] = clock
        BY <2>1, BurstMoves
      <3>2. ASSUME d # c PROVE FALSE
        <4>1. charged'[c] = charged[c]
          BY <1>0, <3>1, <3>2, OneCallMoves DEF Step, SameCall
        <4>2. charged' = [charged EXCEPT ![c] = charged[c] \cup {k}]
          BY <1>0, CasEffect
        <4>3. k \in charged'[c]
          BY <1>0, <4>2 DEF TypeOK
        <4>4. k \notin charged[c]
          BY <1>0, NotCounted
        <4> QED
          BY <4>1, <4>3, <4>4
      <3> QED
        BY <3>1, <3>2
    <2> QED
      BY <1>8, <2>1
  <1>10. SUFFICES ASSUME B # {}
                  PROVE  /\ n.expires_at > clock
                         /\ n.first_attempt_at + Window > clock
                         /\ Cardinality(B) <= BackoffAfter
                         /\ Cardinality(B) <= n.attempts
                         /\ Control(n, clock) # "open" \/ Cardinality(B) < BackoffAfter
    BY <1>1, <1>2, <1>8 DEF BurstOf, Active, Control, After
  <1>11. CASE B \subseteq Burst(k)
    <2>1. Burst(k) # {}
      BY <1>10, <1>11
    <2>2. /\ Cardinality(B) <= Cardinality(Burst(k))
          /\ Cardinality(B) \in Nat /\ Cardinality(Burst(k)) \in Nat
      BY <1>11, BurstSize
    <2> QED
      BY <1>0, <1>3, <1>4, <1>5, <1>7, <2>1, <2>2 DEF AtMost
  <1>12. CASE ~(B \subseteq Burst(k))
    <2>1. now[c] = clock /\ B \subseteq Burst(k) \cup {c}
      BY <1>9, <1>12
    <2>2. /\ Cardinality(B) \in Nat /\ Cardinality(Burst(k)) \in Nat
          /\ Cardinality(B) <= Cardinality(Burst(k)) + 1
      <3>1. IsFiniteSet(Burst(k) \cup {c})
        BY ModelAssumption, FS_Subset DEF Burst
      <3>2. Cardinality(B) \in Nat /\ Cardinality(B) <= Cardinality(Burst(k) \cup {c})
        BY <2>1, <3>1, FS_Subset, FS_CardinalityType
      <3>3. /\ Cardinality(Burst(k)) \in Nat
            /\ Cardinality(Burst(k) \cup {c}) = Cardinality(Burst(k)) + 1
        BY <1>6, BurstSize
      <3> QED
        BY <3>2, <3>3
    <2>3. CASE Burst(k) = {}
      <3>1. Cardinality(Burst(k)) = 0
        BY <2>3, FS_EmptySet
      <3>2. n.first_attempt_at + Window > clock
        BY <1>0, <1>3, <1>5, <2>1 DEF Resets
      <3> QED
        BY <1>0, <1>3, <1>4, <2>1, <2>2, <3>1, <3>2
    <2>4. CASE Burst(k) # {}
      <3>1. /\ n.attempts = AtMost(store[k].state.attempts + 1, AttemptsMax)
            /\ n.first_attempt_at + Window > clock
        BY <1>3, <1>7, <2>4
      <3>2. /\ Cardinality(Burst(k)) < BackoffAfter
            /\ Cardinality(Burst(k)) <= store[k].state.attempts
            /\ store[k].state.attempts \in Nat
        BY <1>5, <1>7, <2>4
      <3>3. Cardinality(B) <= n.attempts /\ Cardinality(B) <= BackoffAfter
        BY <1>0, <2>2, <3>1, <3>2 DEF AtMost
      <3> QED
        BY <1>0, <1>3, <1>4, <2>1, <2>2, <3>1, <3>3
    <2> QED
      BY <2>3, <2>4
  <1> QED
    BY <1>11, <1>12

\* Every step keeps bursts within their bound.
LEMMA BurstStep == ASSUME IndInv, [Next]_vars PROVE BurstInv'
  <1> SUFFICES ASSUME BaseBackoff > 0, Lockout > 0, NEW k \in Keys, Burst(k)' # {}
               PROVE  BurstOf(k)'
    BY DEF BurstInv, BurstOf
  <1>0. BurstOf(k)
    BY DEF IndInv, BurstInv
  <1>1. CASE \E c \in Calls : CasWon(c) /\ k = Head(todo[c])
    BY <1>0, <1>1, BurstSwap
  <1>2. CASE ~\E c \in Calls : CasWon(c) /\ k = Head(todo[c])
    <2>1. clock' = clock /\ Burst(k)' \subseteq Burst(k)
      BY <1>2, BurstMoves
    <2>2. store'[k] = store[k]
      BY <1>0, <1>2, <2>1, BurstHolds
    <2>3. PICK B : B = Burst(k)'
      OBVIOUS
    <2>4. /\ Cardinality(B) <= Cardinality(Burst(k)) /\ Burst(k) # {}
          /\ Cardinality(B) \in Nat /\ Cardinality(Burst(k)) \in Nat
      BY <2>1, <2>3, BurstSize
    <2>5. /\ store[k] # None /\ BackoffAfter \in Nat
          /\ store[k].state.attempts \in Nat
      <3>1. store[k] \in Snapshot
        BY <1>0, <2>4 DEF IndInv, TypeOK, BurstOf
      <3>2. store[k].state.attempts \in Nat
        BY <3>1 DEF Snapshot, State
      <3> QED
        BY <1>0, <2>4, <3>2, PolicyAssumption DEF validate, BurstOf
    <2>6. /\ Cardinality(B) <= BackoffAfter
          /\ Cardinality(B) <= store[k].state.attempts
          /\ Active(store[k], clock) \/ Cardinality(B) < BackoffAfter
      BY <1>0, <2>4, <2>5 DEF BurstOf
    <2> QED
      BY <1>0, <2>1, <2>2, <2>3, <2>4, <2>6 DEF BurstOf, Active, Control, After
  <1> QED
    BY <1>1, <1>2

-----------------------------------------------------------------------------
(* The theorems.                                                           *)

\* The invariant holds when the service starts.
LEMMA IndInvInit == ASSUME Init PROVE IndInv
  <1>1. TypeOK
    <2>1. /\ NoPermit \in [Keys -> Nat \cup {None}]
          /\ NoneKnown \in [Keys -> SUBSET Calls]
      BY DEF NoPermit, NoneKnown
    <2>2. 0 \in 0..MaxTries
      BY ModelAssumption
    <2> QED
      BY <2>1, <2>2, NoKeys DEF Init, TypeOK
  <1>2. ASSUME NEW c \in Calls
        PROVE  RequestOf(c) /\ ChargeOf(c) /\ SnapOf(c) /\ PermitOf(c) /\ SessionOf(c)
    BY NoKeys
    DEF Init, RequestOf, ChargeOf, SnapOf, PermitOf, SessionOf, NoPermit, Looping,
        Untouched
  <1>3. StoreInv /\ NoFailureLost
    BY DEF Init, StoreInv, NoFailureLost
  <1>4. BurstInv
    BY DEF Init, BurstInv, BurstOf, Burst
  <1> QED
    BY <1>1, <1>2, <1>3, <1>4 DEF IndInv, CallsInv

\* The counters, the calls and the history of what was charged agree in every
\* reachable state: the strengthening the theorems below rest on.
THEOREM Inductive == Spec => []IndInv
  <1>1. Init => IndInv
    BY IndInvInit
  <1>2. IndInv /\ [Next]_vars => IndInv'
    BY TypeStep, CallsStep, StoreStep, CountStep, BurstStep DEF IndInv
  <1> QED
    BY <1>1, <1>2, PTL DEF Spec

\* Every variable keeps its type; a counter never exceeds u32::MAX, and a call
\* gives up after MAX_RATE_LIMIT_CAS_RETRIES passes.
THEOREM TypeCorrect == Spec => []TypeOK
  <1>1. IndInv => TypeOK
    BY DEF IndInv
  <1> QED
    BY <1>1, Inductive, PTL

\* However reads and swaps of record_rate_limit_attempt_for_key interleave, a
\* counter counts each call that recorded on it exactly once.
THEOREM NoneLost == Spec => []NoFailureLost
  <1>1. IndInv => NoFailureLost
    BY DEF IndInv
  <1> QED
    BY <1>1, Inductive, PTL

\* login answers a wrong password after every key is charged, and a call that
\* was never verified, or succeeded, has charged none.
THEOREM Charged == Spec => []FailuresAreCharged
  <1>1. IndInv => FailuresAreCharged
    BY DEF IndInv, CallsInv, ChargeOf, FailuresAreCharged, Untouched, KeysIn
  <1> QED
    BY <1>1, Inductive, PTL

\* The second look at the user catches every change made while the counters
\* were being cleared.
THEOREM SessionCurrent == Spec => []SessionOnCurrentUser
  <1>1. IndInv => SessionOnCurrentUser
    BY DEF IndInv, CallsInv, SessionOf, SessionOnCurrentUser
  <1> QED
    BY <1>1, Inductive, PTL

\* The compare-and-swap admits at most backoff_after_attempts requests for one
\* key at one moment, however many of them race.
THEOREM BurstBounded == Spec => []RequestBurstBounded
  <1>1. ASSUME IndInv PROVE RequestBurstBounded
    <2> SUFFICES ASSUME BaseBackoff > 0, Lockout > 0, NEW k \in Keys
                 PROVE  Cardinality(Burst(k)) <= BackoffAfter
      BY DEF RequestBurstBounded, Burst
    <2>1. BurstOf(k)
      BY <1>1 DEF IndInv, BurstInv
    <2>2. BackoffAfter \in Nat
      BY PolicyAssumption DEF validate
    <2>3. Burst(k) = {} => Cardinality(Burst(k)) = 0
      BY FS_EmptySet
    <2> QED
      BY <2>1, <2>2, <2>3 DEF BurstOf
  <1> QED
    BY <1>1, Inductive, PTL

\* Clearing by the permit's revision removes no attempt that was recorded while
\* the password was being verified.
THEOREM ClearsOnlySeen == Spec => ClearKeepsNewer
  <1>1. ASSUME IndInv, [Next]_vars
        PROVE  [\A c \in Calls : \A k \in Keys :
                  ClearKey(c) /\ store[k] # None /\ store'[k] = None
                  => counted[k] \subseteq known[c][k]]_vars
    <2> SUFFICES ASSUME NEW c \in Calls, NEW k \in Keys,
                        ClearKey(c), store[k] # None, store'[k] = None
                 PROVE  counted[k] \subseteq known[c][k]
      OBVIOUS
    <2>1. TypeOK /\ PermitOf(c) /\ store[k] \in Snapshot \cup {None}
      BY <1>1 DEF IndInv, CallsInv, TypeOK
    <2>2. RevisionOf(store[k]) = permit[c][k]
      BY <2>1 DEF ClearKey, clear_auth_rate_limit_state, TypeOK
    <2> QED
      BY <2>1, <2>2, Revision DEF PermitOf
  <1> QED
    BY <1>1, Inductive, PTL DEF Spec, ClearKeepsNewer
-----------------------------------------------------------------------------
(* The worker pool that verifies passwords, for every number of workers,   *)
(* of calls and of queue places.                                           *)

\* The worker in recv is the one that holds the receiver's mutex, and only a
\* worker that runs holds a job.
PoolInv ==
  /\ PoolTypeOK
  /\ \A w \in Workers : wpc[w] = "recv" <=> lock = w
  /\ \A w \in Workers : wpc[w] # "run" => job[w] = Nobody

\* The queue keeps its bound, one worker at a time waits in it, and jobs are
\* taken up by workers that have none, for any number of each.
THEOREM PoolSafe == PoolSpec => []PoolInv
  <1>0. QueuedJobs \in Nat \ {0} /\ Nobody \notin Workers \cup Jobs
    BY PoolAssumption
  <1>1. PoolInit => PoolInv
    BY <1>0 DEF PoolInit, PoolInv, PoolTypeOK
  <1>2. ASSUME PoolInv, [PoolNext]_poolVars PROVE PoolInv'
    <2> USE <1>0, <1>2 DEF PoolInv, PoolTypeOK
    <2>1. CASE UNCHANGED poolVars
      BY <2>1 DEF poolVars
    <2>2. CASE SpawnFails
      BY <2>2 DEF SpawnFails
    <2>3. ASSUME NEW w \in Workers, Spawn(w) PROVE PoolInv'
      BY <2>3 DEF Spawn
    <2>4. ASSUME NEW w \in Workers, Lock(w) PROVE PoolInv'
      BY <2>4 DEF Lock
    <2>5. ASSUME NEW w \in Workers, Exit(w) PROVE PoolInv'
      BY <2>5 DEF Exit
    <2>6. ASSUME NEW w \in Workers, Receive(w) PROVE PoolInv'
      <3>1. Head(queue) \in Jobs /\ Tail(queue) \in Seq(Jobs) /\ Len(Tail(queue)) <= QueuedJobs
        BY <2>6 DEF Receive
      <3> QED
        BY <2>6, <3>1 DEF Receive, Remaining, LockAfterReceive
    <2>7. ASSUME NEW w \in Workers, Finish(w) PROVE PoolInv'
      <3>1. /\ job' = [job EXCEPT ![w] = Nobody] /\ wpc' = [wpc EXCEPT ![w] = "lock"]
            /\ wpc[w] = "run" /\ lock # w /\ UNCHANGED <<queue, lock, pool>>
        BY <2>7 DEF Finish, AfterPanic
      <3>2. answer' \in [Jobs -> {"idle", "waiting", "dropped", "result", "unavailable"}]
        BY <2>7 DEF Finish
      <3> QED
        BY <3>1, <3>2
    <2>8. ASSUME NEW c \in Jobs, Submit(c) PROVE PoolInv'
      <3>1. Append(queue, c) \in Seq(Jobs) /\ Len(Append(queue, c)) <= QueuedJobs
        BY <2>8 DEF Submit, Full
      <3> QED
        BY <2>8, <3>1 DEF Submit
    <2>9. ASSUME NEW c \in Jobs, SubmitFull(c) \/ Cancel(c) PROVE PoolInv'
      BY <2>9 DEF SubmitFull, Cancel
    <2> QED
      BY <2>1, <2>2, <2>3, <2>4, <2>5, <2>6, <2>7, <2>8, <2>9 DEF PoolNext
  <1> QED
    BY <1>1, <1>2, PTL DEF PoolSpec

Queued(c) == \E i \in DOMAIN queue : queue[i] = c

Held(c) == \E w \in Workers : job[w] = c

\* A job that was admitted gives up its place only by running to its end,
\* whatever its caller does.
THEOREM PoolCharged == PoolSpec => StaysCharged
  <1>1. \A c : InFlight(c) <=> Queued(c) \/ Held(c)
    BY DEF InFlight, Queued, Held
  <1>2. ASSUME PoolInv, PoolNext, NEW c \in Jobs,
               Queued(c) \/ Held(c), ~(Queued(c)' \/ Held(c)')
        PROVE  \E w \in Workers : job[w] = c /\ wpc[w] = "run"
    <2>1. CASE UNCHANGED <<queue, job>>
      BY <1>2, <2>1 DEF Queued, Held
    <2>2. ASSUME NEW d \in Jobs, Submit(d) PROVE FALSE
      <3>1. UNCHANGED job /\ queue' = Append(queue, d) /\ queue \in Seq(Jobs)
        BY <1>2, <2>2 DEF Submit, PoolInv, PoolTypeOK
      <3>2. \A i \in DOMAIN queue : i \in DOMAIN queue' /\ queue'[i] = queue[i]
        BY <3>1
      <3> QED
        BY <1>2, <3>1, <3>2 DEF Queued, Held
    <2>3. ASSUME NEW w \in Workers, Receive(w) PROVE FALSE
      <3>1. /\ queue \in Seq(Jobs) /\ queue # <<>> /\ queue' = Tail(queue)
            /\ job' = [job EXCEPT ![w] = Head(queue)] /\ job[w] = Nobody
            /\ job \in [Workers -> Jobs \cup {Nobody}]
        BY <1>2, <2>3 DEF Receive, Remaining, PoolInv, PoolTypeOK
      <3>2. ~Held(c)
        BY <1>2, <3>1, PoolAssumption DEF Held
      <3>3. PICK i \in DOMAIN queue : queue[i] = c
        BY <1>2, <3>2 DEF Queued
      <3>4. CASE i = 1
        <4>1. job'[w] = c
          BY <3>1, <3>3, <3>4
        <4> QED
          BY <1>2, <4>1 DEF Held
      <3>5. CASE i # 1
        <4>1. i - 1 \in DOMAIN queue' /\ queue'[i - 1] = c
          BY <3>1, <3>3, <3>5
        <4> QED
          BY <1>2, <4>1 DEF Queued
      <3> QED
        BY <3>4, <3>5
    <2>4. ASSUME NEW w \in Workers, Finish(w)
          PROVE  \E v \in Workers : job[v] = c /\ wpc[v] = "run"
      <3>1. UNCHANGED queue /\ job' = [job EXCEPT ![w] = Nobody] /\ wpc[w] = "run"
        BY <2>4 DEF Finish
      <3>2. PICK v \in Workers : job[v] = c
        BY <1>2, <3>1 DEF Queued, Held
      <3>3. v = w
        BY <1>2, <3>1, <3>2 DEF Held, PoolInv, PoolTypeOK
      <3> QED
        BY <3>1, <3>2, <3>3
    <2> QED
      BY <1>2, <2>1, <2>2, <2>3, <2>4
         DEF PoolNext, SpawnFails, Spawn, Lock, Exit,
             SubmitFull, Cancel
  <1>3. PoolInv /\ [PoolNext]_poolVars =>
          [\A c \in Jobs : InFlight(c) /\ ~InFlight(c)' =>
             \E w \in Workers : job[w] = c /\ wpc[w] = "run"]_poolVars
    BY <1>1, <1>2 DEF InFlight, Queued, Held
  <1> QED
    BY <1>3, PoolSafe, PTL DEF PoolSpec, StaysCharged
==========================================================================
