----------------------------- MODULE RateLimit -----------------------------
(***************************************************************************)
(* Abuse protection of AuthService: versioned counters with backoff and    *)
(* lockout, the password login that consults them, and the request-        *)
(* admission helpers for password resets and login codes.                  *)
(*                                                                         *)
(* A call keeps its local variables in todo, now, hit, permit, snap, tries *)
(* and found, and each await (counter store, user store, password pool) is *)
(* one step.  A flow with no key, or a disabled policy, is a call with an  *)
(* empty list of keys.                                                     *)
(***************************************************************************)
EXTENDS Integers, Sequences, FiniteSets

CONSTANTS
    Keys,           \* AuthRateLimitKey: flow, bucket and hashed value
    LoginKeys,      \* rate_limit_keys of a login: principal, then client
    RequestKeys,    \* the same for a request; another flow has other keys
    Calls,          \* calls to login and to the should_process_* helpers
    Users,          \* principals
    Hashes,         \* password hashes; a password matches one of them
    None,           \* Rust's None
    Window, StateTTL, Lockout, BaseBackoff, MaxBackoff,
    BackoffAfter,   \* backoff_after_attempts
    LockAfter,      \* max_attempts_before_lockout
    AttemptsMax,    \* u32::MAX
    MaxTries,       \* MAX_RATE_LIMIT_CAS_RETRIES
    MaxClock,       \* bound on time, for model checking
    MaxUpdates      \* bound on changes to users, for model checking

\* AuthRateLimitPolicy::validate.
validate ==
    /\ Window \in Nat \ {0}
    /\ StateTTL \in Nat \ {0}
    /\ {Lockout, BaseBackoff, MaxBackoff} \subseteq Nat
    /\ BaseBackoff <= MaxBackoff
    /\ BackoffAfter \in Nat \ {0}
    /\ LockAfter \in Nat
    /\ BackoffAfter <= LockAfter

\* backoff_after_attempts is a u32, as the count of attempts is.
ASSUME PolicyAssumption ==
    /\ validate
    /\ AttemptsMax \in Nat
    /\ BackoffAfter <= AttemptsMax

ASSUME ModelAssumption ==
    /\ LoginKeys \cup RequestKeys \subseteq Seq(Keys)
    /\ MaxTries \in Nat \ {0}
    /\ MaxClock \in Nat
    /\ MaxUpdates \in Nat
    /\ None \notin Int \cup Users \cup Hashes
    /\ IsFiniteSet(Calls)
    /\ \A s \in LoginKeys \cup RequestKeys : \A i, j \in DOMAIN s :
         s[i] = s[j] => i = j
    /\ \A s \in LoginKeys, r \in RequestKeys :
         \A i \in DOMAIN s, j \in DOMAIN r : s[i] # r[j]

\* AuthRateLimitState, and the snapshot that adds a revision.  A revision is a
\* fresh Uuid; fresh counts those handed out.
State ==
    [attempts: 1..AttemptsMax, first_attempt_at: Int,
     backoff_until: Int \cup {None}, locked_until: Int \cup {None},
     expires_at: Int]

Snapshot == [state: State, revision: Nat]

UserRecord == [status: {"enabled", "disabled", "missing"}, hash: Hashes]

Request == [kind: {"login", "request"}, keys: Seq(Keys),
            user: Users \cup {None}, password: Hashes \cup {None}]

ASSUME RecordAssumption == None \notin Snapshot \cup UserRecord \cup Request

VARIABLES
    clock,      \* time
    users,      \* the host's user store
    updates,    \* number of changes made to users
    store,      \* the counters: key -> snapshot or None
    fresh,      \* revisions handed out
    pc,         \* where each call is, and its result once it returned
    request,    \* what each call was given
    todo,       \* keys of the current loop not done yet
    now,        \* the call's `now`, read once before a loop over the keys
    hit,        \* the worst control reject_if_rate_limited has met
    permit,     \* RateLimitPermit: the revision observed for each key
    snap,       \* the snapshot a compare-and-swap starts from
    tries,      \* passes of the compare-and-swap loop lost
    found,      \* the user record login read by principal
    counted,    \* history: the attempts that a key's state stands for
    known,      \* history: the attempts that a permit has seen
    charged,    \* history: keys that each call's attempt was recorded for
    witness     \* history: user records in force since each verification

world == <<clock, users, updates>>
counters == <<store, fresh, counted, charged>>
locals == <<request, todo, now, hit, permit, snap, tries, found, known>>
vars == <<world, counters, pc, locals, witness>>

Steps == {"reject", "lookup", "verify", "record", "cas", "clear", "current",
          "issue"}

\* "Changed" is the answer to a login whose user changed while it ran, and
\* "Failed" stands for any error of a store and for a dropped call.
Results == {"Session", "Admitted", "Denied", "Locked", "Throttled", "Invalid",
            "Disabled", "Changed", "Unavailable", "Contention", "Failed"}

NoPermit == [k \in Keys |-> None]

NoneKnown == [k \in Keys |-> {}]

TypeOK ==
    /\ clock \in Nat
    /\ users \in [Users -> UserRecord]
    /\ updates \in Nat
    /\ store \in [Keys -> Snapshot \cup {None}]
    /\ fresh \in Nat
    /\ pc \in [Calls -> {"idle"} \cup Steps \cup Results]
    /\ request \in [Calls -> Request \cup {None}]
    /\ todo \in [Calls -> Seq(Keys)]
    /\ now \in [Calls -> Int]
    /\ hit \in [Calls -> {"open", "throttled", "locked"}]
    /\ permit \in [Calls -> [Keys -> Nat \cup {None}]]
    /\ snap \in [Calls -> Snapshot \cup {None}]
    /\ tries \in [Calls -> 0..MaxTries]
    /\ found \in [Calls -> UserRecord \cup {None}]
    /\ counted \in [Keys -> SUBSET Calls]
    /\ known \in [Calls -> [Keys -> SUBSET Calls]]
    /\ charged \in [Calls -> SUBSET Keys]
    /\ witness \in [Calls -> SUBSET UserRecord]

-----------------------------------------------------------------------------
(* The state machine of one counter.                                       *)

AtLeast(a, b) == IF a >= b THEN a ELSE b

AtMost(a, b) == IF a <= b THEN a ELSE b

After(until, t) == until # None /\ until > t

\* active_rate_limit_error, and the same decision in reject_if_rate_limited.
Control(state, t) ==
    IF state.expires_at <= t THEN "open"
    ELSE IF After(state.locked_until, t) THEN "locked"
    ELSE IF After(state.backoff_until, t) THEN "throttled"
    ELSE "open"

Active(entry, t) == entry # None /\ Control(entry.state, t) # "open"

\* The code doubles up to 30 times and stops at max_backoff.
backoff_duration(attempts) ==
    AtMost(BaseBackoff * 2 ^ AtMost(attempts - BackoffAfter, 30), MaxBackoff)

Resets(entry, t) ==
    \/ entry = None
    \/ entry.state.expires_at <= t
    \/ entry.state.first_attempt_at + Window <= t

\* max_time over the optional ends of a control.
Latest(t, until) == IF until = None THEN t ELSE AtLeast(t, until)

saturating_add(attempts) == AtMost(attempts + 1, AttemptsMax)

next_rate_limit_state(entry, t) ==
    LET fresh_window == Resets(entry, t)
        attempts == IF fresh_window THEN 1
                    ELSE saturating_add(entry.state.attempts)
        first == IF fresh_window THEN t ELSE entry.state.first_attempt_at
        locked == IF attempts >= LockAfter THEN t + Lockout ELSE None
        backoff == IF attempts >= BackoffAfter /\ attempts < LockAfter
                   THEN t + backoff_duration(attempts) ELSE None
    IN  [attempts |-> attempts,
         first_attempt_at |-> first,
         backoff_until |-> backoff,
         locked_until |-> locked,
         expires_at |-> Latest(Latest(AtLeast(t + StateTTL, first + Window),
                                      backoff), locked)]

RevisionOf(entry) == IF entry = None THEN None ELSE entry.revision

-----------------------------------------------------------------------------
(* The environment.                                                        *)

Running(c) == pc[c] \in Steps

Tick ==
    /\ clock < MaxClock
    /\ clock' = clock + 1
    /\ UNCHANGED <<users, updates, counters, pc, locals, witness>>

\* The host disables, deletes or restores a user, or its password changes.
UpdateUser(u) ==
    /\ updates < MaxUpdates
    /\ updates' = updates + 1
    /\ \E r \in UserRecord :
         /\ r # users[u]
         /\ users' = [users EXCEPT ![u] = r]
         /\ witness' = [c \in Calls |->
              IF pc[c] \in {"clear", "current", "issue"} /\ request[c].user = u
              THEN witness[c] \cup {r}
              ELSE witness[c]]
    /\ UNCHANGED <<clock, counters, pc, locals>>

\* A store may delete a record once it has expired.
Reclaim(k) ==
    /\ store[k] # None
    /\ store[k].state.expires_at <= clock
    /\ store' = [store EXCEPT ![k] = None]
    /\ counted' = [counted EXCEPT ![k] = {}]
    /\ UNCHANGED <<world, fresh, charged, pc, locals, witness>>

Go(c, step) == pc' = [pc EXCEPT ![c] = step]

\* The call returns and its local variables are gone.
Return(c, result) ==
    /\ Go(c, result)
    /\ todo' = [todo EXCEPT ![c] = <<>>]
    /\ hit' = [hit EXCEPT ![c] = "open"]
    /\ permit' = [permit EXCEPT ![c] = NoPermit]
    /\ known' = [known EXCEPT ![c] = NoneKnown]
    /\ snap' = [snap EXCEPT ![c] = None]
    /\ tries' = [tries EXCEPT ![c] = 0]
    /\ found' = [found EXCEPT ![c] = None]
    /\ UNCHANGED <<request, now>>

\* A store error, an overflow of a time, or the caller drops the call.
Fail(c) ==
    /\ Running(c)
    /\ Return(c, "Failed")
    /\ UNCHANGED <<world, counters, witness>>

-----------------------------------------------------------------------------
(* The store's atomic operations.                                          *)

\* Mutant: the revision is not compared.
compare_exchange_auth_rate_limit_state_Blind(k, expected, replacement) ==
    store' = [store EXCEPT ![k] = replacement]

\* The successful half.  A full store, or a replacement that has already
\* expired, is an error of the store: Fail.
compare_exchange_auth_rate_limit_state(k, expected, replacement) ==
    /\ RevisionOf(store[k]) = expected
    /\ store' = [store EXCEPT ![k] = replacement]

\* Mutant: whatever is stored is cleared.
clear_auth_rate_limit_state_Blind(k, expected) ==
    /\ store' = [store EXCEPT ![k] = None]
    /\ counted' = [counted EXCEPT ![k] = {}]

clear_auth_rate_limit_state(k, expected) ==
    IF RevisionOf(store[k]) = expected
    THEN /\ store' = [store EXCEPT ![k] = None]
         /\ counted' = [counted EXCEPT ![k] = {}]
    ELSE UNCHANGED <<store, counted>>

-----------------------------------------------------------------------------
(* login and the should_process_* helpers.                                 *)

LoginRequest(keys, u, p) ==
    [kind |-> "login", keys |-> keys, user |-> u, password |-> p]

AdmissionRequest(keys) ==
    [kind |-> "request", keys |-> keys, user |-> None, password |-> None]

\* Both entry points read the clock and then loop over the keys; without keys
\* there is no loop.
Begin(c, r, loop, without) ==
    /\ pc[c] = "idle"
    /\ request' = [request EXCEPT ![c] = r]
    /\ todo' = [todo EXCEPT ![c] = r.keys]
    /\ now' = [now EXCEPT ![c] = clock]
    /\ Go(c, IF r.keys = <<>> THEN without ELSE loop)
    /\ UNCHANGED <<world, counters, hit, permit, snap, tries, found, known,
                   witness>>

BeginLogin(c) ==
    \E keys \in LoginKeys, u \in Users, p \in Hashes :
         Begin(c, LoginRequest(keys, u, p), "reject", "lookup")

BeginRequest(c) ==
    \E keys \in RequestKeys :
         Begin(c, AdmissionRequest(keys), "record", "Admitted")

\* reject_if_rate_limited reads one key after the other.
Level(c) == IF store[Head(todo[c])] = None THEN "open"
            ELSE Control(store[Head(todo[c])].state, now[c])

Worst(c) == IF "locked" \in {hit[c], Level(c)} THEN "locked"
            ELSE IF "throttled" \in {hit[c], Level(c)} THEN "throttled"
            ELSE "open"

LastKey(c) == Len(todo[c]) = 1

RejectRead(c) ==
    /\ pc[c] = "reject"
    /\ LastKey(c) => Worst(c) = "open"
    /\ hit' = [hit EXCEPT ![c] = Worst(c)]
    /\ permit' = [permit EXCEPT ![c][Head(todo[c])] =
                    RevisionOf(store[Head(todo[c])])]
    /\ known' = [known EXCEPT ![c][Head(todo[c])] = counted[Head(todo[c])]]
    /\ todo' = [todo EXCEPT ![c] = Tail(@)]
    /\ Go(c, IF LastKey(c) THEN "lookup" ELSE "reject")
    /\ UNCHANGED <<world, counters, request, now, snap, tries, found, witness>>

RejectDenied(c) ==
    /\ pc[c] = "reject"
    /\ LastKey(c)
    /\ Worst(c) # "open"
    /\ Return(c, IF Worst(c) = "locked" THEN "Locked" ELSE "Throttled")
    /\ UNCHANGED <<world, counters, witness>>

Lookup(c) ==
    /\ pc[c] = "lookup"
    /\ found' = [found EXCEPT ![c] = users[request[c].user]]
    /\ Go(c, "verify")
    /\ UNCHANGED <<world, counters, request, todo, now, hit, permit, snap,
                   tries, known, witness>>

\* The password pool is saturated or its worker failed.
VerifyUnavailable(c) ==
    /\ pc[c] = "verify"
    /\ Return(c, "Unavailable")
    /\ UNCHANGED <<world, counters, witness>>

\* An unknown or disabled user costs dummy work and never passes.
Passes(c) ==
    /\ found[c].status = "enabled"
    /\ found[c].hash = request[c].password

VerifyPassed(c) ==
    /\ pc[c] = "verify"
    /\ Passes(c)
    /\ todo' = [todo EXCEPT ![c] = request[c].keys]
    /\ witness' = [witness EXCEPT ![c] = {users[request[c].user]}]
    /\ Go(c, IF request[c].keys = <<>> THEN "current" ELSE "clear")
    /\ UNCHANGED <<world, counters, request, now, hit, permit, snap, tries,
                   found, known>>

\* What the call answers once its attempt has been recorded.
Verdict(c) ==
    IF request[c].kind = "request" THEN "Admitted"
    ELSE IF found[c].status = "disabled" THEN "Disabled"
    ELSE "Invalid"

\* Mutant: a disabled user is turned away without a count.
VerifyFailed_DisabledFree(c) ==
    /\ pc[c] = "verify"
    /\ ~Passes(c)
    /\ IF request[c].keys = <<>> \/ found[c].status = "disabled"
       THEN Return(c, Verdict(c))
       ELSE /\ todo' = [todo EXCEPT ![c] = request[c].keys]
            /\ now' = [now EXCEPT ![c] = clock]
            /\ Go(c, "record")
            /\ UNCHANGED <<request, hit, permit, snap, tries, found, known>>
    /\ UNCHANGED <<world, counters, witness>>

VerifyFailed(c) ==
    /\ pc[c] = "verify"
    /\ ~Passes(c)
    /\ IF request[c].keys = <<>>
       THEN Return(c, Verdict(c))
       ELSE /\ todo' = [todo EXCEPT ![c] = request[c].keys]
            /\ now' = [now EXCEPT ![c] = clock]
            /\ Go(c, "record")
            /\ UNCHANGED <<request, hit, permit, snap, tries, found, known>>
    /\ UNCHANGED <<world, counters, witness>>

-----------------------------------------------------------------------------
(* record_rate_limit_attempt_for_key: read, decide, compare-and-swap.      *)

Denies(c) == /\ request[c].kind = "request"
             /\ Active(store[Head(todo[c])], now[c])

RecordRead(c) ==
    /\ pc[c] = "record"
    /\ tries[c] < MaxTries
    /\ ~Denies(c)
    /\ snap' = [snap EXCEPT ![c] = store[Head(todo[c])]]
    /\ Go(c, "cas")
    /\ UNCHANGED <<world, counters, request, todo, now, hit, permit, tries,
                   found, known, witness>>

RecordDenied(c) ==
    /\ pc[c] = "record"
    /\ tries[c] < MaxTries
    /\ Denies(c)
    /\ Return(c, "Denied")
    /\ UNCHANGED <<world, counters, witness>>

RecordExhausted(c) ==
    /\ pc[c] = "record"
    /\ tries[c] = MaxTries
    /\ Return(c, "Contention")
    /\ UNCHANGED <<world, counters, witness>>

CasWon(c) ==
    LET k == Head(todo[c])
    IN  /\ pc[c] = "cas"
        /\ compare_exchange_auth_rate_limit_state(k, RevisionOf(snap[c]),
             [state |-> next_rate_limit_state(snap[c], now[c]),
              revision |-> fresh])
        /\ fresh' = fresh + 1
        /\ counted' = [counted EXCEPT ![k] =
             IF Resets(store[k], now[c]) THEN {c} ELSE @ \cup {c}]
        /\ charged' = [charged EXCEPT ![c] = @ \cup {k}]
        /\ IF LastKey(c)
           THEN Return(c, Verdict(c))
           ELSE /\ todo' = [todo EXCEPT ![c] = Tail(@)]
                /\ tries' = [tries EXCEPT ![c] = 0]
                /\ snap' = [snap EXCEPT ![c] = None]
                /\ Go(c, "record")
                /\ UNCHANGED <<request, now, hit, permit, found, known>>
        /\ UNCHANGED <<world, witness>>

CasLost(c) ==
    /\ pc[c] = "cas"
    /\ RevisionOf(store[Head(todo[c])]) # RevisionOf(snap[c])
    /\ tries' = [tries EXCEPT ![c] = @ + 1]
    /\ snap' = [snap EXCEPT ![c] = None]
    /\ Go(c, "record")
    /\ UNCHANGED <<world, counters, request, todo, now, hit, permit, found,
                   known, witness>>

-----------------------------------------------------------------------------
(* A verified login clears what its permit saw and looks at the user again. *)

ClearKey(c) ==
    /\ pc[c] = "clear"
    /\ clear_auth_rate_limit_state(Head(todo[c]), permit[c][Head(todo[c])])
    /\ todo' = [todo EXCEPT ![c] = Tail(@)]
    /\ Go(c, IF LastKey(c) THEN "current" ELSE "clear")
    /\ UNCHANGED <<world, fresh, charged, request, now, hit, permit, snap,
                   tries, found, known, witness>>

\* Mutant: the second look is for disabled users only.
StillValid_NoHash(c) == users[request[c].user].status = "enabled"

StillValid(c) ==
    /\ users[request[c].user].status = "enabled"
    /\ users[request[c].user].hash = found[c].hash

CurrentAccepted(c) ==
    /\ pc[c] = "current"
    /\ StillValid(c)
    /\ Go(c, "issue")
    /\ UNCHANGED <<world, counters, locals, witness>>

CurrentRefused(c) ==
    /\ pc[c] = "current"
    /\ ~StillValid(c)
    /\ Return(c, "Changed")
    /\ UNCHANGED <<world, counters, witness>>

\* issue_auth_payload: the session is RefreshRotation's Issue.
IssueSession(c) ==
    /\ pc[c] = "issue"
    /\ Return(c, "Session")
    /\ UNCHANGED <<world, counters, witness>>

-----------------------------------------------------------------------------
Init ==
    /\ clock = 0
    /\ users \in [Users -> UserRecord]
    /\ updates = 0
    /\ store = [k \in Keys |-> None]
    /\ fresh = 0
    /\ pc = [c \in Calls |-> "idle"]
    /\ request = [c \in Calls |-> None]
    /\ todo = [c \in Calls |-> <<>>]
    /\ now = [c \in Calls |-> 0]
    /\ hit = [c \in Calls |-> "open"]
    /\ permit = [c \in Calls |-> NoPermit]
    /\ snap = [c \in Calls |-> None]
    /\ tries = [c \in Calls |-> 0]
    /\ found = [c \in Calls |-> None]
    /\ counted = [k \in Keys |-> {}]
    /\ known = [c \in Calls |-> NoneKnown]
    /\ charged = [c \in Calls |-> {}]
    /\ witness = [c \in Calls |-> {}]

Step(c) ==
    \/ RejectRead(c) \/ RejectDenied(c) \/ Lookup(c)
    \/ VerifyUnavailable(c) \/ VerifyPassed(c) \/ VerifyFailed(c)
    \/ RecordRead(c) \/ RecordDenied(c) \/ RecordExhausted(c)
    \/ CasWon(c) \/ CasLost(c)
    \/ ClearKey(c) \/ CurrentAccepted(c) \/ CurrentRefused(c)
    \/ IssueSession(c)

Next ==
    \/ Tick
    \/ \E u \in Users : UpdateUser(u)
    \/ \E k \in Keys : Reclaim(k)
    \/ \E c \in Calls : BeginLogin(c) \/ BeginRequest(c)
    \/ \E c \in Calls : Step(c) \/ Fail(c)

Spec == Init /\ [][Next]_vars

-----------------------------------------------------------------------------
(* Properties.                                                             *)

\* No recorded failure is lost: the count of a key is the number of distinct
\* calls that recorded on it since it was last cleared, reclaimed or reset,
\* however their reads and swaps interleave (it saturates at u32::MAX).
NoFailureLost ==
    \A k \in Keys :
      store[k] # None =>
        store[k].state.attempts = AtMost(Cardinality(counted[k]), AttemptsMax)

\* A successful login clears only what it saw before it verified: an attempt
\* that was recorded while it ran stays on the counter.
ClearKeepsNewer ==
    [][\A c \in Calls : \A k \in Keys :
         ClearKey(c) /\ store[k] # None /\ store'[k] = None
         => counted[k] \subseteq known[c][k]]_vars

\* A refused password is charged to every key before the answer goes out; a
\* login that was never verified, whose pool was busy or that succeeded is
\* charged to none, so honest users are not locked out by an overloaded pool.
FailuresAreCharged ==
    \A c \in Calls :
      /\ pc[c] \in {"Invalid", "Disabled", "Admitted"} =>
           charged[c] = {request[c].keys[i] : i \in DOMAIN request[c].keys}
      /\ pc[c] \in {"Locked", "Throttled", "Unavailable", "Changed", "Session"}
           => charged[c] = {}

\* A session is opened only if, at some moment after the password had been
\* verified, the user was enabled and still had that password.
SessionOnCurrentUser ==
    \A c \in Calls :
      pc[c] = "Session" =>
        \E r \in witness[c] : /\ r.status = "enabled"
                              /\ r.hash = request[c].password

\* Of the requests made at the present time for one key, no more are admitted
\* than it takes to start the backoff: two that race do not both go through
\* on one reading of the counter.  (A request that stalls for longer than the
\* state of its key lives is judged by the time it was made at.)
RequestBurstBounded ==
    BaseBackoff > 0 /\ Lockout > 0 =>
      \A k \in Keys :
        Cardinality({c \in Calls : /\ request[c] # None
                                   /\ request[c].kind = "request"
                                   /\ now[c] = clock
                                   /\ k \in charged[c]}) <= BackoffAfter

\* A lockout lasts for lockout_duration: no step ends one that is in force.
LockoutRunsItsTime ==
    [][\A k \in Keys :
         /\ store[k] # None
         /\ Control(store[k].state, clock') = "locked"
         => /\ store'[k] # None
            /\ Control(store'[k].state, clock') = "locked"]_vars
=============================================================================
