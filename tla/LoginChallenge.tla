--------------------------- MODULE LoginChallenge ---------------------------
(***************************************************************************)
(* One-time login codes: create_login_challenge,                           *)
(* verify_login_challenge_with_metadata and the LoginChallengeStore they   *)
(* share.                                                                  *)
(*                                                                         *)
(* Each await of a verification is one step, so that time passes and other *)
(* calls run between any two of them.  The counters behind the gates are   *)
(* the subject of RateLimit: here a gate admits or refuses, and charged    *)
(* tells which calls recorded a failed attempt.  The fields of a challenge *)
(* never change apart from attempts and consumed_at, so a call's copy of   *)
(* the others is not kept separately.                                      *)
(***************************************************************************)
EXTENDS Integers, FiniteSets

CONSTANTS
    Challenges,     \* challenge ids; Uuids, never reused
    Calls,          \* calls to verify_login_challenge_with_metadata
    None,           \* Rust's None
    Ttl,            \* LoginChallengeOptions.ttl
    MaxAttempts,    \* LoginChallengeOptions.max_attempts
    MaxClock        \* bound on time, for model checking

\* validate_login_challenge_options.
ASSUME OptionsAssumption ==
    /\ Ttl \in Nat \ {0}
    /\ MaxAttempts \in Nat \ {0}

ASSUME CallsAssumption ==
    /\ IsFiniteSet(Calls)
    /\ MaxClock \in Nat
    /\ None \notin Challenges \cup Calls \cup Nat

VARIABLES
    clock,          \* login_challenge_clock
    row,            \* the store: is a challenge not "new" any more?
    expires_at,     \* StoredLoginChallenge.expires_at
    attempts,       \* StoredLoginChallenge.attempts
    consumed_at,    \* StoredLoginChallenge.consumed_at
    pc,             \* where each call is, and its result once it returned
    id,             \* challenge_id of each call
    code,           \* whether the code it presents is the issued one
    seen,           \* attempts of the challenge it found
    spent,          \* was the challenge it found consumed?
    time,           \* attempted_at, then verified_at
    reserved,       \* attempts of the snapshot its reservation returned
    work,           \* what the password worker answered
    consumed,       \* what consume_login_challenge answered
    charged,        \* history: calls that recorded a failed attempt
    admitted,       \* history: calls whose attempt was reserved
    spender         \* history: the call that consumed each challenge

table == <<row, expires_at, attempts, consumed_at>>
locals == <<id, code, seen, spent, time, reserved, work, consumed>>
history == <<charged, admitted, spender>>
vars == <<clock, table, pc, locals, history>>

Steps == {"find", "admit", "attempt", "reserve", "reserved", "work",
          "verified", "record", "consume", "consumed", "clear"}

Results == {"Limited", "Invalid", "Replayed", "Expired", "Exhausted",
            "InvalidCode", "Unavailable", "Failed", "Ok"}

TypeOK ==
    /\ clock \in Nat
    /\ row \in [Challenges -> {"new", "composed", "stored", "deleted"}]
    /\ expires_at \in [Challenges -> Nat]
    /\ attempts \in [Challenges -> 0..MaxAttempts]
    /\ consumed_at \in [Challenges -> Nat \cup {None}]
    /\ pc \in [Calls -> {"idle"} \cup Steps \cup Results]
    /\ id \in [Calls -> Challenges \cup {None}]
    /\ code \in [Calls -> {"right", "wrong"}]
    /\ seen \in [Calls -> Nat]
    /\ spent \in [Calls -> BOOLEAN]
    /\ consumed \in [Calls -> {"none", "true", "false"}]
    /\ time \in [Calls -> Nat]
    /\ reserved \in [Calls -> Nat]
    /\ work \in [Calls -> {"none", "ok", "wrong", "late", "unavailable"}]
    /\ charged \in SUBSET Calls
    /\ admitted \in [Challenges -> SUBSET Calls]
    /\ spender \in [Challenges -> Calls \cup {None}]

is_expired(ch, t) == expires_at[ch] <= t

is_consumed(ch) == consumed_at[ch] # None

attempts_exhausted(n) == n >= MaxAttempts

-----------------------------------------------------------------------------
(* The environment and the creation of a challenge.                        *)

Tick ==
    /\ clock < MaxClock
    /\ clock' = clock + 1
    /\ UNCHANGED <<table, pc, locals, history>>

\* The code is hashed; its expiry counts from before the store has the row.
Compose(ch) ==
    /\ row[ch] = "new"
    /\ row' = [row EXCEPT ![ch] = "composed"]
    /\ expires_at' = [expires_at EXCEPT ![ch] = clock + Ttl]
    /\ UNCHANGED <<clock, attempts, consumed_at, pc, locals, history>>

insert_login_challenge(ch) ==
    /\ row[ch] = "composed"
    /\ row' = [row EXCEPT ![ch] = "stored"]
    /\ UNCHANGED <<clock, expires_at, attempts, consumed_at, pc, locals,
                   history>>

\* A host deletes challenges that are out of date.
Delete(ch) ==
    /\ row[ch] = "stored"
    /\ is_expired(ch, clock)
    /\ row' = [row EXCEPT ![ch] = "deleted"]
    /\ UNCHANGED <<clock, expires_at, attempts, consumed_at, pc, locals,
                   history>>

-----------------------------------------------------------------------------
(* A verification, up to the reservation of an attempt.                    *)

Go(c, step) == pc' = [pc EXCEPT ![c] = step]

\* A gate refuses, a store answers with an error, or the caller drops the call.
Fail(c) ==
    /\ pc[c] \in Steps
    /\ \/ pc[c] \in {"find", "admit"} /\ Go(c, "Limited")
       \/ Go(c, "Failed")
    /\ UNCHANGED <<clock, table, locals, history>>

Begin(c) ==
    /\ pc[c] = "idle"
    /\ \E ch \in Challenges, presented \in {"right", "wrong"} :
         /\ presented = "right" => row[ch] # "new"
         /\ id' = [id EXCEPT ![c] = ch]
         /\ code' = [code EXCEPT ![c] = presented]
    /\ Go(c, "find")
    /\ UNCHANGED <<clock, table, seen, spent, time, reserved, work, consumed,
                   history>>

Find(c) ==
    /\ pc[c] = "find"
    /\ seen' = [seen EXCEPT ![c] = attempts[id[c]]]
    /\ spent' = [spent EXCEPT ![c] = is_consumed(id[c])]
    /\ Go(c, IF row[id[c]] = "stored" THEN "admit" ELSE "Invalid")
    /\ UNCHANGED <<clock, table, id, code, time, reserved, work, consumed,
                   history>>

\* The second gate has passed; the copy that was found may be out of date.
Admit(c) ==
    /\ pc[c] = "admit"
    /\ Go(c, IF spent[c] THEN "Replayed"
             ELSE IF is_expired(id[c], clock) THEN "Expired"
             ELSE IF attempts_exhausted(seen[c]) THEN "Exhausted"
             ELSE "attempt")
    /\ UNCHANGED <<clock, table, locals, history>>

\* attempted_at, read on the way into the store.
Attempt(c) ==
    /\ pc[c] = "attempt"
    /\ time' = [time EXCEPT ![c] = clock]
    /\ Go(c, "reserve")
    /\ UNCHANGED <<clock, table, id, code, seen, spent, reserved, work,
                   consumed, history>>

\* reserve_login_challenge_attempt is one transaction of the store.
Reservable(c) ==
    /\ row[id[c]] = "stored"
    /\ ~is_consumed(id[c])
    /\ ~is_expired(id[c], time[c])
    /\ ~attempts_exhausted(attempts[id[c]])

\* Mutant: the count is computed from the copy that was read first.
Incremented_Stale(c) == seen[c] + 1

Incremented(c) == attempts[id[c]] + 1

Reserve(c) ==
    /\ pc[c] = "reserve"
    /\ Reservable(c)
    /\ attempts' = [attempts EXCEPT ![id[c]] = Incremented(c)]
    /\ reserved' = [reserved EXCEPT ![c] = Incremented(c)]
    /\ admitted' = [admitted EXCEPT ![id[c]] = @ \cup {c}]
    /\ Go(c, "reserved")
    /\ UNCHANGED <<clock, row, expires_at, consumed_at, id, code, seen, spent,
                   time, work, consumed, charged, spender>>

ReserveRefused(c) ==
    /\ pc[c] = "reserve"
    /\ ~Reservable(c)
    /\ Go(c, IF row[id[c]] # "stored" THEN "Invalid"
             ELSE IF is_consumed(id[c]) THEN "Replayed"
             ELSE IF is_expired(id[c], time[c]) THEN "Expired"
             ELSE "Exhausted")
    /\ UNCHANGED <<clock, table, locals, history>>

-----------------------------------------------------------------------------
(* From the reservation to the answer.                                     *)

\* Mutant: the last attempt of the budget is taken for one too many.
Plausible_LastRefused(c) ==
    /\ reserved[c] > seen[c]
    /\ reserved[c] < MaxAttempts

\* The snapshot counts this attempt and stays within the budget.
Plausible(c) ==
    /\ reserved[c] > seen[c]
    /\ reserved[c] <= MaxAttempts

CheckReserved(c) ==
    /\ pc[c] = "reserved"
    /\ Go(c, IF ~Plausible(c) THEN "Unavailable"
             ELSE IF is_expired(id[c], clock) THEN "Expired"
             ELSE "work")
    /\ UNCHANGED <<clock, table, locals, history>>

\* The pool is full or its worker fails, the job comes too late to start, or
\* Argon2 compares the code.
Work(c) ==
    /\ pc[c] = "work"
    /\ \E answer \in {"unavailable",
                      IF is_expired(id[c], clock) THEN "late"
                      ELSE IF code[c] = "right" THEN "ok" ELSE "wrong"} :
         work' = [work EXCEPT ![c] = answer]
    /\ Go(c, "verified")
    /\ UNCHANGED <<clock, table, id, code, seen, spent, time, reserved,
                   consumed, history>>

\* Mutant: every error of the verification counts as a wrong code.
AfterWork_ChargesAll(answer) == IF answer = "ok" THEN "consume" ELSE "record"

\* Neither a full pool nor a late job counts as a wrong code.
AfterWork(answer) ==
    CASE answer = "unavailable" -> "Unavailable"
      [] answer = "late" -> "Expired"
      [] answer = "wrong" -> "record"
      [] answer = "ok" -> "consume"

CheckVerified(c) ==
    /\ pc[c] = "verified"
    /\ time' = [time EXCEPT ![c] = clock]
    /\ Go(c, IF is_expired(id[c], clock) THEN "Expired"
             ELSE AfterWork(work[c]))
    /\ UNCHANGED <<clock, table, id, code, seen, spent, reserved, work,
                   consumed, history>>

\* record_rate_limit_attempt, and the error the attempt ends with.
Record(c) ==
    /\ pc[c] = "record"
    /\ charged' = charged \cup {c}
    /\ Go(c, IF work[c] = "ok" THEN "Replayed"
             ELSE IF attempts_exhausted(reserved[c]) THEN "Exhausted"
             ELSE "InvalidCode")
    /\ UNCHANGED <<clock, table, locals, admitted, spender>>

\* Mutant: nobody asks whether the challenge was consumed already.
Consumable_Again(c) ==
    /\ row[id[c]] = "stored"
    /\ ~is_expired(id[c], time[c])
    /\ attempts[id[c]] # 0

\* consume_login_challenge is one transaction too.
Consumable(c) ==
    /\ row[id[c]] = "stored"
    /\ ~is_consumed(id[c])
    /\ ~is_expired(id[c], time[c])
    /\ attempts[id[c]] # 0

Consume(c) ==
    /\ pc[c] = "consume"
    /\ IF Consumable(c)
       THEN /\ consumed_at' = [consumed_at EXCEPT ![id[c]] = time[c]]
            /\ spender' = [spender EXCEPT ![id[c]] = c]
            /\ consumed' = [consumed EXCEPT ![c] = "true"]
       ELSE /\ consumed' = [consumed EXCEPT ![c] = "false"]
            /\ UNCHANGED <<consumed_at, spender>>
    /\ Go(c, "consumed")
    /\ UNCHANGED <<clock, row, expires_at, attempts, id, code, seen, spent,
                   time, reserved, work, charged, admitted>>

\* The clock comes before the answer of the store.
CheckConsumed(c) ==
    /\ pc[c] = "consumed"
    /\ Go(c, IF is_expired(id[c], clock) THEN "Expired"
             ELSE IF consumed[c] = "true" THEN "clear"
             ELSE "record")
    /\ UNCHANGED <<clock, table, locals, history>>

\* Time has passed in clear_rate_limit_attempts.
Finish(c) ==
    /\ pc[c] = "clear"
    /\ Go(c, IF is_expired(id[c], clock) THEN "Expired" ELSE "Ok")
    /\ UNCHANGED <<clock, table, locals, history>>

-----------------------------------------------------------------------------
Init ==
    /\ clock = 0
    /\ row = [ch \in Challenges |-> "new"]
    /\ expires_at = [ch \in Challenges |-> 0]
    /\ attempts = [ch \in Challenges |-> 0]
    /\ consumed_at = [ch \in Challenges |-> None]
    /\ pc = [c \in Calls |-> "idle"]
    /\ id = [c \in Calls |-> None]
    /\ code = [c \in Calls |-> "wrong"]
    /\ seen = [c \in Calls |-> 0]
    /\ spent = [c \in Calls |-> FALSE]
    /\ consumed = [c \in Calls |-> "none"]
    /\ time = [c \in Calls |-> 0]
    /\ reserved = [c \in Calls |-> 0]
    /\ work = [c \in Calls |-> "none"]
    /\ charged = {}
    /\ admitted = [ch \in Challenges |-> {}]
    /\ spender = [ch \in Challenges |-> None]

Step(c) ==
    \/ Begin(c)
    \/ Find(c)
    \/ Admit(c)
    \/ Attempt(c)
    \/ Reserve(c)
    \/ ReserveRefused(c)
    \/ CheckReserved(c)
    \/ Work(c)
    \/ CheckVerified(c)
    \/ Record(c)
    \/ Consume(c)
    \/ CheckConsumed(c)
    \/ Finish(c)
    \/ Fail(c)

Next ==
    \/ Tick
    \/ \E ch \in Challenges :
         Compose(ch) \/ insert_login_challenge(ch) \/ Delete(ch)
    \/ \E c \in Calls : Step(c)

Spec == Init /\ [][Next]_vars

-----------------------------------------------------------------------------
(* Properties.                                                             *)

\* A challenge logs in at most once, and only a call that presented the
\* issued code in one of the admitted attempts.
OneAcceptance ==
    \A c \in Calls : pc[c] = "Ok" =>
      /\ code[c] = "right"
      /\ c \in admitted[id[c]]
      /\ \A d \in Calls : pc[d] = "Ok" /\ id[d] = id[c] => d = c

\* The stored count is the number of attempts ever admitted, whatever became
\* of them, and concurrent calls cannot exceed the budget.
AttemptsBudget ==
    \A ch \in Challenges :
      /\ attempts[ch] = Cardinality(admitted[ch])
      /\ attempts[ch] <= MaxAttempts

\* A failed attempt is recorded against a call only if its code was compared
\* and wrong, or if another call had consumed the challenge; and a call that
\* answers with one of these verdicts after its attempt has been recorded.
FairCharge ==
    \A c \in Calls :
      /\ c \in charged =>
           \/ code[c] = "wrong" /\ work[c] = "wrong"
           \/ spender[id[c]] \notin {None, c}
      /\ /\ pc[c] \in {"InvalidCode", "Exhausted", "Replayed"}
         /\ c \in admitted[id[c]]
         => c \in charged

\* An admitted attempt with the issued code, the last one of the budget too,
\* fails only because the challenge expired, another call consumed it, the
\* password pool was unavailable, or the call broke off.
RightCodeOutcome ==
    \A c \in Calls :
      /\ code[c] = "right"
      /\ \E ch \in Challenges : c \in admitted[ch]
      => /\ pc[c] \notin {"Limited", "Invalid", "Exhausted", "InvalidCode"}
         /\ pc[c] = "Expired" => is_expired(id[c], clock)
         /\ pc[c] = "Replayed" => spender[id[c]] \notin {None, c}
         /\ pc[c] = "Unavailable" => work[c] = "unavailable"

\* Once consumed, a challenge admits no attempt and stays consumed.
SpentIsFinal ==
    [][\A ch \in Challenges : is_consumed(ch) =>
         /\ consumed_at'[ch] = consumed_at[ch]
         /\ attempts'[ch] = attempts[ch]]_vars
=============================================================================
