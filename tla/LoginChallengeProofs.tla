------------------------ MODULE LoginChallengeProofs ------------------------
(***************************************************************************)
(* Theorems about one-time login challenges, for any number of challenges  *)
(* and of concurrent verifications, and any lifetime and attempt budget.   *)
(***************************************************************************)
EXTENDS LoginChallenge, FiniteSetTheorems, TLAPS

\* Where a call can be once its attempt was admitted, and where it must have
\* been admitted.
MayBeAdmitted == {"reserved", "work", "verified", "record", "consume",
                  "consumed", "clear", "Ok", "InvalidCode", "Exhausted",
                  "Replayed", "Expired", "Unavailable", "Failed"}

IsAdmitted == {"reserved", "work", "verified", "record", "consume",
               "consumed", "clear", "Ok", "InvalidCode", "Unavailable"}

\* Every step after the challenge was found.
Found == IsAdmitted \cup {"admit", "attempt", "reserve"}

\* admitted says which calls reserved an attempt, of the challenge they name.
AdmittedInv ==
    /\ \A c \in Calls : pc[c] # "idle" => id[c] \in Challenges
    /\ \A ch \in Challenges, c \in Calls : c \in admitted[ch] =>
         id[c] = ch /\ pc[c] \in MayBeAdmitted
    /\ \A c \in Calls : pc[c] \in IsAdmitted => c \in admitted[id[c]]

\* The stored count is the number of admitted calls.
BudgetInv ==
    \A ch \in Challenges :
      /\ IsFiniteSet(admitted[ch])
      /\ attempts[ch] = Cardinality(admitted[ch])

\* The first copy is not ahead of the store, and a reservation is ahead of it.
SeenInv ==
    \A c \in Calls :
      /\ pc[c] \in {"admit", "attempt", "reserve"} => seen[c] <= attempts[id[c]]
      /\ pc[c] = "reserved" => Plausible(c)

\* What a call finds is stored, or deleted because it had expired.
RowInv ==
    /\ \A ch \in Challenges :
         row[ch] = "deleted" => is_expired(ch, clock)
    /\ \A ch \in Challenges :
         row[ch] \in {"new", "composed"} => admitted[ch] = {}
    /\ \A c \in Calls : pc[c] \in Found => row[id[c]] \in {"stored", "deleted"}
    /\ \A c \in Calls : time[c] <= clock

\* The worker's answer agrees with the code, and with where the call is.
WorkInv ==
    \A c \in Calls :
      /\ work[c] = "ok" => code[c] = "right"
      /\ work[c] = "wrong" => code[c] = "wrong"
      /\ work[c] = "late" => id[c] \in Challenges /\ is_expired(id[c], clock)
                              /\ row[id[c]] \in {"stored", "deleted"}
      /\ pc[c] \in {"consume", "consumed", "clear", "Ok"} => work[c] = "ok"
      /\ pc[c] = "verified" => work[c] # "none"
      /\ pc[c] \in {"idle", "find", "admit", "attempt", "reserve", "reserved",
                    "work"} => work[c] = "none"

\* A call that spent the challenge knows it, and one that was refused was
\* refused because of another call or because of the time.
SpenderInv ==
    /\ \A ch \in Challenges : (spender[ch] = None) <=> (consumed_at[ch] = None)
    /\ \A ch \in Challenges, c \in Calls : spender[ch] = c =>
         /\ id[c] = ch
         /\ consumed[c] = "true"
         /\ pc[c] \in {"consumed", "clear", "Ok", "Expired", "Failed"}
    /\ \A c \in Calls :
         /\ pc[c] \in {"clear", "Ok"} => spender[id[c]] = c
         /\ pc[c] = "consumed" =>
              \/ consumed[c] = "true" /\ spender[id[c]] = c
              \/ /\ consumed[c] # "true"
                 /\ \/ spender[id[c]] \notin {None, c}
                    \/ is_expired(id[c], clock)

\* Whom a failed attempt is recorded against, and how a call ends.
OutcomeInv ==
    \A c \in Calls :
      /\ pc[c] = "record" =>
           \/ work[c] = "wrong"
           \/ work[c] = "ok" /\ spender[id[c]] \notin {None, c}
      /\ c \in charged =>
           /\ pc[c] \in {"InvalidCode", "Exhausted", "Replayed"}
           /\ c \in admitted[id[c]]
      /\ c \in charged =>
           \/ work[c] = "wrong"
           \/ spender[id[c]] \notin {None, c}
      /\ pc[c] = "InvalidCode" => c \in charged /\ work[c] = "wrong"
      /\ pc[c] = "Unavailable" => work[c] = "unavailable"
      /\ pc[c] # "idle" /\ c \in admitted[id[c]] =>
           /\ pc[c] = "Exhausted" => c \in charged /\ work[c] = "wrong"
           /\ pc[c] = "Replayed" =>
                c \in charged /\ spender[id[c]] \notin {None, c}
           /\ pc[c] = "Expired" => is_expired(id[c], clock)

IndInv ==
    /\ TypeOK
    /\ AdmittedInv
    /\ BudgetInv
    /\ SeenInv
    /\ RowInv
    /\ WorkInv
    /\ SpenderInv
    /\ OutcomeInv

-----------------------------------------------------------------------------
(* Each part of the invariant is kept by each action.                      *)

\* Every step keeps the types.
LEMMA TypeStep ==
  ASSUME IndInv, [Next]_vars PROVE TypeOK'
  <1>0. TypeOK /\ AdmittedInv /\ WorkInv
    BY DEF IndInv
  <1>1. CASE Tick
    BY <1>0, <1>1 DEF Tick, table, locals, history, TypeOK, Steps, Results
  <1>2. ASSUME NEW ch \in Challenges, Compose(ch) PROVE TypeOK'
    BY <1>0, <1>2, OptionsAssumption DEF Compose, locals, history, TypeOK,
       Steps, Results
  <1>3. ASSUME NEW ch \in Challenges, insert_login_challenge(ch) PROVE TypeOK'
    BY <1>0, <1>3 DEF insert_login_challenge, locals, history, TypeOK,
       Steps, Results
  <1>4. ASSUME NEW ch \in Challenges, Delete(ch) PROVE TypeOK'
    BY <1>0, <1>4 DEF Delete, locals, history, TypeOK, Steps, Results
  <1>5. ASSUME NEW c \in Calls, Begin(c) PROVE TypeOK'
    BY <1>0, <1>5 DEF Begin, Go, table, locals, history, TypeOK, Steps,
       Results, AdmittedInv
  <1>6. ASSUME NEW c \in Calls, Find(c) PROVE TypeOK'
    BY <1>0, <1>6 DEF Find, Go, table, locals, history, is_consumed,
       TypeOK, Steps, Results, AdmittedInv
  <1>7. ASSUME NEW c \in Calls, Admit(c) PROVE TypeOK'
    BY <1>0, <1>7 DEF Admit, Go, table, locals, history, is_expired,
       attempts_exhausted, TypeOK, Steps, Results
  <1>8. ASSUME NEW c \in Calls, Attempt(c) PROVE TypeOK'
    BY <1>0, <1>8 DEF Attempt, Go, table, locals, history, TypeOK, Steps,
       Results
  <1>9. ASSUME NEW c \in Calls, Reserve(c) PROVE TypeOK'
    BY <1>0, <1>9, OptionsAssumption DEF Reserve, Go, table, locals,
       history, Incremented, TypeOK, Steps, Results, AdmittedInv,
       Reservable, attempts_exhausted
  <1>10. ASSUME NEW c \in Calls, ReserveRefused(c) PROVE TypeOK'
    BY <1>0, <1>10 DEF ReserveRefused, Go, table, locals, history, TypeOK,
       Steps, Results
  <1>11. ASSUME NEW c \in Calls, CheckReserved(c) PROVE TypeOK'
    BY <1>0, <1>11 DEF CheckReserved, Go, table, locals, history, TypeOK,
       Steps, Results
  <1>12. ASSUME NEW c \in Calls, Work(c) PROVE TypeOK'
    BY <1>0, <1>12 DEF Work, Go, table, locals, history, TypeOK, Steps,
       Results
  <1>13. ASSUME NEW c \in Calls, CheckVerified(c) PROVE TypeOK'
    BY <1>0, <1>13 DEF CheckVerified, Go, table, locals, history,
       AfterWork, TypeOK, Steps, Results, WorkInv
  <1>14. ASSUME NEW c \in Calls, Record(c) PROVE TypeOK'
    BY <1>0, <1>14 DEF Record, Go, table, locals, history, TypeOK, Steps,
       Results
  <1>15. ASSUME NEW c \in Calls, Consume(c) PROVE TypeOK'
    BY <1>0, <1>15 DEF Consume, Go, table, locals, history, TypeOK, Steps,
       Results, AdmittedInv
  <1>16. ASSUME NEW c \in Calls, CheckConsumed(c) PROVE TypeOK'
    BY <1>0, <1>16 DEF CheckConsumed, Go, table, locals, history, TypeOK,
       Steps, Results
  <1>17. ASSUME NEW c \in Calls, Finish(c) PROVE TypeOK'
    BY <1>0, <1>17 DEF Finish, Go, table, locals, history, TypeOK, Steps,
       Results
  <1>18. ASSUME NEW c \in Calls, Fail(c) PROVE TypeOK'
    BY <1>0, <1>18 DEF Fail, Go, table, locals, history, TypeOK, Steps,
       Results
  <1>19. CASE UNCHANGED vars
    BY <1>0, <1>19 DEF vars, table, locals, history, TypeOK, Steps,
       Results
  <1> QED
    BY <1>1, <1>2, <1>3, <1>4, <1>5, <1>6, <1>7, <1>8, <1>9, <1>10, <1>11,
       <1>12, <1>13, <1>14, <1>15, <1>16, <1>17, <1>18, <1>19 DEF Next,
       Step

\* Every step keeps AdmittedInv.
LEMMA AdmittedStep ==
  ASSUME IndInv, [Next]_vars PROVE AdmittedInv'
  <1>0. TypeOK /\ AdmittedInv /\ WorkInv
    BY DEF IndInv
  <1>1. CASE Tick
    BY <1>0, <1>1 DEF Tick, table, locals, history, TypeOK, AdmittedInv,
       MayBeAdmitted, IsAdmitted
  <1>2. ASSUME NEW ch \in Challenges, Compose(ch) PROVE AdmittedInv'
    BY <1>0, <1>2 DEF Compose, locals, history, TypeOK, AdmittedInv,
       MayBeAdmitted, IsAdmitted
  <1>3. ASSUME NEW ch \in Challenges, insert_login_challenge(ch) PROVE AdmittedInv'
    BY <1>0, <1>3 DEF insert_login_challenge, locals, history, TypeOK,
       AdmittedInv, MayBeAdmitted, IsAdmitted
  <1>4. ASSUME NEW ch \in Challenges, Delete(ch) PROVE AdmittedInv'
    BY <1>0, <1>4 DEF Delete, locals, history, TypeOK, AdmittedInv,
       MayBeAdmitted, IsAdmitted
  <1>5. ASSUME NEW c \in Calls, Begin(c) PROVE AdmittedInv'
    BY <1>0, <1>5 DEF Begin, Go, table, locals, history, TypeOK,
       AdmittedInv, MayBeAdmitted, IsAdmitted
  <1>6. ASSUME NEW c \in Calls, Find(c) PROVE AdmittedInv'
    BY <1>0, <1>6 DEF Find, Go, table, locals, history, is_consumed,
       TypeOK, AdmittedInv, MayBeAdmitted, IsAdmitted
  <1>7. ASSUME NEW c \in Calls, Admit(c) PROVE AdmittedInv'
    BY <1>0, <1>7 DEF Admit, Go, table, locals, history, is_expired,
       attempts_exhausted, TypeOK, AdmittedInv, MayBeAdmitted, IsAdmitted
  <1>8. ASSUME NEW c \in Calls, Attempt(c) PROVE AdmittedInv'
    BY <1>0, <1>8 DEF Attempt, Go, table, locals, history, TypeOK,
       AdmittedInv, MayBeAdmitted, IsAdmitted
  <1>9. ASSUME NEW c \in Calls, Reserve(c) PROVE AdmittedInv'
    BY <1>0, <1>9 DEF Reserve, Go, table, locals, history, Incremented,
       TypeOK, AdmittedInv, MayBeAdmitted, IsAdmitted
  <1>10. ASSUME NEW c \in Calls, ReserveRefused(c) PROVE AdmittedInv'
    BY <1>0, <1>10 DEF ReserveRefused, Go, table, locals, history, TypeOK,
       AdmittedInv, MayBeAdmitted, IsAdmitted
  <1>11. ASSUME NEW c \in Calls, CheckReserved(c) PROVE AdmittedInv'
    BY <1>0, <1>11 DEF CheckReserved, Go, table, locals, history, TypeOK,
       AdmittedInv, MayBeAdmitted, IsAdmitted
  <1>12. ASSUME NEW c \in Calls, Work(c) PROVE AdmittedInv'
    BY <1>0, <1>12 DEF Work, Go, table, locals, history, TypeOK,
       AdmittedInv, MayBeAdmitted, IsAdmitted
  <1>13. ASSUME NEW c \in Calls, CheckVerified(c) PROVE AdmittedInv'
    BY <1>0, <1>13 DEF CheckVerified, Go, table, locals, history,
       AfterWork, TypeOK, AdmittedInv, MayBeAdmitted, IsAdmitted, WorkInv
  <1>14. ASSUME NEW c \in Calls, Record(c) PROVE AdmittedInv'
    BY <1>0, <1>14 DEF Record, Go, table, locals, history, TypeOK,
       AdmittedInv, MayBeAdmitted, IsAdmitted
  <1>15. ASSUME NEW c \in Calls, Consume(c) PROVE AdmittedInv'
    BY <1>0, <1>15 DEF Consume, Go, table, locals, history, TypeOK,
       AdmittedInv, MayBeAdmitted, IsAdmitted
  <1>16. ASSUME NEW c \in Calls, CheckConsumed(c) PROVE AdmittedInv'
    BY <1>0, <1>16 DEF CheckConsumed, Go, table, locals, history, TypeOK,
       AdmittedInv, MayBeAdmitted, IsAdmitted
  <1>17. ASSUME NEW c \in Calls, Finish(c) PROVE AdmittedInv'
    BY <1>0, <1>17 DEF Finish, Go, table, locals, history, TypeOK,
       AdmittedInv, MayBeAdmitted, IsAdmitted
  <1>18. ASSUME NEW c \in Calls, Fail(c) PROVE AdmittedInv'
    BY <1>0, <1>18 DEF Fail, Go, table, locals, history, Steps, TypeOK,
       AdmittedInv, MayBeAdmitted, IsAdmitted
  <1>19. CASE UNCHANGED vars
    BY <1>0, <1>19 DEF vars, table, locals, history, TypeOK, AdmittedInv,
       MayBeAdmitted, IsAdmitted
  <1> QED
    BY <1>1, <1>2, <1>3, <1>4, <1>5, <1>6, <1>7, <1>8, <1>9, <1>10, <1>11,
       <1>12, <1>13, <1>14, <1>15, <1>16, <1>17, <1>18, <1>19 DEF Next,
       Step

\* Every step keeps SeenInv.
LEMMA SeenStep ==
  ASSUME IndInv, [Next]_vars PROVE SeenInv'
  <1>0. TypeOK /\ AdmittedInv /\ SeenInv /\ WorkInv
    BY DEF IndInv
  <1>1. CASE Tick
    BY <1>0, <1>1 DEF Tick, table, locals, history, TypeOK, AdmittedInv,
       SeenInv, Plausible
  <1>2. ASSUME NEW ch \in Challenges, Compose(ch) PROVE SeenInv'
    BY <1>0, <1>2 DEF Compose, locals, history, TypeOK, AdmittedInv,
       SeenInv, Plausible
  <1>3. ASSUME NEW ch \in Challenges, insert_login_challenge(ch) PROVE SeenInv'
    BY <1>0, <1>3 DEF insert_login_challenge, locals, history, TypeOK,
       AdmittedInv, SeenInv, Plausible
  <1>4. ASSUME NEW ch \in Challenges, Delete(ch) PROVE SeenInv'
    BY <1>0, <1>4 DEF Delete, locals, history, TypeOK, AdmittedInv,
       SeenInv, Plausible
  <1>5. ASSUME NEW c \in Calls, Begin(c) PROVE SeenInv'
    BY <1>0, <1>5 DEF Begin, Go, table, locals, history, TypeOK,
       AdmittedInv, SeenInv, Plausible
  <1>6. ASSUME NEW c \in Calls, Find(c) PROVE SeenInv'
    BY <1>0, <1>6 DEF Find, Go, table, locals, history, is_consumed,
       TypeOK, AdmittedInv, SeenInv, Plausible
  <1>7. ASSUME NEW c \in Calls, Admit(c) PROVE SeenInv'
    BY <1>0, <1>7 DEF Admit, Go, table, locals, history, is_expired,
       attempts_exhausted, TypeOK, AdmittedInv, SeenInv, Plausible
  <1>8. ASSUME NEW c \in Calls, Attempt(c) PROVE SeenInv'
    BY <1>0, <1>8 DEF Attempt, Go, table, locals, history, TypeOK,
       AdmittedInv, SeenInv, Plausible
  <1>9. ASSUME NEW c \in Calls, Reserve(c) PROVE SeenInv'
    BY <1>0, <1>9, OptionsAssumption DEF Reserve, Go, table, locals,
       history, Incremented, TypeOK, AdmittedInv, SeenInv, Plausible,
       Reservable, attempts_exhausted
  <1>10. ASSUME NEW c \in Calls, ReserveRefused(c) PROVE SeenInv'
    BY <1>0, <1>10 DEF ReserveRefused, Go, table, locals, history, TypeOK,
       AdmittedInv, SeenInv, Plausible
  <1>11. ASSUME NEW c \in Calls, CheckReserved(c) PROVE SeenInv'
    BY <1>0, <1>11 DEF CheckReserved, Go, table, locals, history, TypeOK,
       AdmittedInv, SeenInv, Plausible
  <1>12. ASSUME NEW c \in Calls, Work(c) PROVE SeenInv'
    BY <1>0, <1>12 DEF Work, Go, table, locals, history, TypeOK,
       AdmittedInv, SeenInv, Plausible
  <1>13. ASSUME NEW c \in Calls, CheckVerified(c) PROVE SeenInv'
    BY <1>0, <1>13 DEF CheckVerified, Go, table, locals, history,
       AfterWork, TypeOK, AdmittedInv, SeenInv, Plausible, WorkInv
  <1>14. ASSUME NEW c \in Calls, Record(c) PROVE SeenInv'
    BY <1>0, <1>14 DEF Record, Go, table, locals, history, TypeOK,
       AdmittedInv, SeenInv, Plausible
  <1>15. ASSUME NEW c \in Calls, Consume(c) PROVE SeenInv'
    BY <1>0, <1>15 DEF Consume, Go, table, locals, history, TypeOK,
       AdmittedInv, SeenInv, Plausible
  <1>16. ASSUME NEW c \in Calls, CheckConsumed(c) PROVE SeenInv'
    BY <1>0, <1>16 DEF CheckConsumed, Go, table, locals, history, TypeOK,
       AdmittedInv, SeenInv, Plausible
  <1>17. ASSUME NEW c \in Calls, Finish(c) PROVE SeenInv'
    BY <1>0, <1>17 DEF Finish, Go, table, locals, history, TypeOK,
       AdmittedInv, SeenInv, Plausible
  <1>18. ASSUME NEW c \in Calls, Fail(c) PROVE SeenInv'
    BY <1>0, <1>18 DEF Fail, Go, table, locals, history, Steps, TypeOK,
       AdmittedInv, SeenInv, Plausible
  <1>19. CASE UNCHANGED vars
    BY <1>0, <1>19 DEF vars, table, locals, history, TypeOK, AdmittedInv,
       SeenInv, Plausible
  <1> QED
    BY <1>1, <1>2, <1>3, <1>4, <1>5, <1>6, <1>7, <1>8, <1>9, <1>10, <1>11,
       <1>12, <1>13, <1>14, <1>15, <1>16, <1>17, <1>18, <1>19 DEF Next,
       Step

\* Every step keeps RowInv.
LEMMA RowStep ==
  ASSUME IndInv, [Next]_vars PROVE RowInv'
  <1>0. TypeOK /\ AdmittedInv /\ RowInv /\ WorkInv
    BY DEF IndInv
  <1>1. CASE Tick
    BY <1>0, <1>1 DEF Tick, table, locals, history, TypeOK, AdmittedInv,
       RowInv, Found, IsAdmitted, is_expired
  <1>2. ASSUME NEW ch \in Challenges, Compose(ch) PROVE RowInv'
    BY <1>0, <1>2 DEF Compose, locals, history, TypeOK, AdmittedInv,
       RowInv, Found, IsAdmitted, is_expired
  <1>3. ASSUME NEW ch \in Challenges, insert_login_challenge(ch) PROVE RowInv'
    BY <1>0, <1>3 DEF insert_login_challenge, locals, history, TypeOK,
       AdmittedInv, RowInv, Found, IsAdmitted, is_expired
  <1>4. ASSUME NEW ch \in Challenges, Delete(ch) PROVE RowInv'
    BY <1>0, <1>4 DEF Delete, locals, history, TypeOK, AdmittedInv,
       RowInv, Found, IsAdmitted, is_expired
  <1>5. ASSUME NEW c \in Calls, Begin(c) PROVE RowInv'
    BY <1>0, <1>5 DEF Begin, Go, table, locals, history, TypeOK,
       AdmittedInv, RowInv, Found, IsAdmitted, is_expired
  <1>6. ASSUME NEW c \in Calls, Find(c) PROVE RowInv'
    BY <1>0, <1>6 DEF Find, Go, table, locals, history, is_consumed,
       TypeOK, AdmittedInv, RowInv, Found, IsAdmitted, is_expired
  <1>7. ASSUME NEW c \in Calls, Admit(c) PROVE RowInv'
    BY <1>0, <1>7 DEF Admit, Go, table, locals, history,
       attempts_exhausted, TypeOK, AdmittedInv, RowInv, Found, IsAdmitted,
       is_expired
  <1>8. ASSUME NEW c \in Calls, Attempt(c) PROVE RowInv'
    BY <1>0, <1>8 DEF Attempt, Go, table, locals, history, TypeOK,
       AdmittedInv, RowInv, Found, IsAdmitted, is_expired
  <1>9. ASSUME NEW c \in Calls, Reserve(c) PROVE RowInv'
    BY <1>0, <1>9 DEF Reserve, Go, table, locals, history, Incremented,
       TypeOK, AdmittedInv, RowInv, Found, IsAdmitted, is_expired,
       Reservable
  <1>10. ASSUME NEW c \in Calls, ReserveRefused(c) PROVE RowInv'
    BY <1>0, <1>10 DEF ReserveRefused, Go, table, locals, history, TypeOK,
       AdmittedInv, RowInv, Found, IsAdmitted, is_expired
  <1>11. ASSUME NEW c \in Calls, CheckReserved(c) PROVE RowInv'
    BY <1>0, <1>11 DEF CheckReserved, Go, table, locals, history, TypeOK,
       AdmittedInv, RowInv, Found, IsAdmitted, is_expired
  <1>12. ASSUME NEW c \in Calls, Work(c) PROVE RowInv'
    BY <1>0, <1>12 DEF Work, Go, table, locals, history, TypeOK,
       AdmittedInv, RowInv, Found, IsAdmitted, is_expired
  <1>13. ASSUME NEW c \in Calls, CheckVerified(c) PROVE RowInv'
    BY <1>0, <1>13 DEF CheckVerified, Go, table, locals, history,
       AfterWork, TypeOK, AdmittedInv, RowInv, Found, IsAdmitted,
       is_expired, WorkInv
  <1>14. ASSUME NEW c \in Calls, Record(c) PROVE RowInv'
    BY <1>0, <1>14 DEF Record, Go, table, locals, history, TypeOK,
       AdmittedInv, RowInv, Found, IsAdmitted, is_expired
  <1>15. ASSUME NEW c \in Calls, Consume(c) PROVE RowInv'
    BY <1>0, <1>15 DEF Consume, Go, table, locals, history, TypeOK,
       AdmittedInv, RowInv, Found, IsAdmitted, is_expired
  <1>16. ASSUME NEW c \in Calls, CheckConsumed(c) PROVE RowInv'
    BY <1>0, <1>16 DEF CheckConsumed, Go, table, locals, history, TypeOK,
       AdmittedInv, RowInv, Found, IsAdmitted, is_expired
  <1>17. ASSUME NEW c \in Calls, Finish(c) PROVE RowInv'
    BY <1>0, <1>17 DEF Finish, Go, table, locals, history, TypeOK,
       AdmittedInv, RowInv, Found, IsAdmitted, is_expired
  <1>18. ASSUME NEW c \in Calls, Fail(c) PROVE RowInv'
    BY <1>0, <1>18 DEF Fail, Go, table, locals, history, Steps, TypeOK,
       AdmittedInv, RowInv, Found, IsAdmitted, is_expired
  <1>19. CASE UNCHANGED vars
    BY <1>0, <1>19 DEF vars, table, locals, history, TypeOK, AdmittedInv,
       RowInv, Found, IsAdmitted, is_expired
  <1> QED
    BY <1>1, <1>2, <1>3, <1>4, <1>5, <1>6, <1>7, <1>8, <1>9, <1>10, <1>11,
       <1>12, <1>13, <1>14, <1>15, <1>16, <1>17, <1>18, <1>19 DEF Next,
       Step

\* Every step keeps WorkInv.
LEMMA WorkStep ==
  ASSUME IndInv, [Next]_vars PROVE WorkInv'
  <1>0. TypeOK /\ AdmittedInv /\ RowInv /\ WorkInv
    BY DEF IndInv
  <1>1. CASE Tick
    BY <1>0, <1>1 DEF Tick, table, locals, history, TypeOK, AdmittedInv,
       RowInv, WorkInv, Found, IsAdmitted, is_expired
  <1>2. ASSUME NEW ch \in Challenges, Compose(ch) PROVE WorkInv'
    BY <1>0, <1>2 DEF Compose, locals, history, TypeOK, AdmittedInv,
       RowInv, WorkInv, Found, IsAdmitted, is_expired
  <1>3. ASSUME NEW ch \in Challenges, insert_login_challenge(ch) PROVE WorkInv'
    BY <1>0, <1>3 DEF insert_login_challenge, locals, history, TypeOK,
       AdmittedInv, RowInv, WorkInv, Found, IsAdmitted, is_expired
  <1>4. ASSUME NEW ch \in Challenges, Delete(ch) PROVE WorkInv'
    BY <1>0, <1>4 DEF Delete, locals, history, TypeOK, AdmittedInv,
       RowInv, WorkInv, Found, IsAdmitted, is_expired
  <1>5. ASSUME NEW c \in Calls, Begin(c) PROVE WorkInv'
    BY <1>0, <1>5 DEF Begin, Go, table, locals, history, TypeOK,
       AdmittedInv, RowInv, WorkInv, Found, IsAdmitted, is_expired
  <1>6. ASSUME NEW c \in Calls, Find(c) PROVE WorkInv'
    BY <1>0, <1>6 DEF Find, Go, table, locals, history, is_consumed,
       TypeOK, AdmittedInv, RowInv, WorkInv, Found, IsAdmitted, is_expired
  <1>7. ASSUME NEW c \in Calls, Admit(c) PROVE WorkInv'
    BY <1>0, <1>7 DEF Admit, Go, table, locals, history,
       attempts_exhausted, TypeOK, AdmittedInv, RowInv, WorkInv, Found,
       IsAdmitted, is_expired
  <1>8. ASSUME NEW c \in Calls, Attempt(c) PROVE WorkInv'
    BY <1>0, <1>8 DEF Attempt, Go, table, locals, history, TypeOK,
       AdmittedInv, RowInv, WorkInv, Found, IsAdmitted, is_expired
  <1>9. ASSUME NEW c \in Calls, Reserve(c) PROVE WorkInv'
    BY <1>0, <1>9 DEF Reserve, Go, table, locals, history, Incremented,
       TypeOK, AdmittedInv, RowInv, WorkInv, Found, IsAdmitted, is_expired
  <1>10. ASSUME NEW c \in Calls, ReserveRefused(c) PROVE WorkInv'
    BY <1>0, <1>10 DEF ReserveRefused, Go, table, locals, history, TypeOK,
       AdmittedInv, RowInv, WorkInv, Found, IsAdmitted, is_expired
  <1>11. ASSUME NEW c \in Calls, CheckReserved(c) PROVE WorkInv'
    BY <1>0, <1>11 DEF CheckReserved, Go, table, locals, history, TypeOK,
       AdmittedInv, RowInv, WorkInv, Found, IsAdmitted, is_expired
  <1>12. ASSUME NEW c \in Calls, Work(c) PROVE WorkInv'
    BY <1>0, <1>12 DEF Work, Go, table, locals, history, TypeOK,
       AdmittedInv, RowInv, WorkInv, Found, IsAdmitted, is_expired
  <1>13. ASSUME NEW c \in Calls, CheckVerified(c) PROVE WorkInv'
    BY <1>0, <1>13 DEF CheckVerified, Go, table, locals, history,
       AfterWork, TypeOK, AdmittedInv, RowInv, WorkInv, Found, IsAdmitted,
       is_expired
  <1>14. ASSUME NEW c \in Calls, Record(c) PROVE WorkInv'
    BY <1>0, <1>14 DEF Record, Go, table, locals, history, TypeOK,
       AdmittedInv, RowInv, WorkInv, Found, IsAdmitted, is_expired
  <1>15. ASSUME NEW c \in Calls, Consume(c) PROVE WorkInv'
    BY <1>0, <1>15 DEF Consume, Go, table, locals, history, TypeOK,
       AdmittedInv, RowInv, WorkInv, Found, IsAdmitted, is_expired
  <1>16. ASSUME NEW c \in Calls, CheckConsumed(c) PROVE WorkInv'
    BY <1>0, <1>16 DEF CheckConsumed, Go, table, locals, history, TypeOK,
       AdmittedInv, RowInv, WorkInv, Found, IsAdmitted, is_expired
  <1>17. ASSUME NEW c \in Calls, Finish(c) PROVE WorkInv'
    BY <1>0, <1>17 DEF Finish, Go, table, locals, history, TypeOK,
       AdmittedInv, RowInv, WorkInv, Found, IsAdmitted, is_expired
  <1>18. ASSUME NEW c \in Calls, Fail(c) PROVE WorkInv'
    BY <1>0, <1>18 DEF Fail, Go, table, locals, history, Steps, TypeOK,
       AdmittedInv, RowInv, WorkInv, Found, IsAdmitted, is_expired
  <1>19. CASE UNCHANGED vars
    BY <1>0, <1>19 DEF vars, table, locals, history, TypeOK, AdmittedInv,
       RowInv, WorkInv, Found, IsAdmitted, is_expired
  <1> QED
    BY <1>1, <1>2, <1>3, <1>4, <1>5, <1>6, <1>7, <1>8, <1>9, <1>10, <1>11,
       <1>12, <1>13, <1>14, <1>15, <1>16, <1>17, <1>18, <1>19 DEF Next,
       Step

\* Every step keeps SpenderInv.
LEMMA SpenderStep ==
  ASSUME IndInv, [Next]_vars PROVE SpenderInv'
  <1>0. TypeOK /\ AdmittedInv /\ BudgetInv /\ RowInv /\ WorkInv /\ SpenderInv
    BY DEF IndInv
  <1>1. CASE Tick
    BY <1>0, <1>1 DEF Tick, table, locals, history, TypeOK, AdmittedInv,
       RowInv, SpenderInv, Found, IsAdmitted, is_expired
  <1>2. ASSUME NEW ch \in Challenges, Compose(ch) PROVE SpenderInv'
    BY <1>0, <1>2 DEF Compose, locals, history, TypeOK, AdmittedInv,
       RowInv, SpenderInv, Found, IsAdmitted, is_expired
  <1>3. ASSUME NEW ch \in Challenges, insert_login_challenge(ch) PROVE SpenderInv'
    BY <1>0, <1>3 DEF insert_login_challenge, locals, history, TypeOK,
       AdmittedInv, RowInv, SpenderInv, Found, IsAdmitted, is_expired
  <1>4. ASSUME NEW ch \in Challenges, Delete(ch) PROVE SpenderInv'
    BY <1>0, <1>4 DEF Delete, locals, history, TypeOK, AdmittedInv,
       RowInv, SpenderInv, Found, IsAdmitted, is_expired
  <1>5. ASSUME NEW c \in Calls, Begin(c) PROVE SpenderInv'
    BY <1>0, <1>5 DEF Begin, Go, table, locals, history, TypeOK,
       AdmittedInv, RowInv, SpenderInv, Found, IsAdmitted, is_expired
  <1>6. ASSUME NEW c \in Calls, Find(c) PROVE SpenderInv'
    BY <1>0, <1>6 DEF Find, Go, table, locals, history, is_consumed,
       TypeOK, AdmittedInv, RowInv, SpenderInv, Found, IsAdmitted,
       is_expired
  <1>7. ASSUME NEW c \in Calls, Admit(c) PROVE SpenderInv'
    BY <1>0, <1>7 DEF Admit, Go, table, locals, history,
       attempts_exhausted, TypeOK, AdmittedInv, RowInv, SpenderInv, Found,
       IsAdmitted, is_expired
  <1>8. ASSUME NEW c \in Calls, Attempt(c) PROVE SpenderInv'
    BY <1>0, <1>8 DEF Attempt, Go, table, locals, history, TypeOK,
       AdmittedInv, RowInv, SpenderInv, Found, IsAdmitted, is_expired
  <1>9. ASSUME NEW c \in Calls, Reserve(c) PROVE SpenderInv'
    BY <1>0, <1>9 DEF Reserve, Go, table, locals, history, Incremented,
       TypeOK, AdmittedInv, RowInv, SpenderInv, Found, IsAdmitted,
       is_expired
  <1>10. ASSUME NEW c \in Calls, ReserveRefused(c) PROVE SpenderInv'
    BY <1>0, <1>10 DEF ReserveRefused, Go, table, locals, history, TypeOK,
       AdmittedInv, RowInv, SpenderInv, Found, IsAdmitted, is_expired
  <1>11. ASSUME NEW c \in Calls, CheckReserved(c) PROVE SpenderInv'
    BY <1>0, <1>11 DEF CheckReserved, Go, table, locals, history, TypeOK,
       AdmittedInv, RowInv, SpenderInv, Found, IsAdmitted, is_expired
  <1>12. ASSUME NEW c \in Calls, Work(c) PROVE SpenderInv'
    BY <1>0, <1>12 DEF Work, Go, table, locals, history, TypeOK,
       AdmittedInv, RowInv, SpenderInv, Found, IsAdmitted, is_expired
  <1>13. ASSUME NEW c \in Calls, CheckVerified(c) PROVE SpenderInv'
    BY <1>0, <1>13 DEF CheckVerified, Go, table, locals, history,
       AfterWork, TypeOK, AdmittedInv, RowInv, SpenderInv, Found,
       IsAdmitted, is_expired, WorkInv
  <1>14. ASSUME NEW c \in Calls, Record(c) PROVE SpenderInv'
    BY <1>0, <1>14 DEF Record, Go, table, locals, history, TypeOK,
       AdmittedInv, RowInv, SpenderInv, Found, IsAdmitted, is_expired
  <1>15. ASSUME NEW c \in Calls, Consume(c) PROVE SpenderInv'
    <2>1. /\ pc[c] = "consume"
          /\ id[c] \in Challenges
          /\ attempts[id[c]] # 0
    <3>1. /\ id[c] \in Challenges
          /\ c \in admitted[id[c]]
      BY <1>0, <1>15 DEF Consume, AdmittedInv, IsAdmitted
    <3> QED
      BY <1>0, <1>15, <3>1, FS_EmptySet DEF Consume, BudgetInv
    <2>2. CASE Consumable(c)
      BY <1>0, <1>15, <2>1, <2>2, CallsAssumption
      DEF Consume, Go, TypeOK, AdmittedInv, SpenderInv, is_expired,
          Consumable, is_consumed
    <2>3. CASE ~Consumable(c)
      BY <1>0, <1>15, <2>1, <2>3
      DEF Consume, Go, TypeOK, AdmittedInv, RowInv, SpenderInv, Found,
          IsAdmitted, is_expired, Consumable, is_consumed
    <2> QED
      BY <2>2, <2>3
  <1>16. ASSUME NEW c \in Calls, CheckConsumed(c) PROVE SpenderInv'
    BY <1>0, <1>16 DEF CheckConsumed, Go, table, locals, history, TypeOK,
       AdmittedInv, RowInv, SpenderInv, Found, IsAdmitted, is_expired
  <1>17. ASSUME NEW c \in Calls, Finish(c) PROVE SpenderInv'
    BY <1>0, <1>17 DEF Finish, Go, table, locals, history, TypeOK,
       AdmittedInv, RowInv, SpenderInv, Found, IsAdmitted, is_expired
  <1>18. ASSUME NEW c \in Calls, Fail(c) PROVE SpenderInv'
    BY <1>0, <1>18 DEF Fail, Go, table, locals, history, Steps, TypeOK,
       AdmittedInv, RowInv, SpenderInv, Found, IsAdmitted, is_expired
  <1>19. CASE UNCHANGED vars
    BY <1>0, <1>19 DEF vars, table, locals, history, TypeOK, AdmittedInv,
       RowInv, SpenderInv, Found, IsAdmitted, is_expired
  <1> QED
    BY <1>1, <1>2, <1>3, <1>4, <1>5, <1>6, <1>7, <1>8, <1>9, <1>10, <1>11,
       <1>12, <1>13, <1>14, <1>15, <1>16, <1>17, <1>18, <1>19 DEF Next,
       Step

\* Every step keeps OutcomeInv.
LEMMA OutcomeStep ==
  ASSUME IndInv, [Next]_vars PROVE OutcomeInv'
  <1>0. TypeOK /\ AdmittedInv /\ SeenInv /\ RowInv /\ WorkInv /\ SpenderInv /\ OutcomeInv
    BY DEF IndInv
  <1>1. CASE Tick
    BY <1>0, <1>1 DEF Tick, table, locals, history, TypeOK, AdmittedInv,
       RowInv, OutcomeInv, MayBeAdmitted, IsAdmitted, is_expired
  <1>2. ASSUME NEW ch \in Challenges, Compose(ch) PROVE OutcomeInv'
    BY <1>0, <1>2 DEF Compose, locals, history, TypeOK, AdmittedInv,
       RowInv, OutcomeInv, MayBeAdmitted, IsAdmitted, is_expired
  <1>3. ASSUME NEW ch \in Challenges, insert_login_challenge(ch) PROVE OutcomeInv'
    BY <1>0, <1>3 DEF insert_login_challenge, locals, history, TypeOK,
       AdmittedInv, RowInv, OutcomeInv, MayBeAdmitted, IsAdmitted,
       is_expired
  <1>4. ASSUME NEW ch \in Challenges, Delete(ch) PROVE OutcomeInv'
    BY <1>0, <1>4 DEF Delete, locals, history, TypeOK, AdmittedInv,
       RowInv, OutcomeInv, MayBeAdmitted, IsAdmitted, is_expired
  <1>5. ASSUME NEW c \in Calls, Begin(c) PROVE OutcomeInv'
    BY <1>0, <1>5 DEF Begin, Go, table, locals, history, TypeOK,
       AdmittedInv, RowInv, OutcomeInv, MayBeAdmitted, IsAdmitted,
       is_expired
  <1>6. ASSUME NEW c \in Calls, Find(c) PROVE OutcomeInv'
    BY <1>0, <1>6 DEF Find, Go, table, locals, history, is_consumed,
       TypeOK, AdmittedInv, RowInv, OutcomeInv, MayBeAdmitted, IsAdmitted,
       is_expired
  <1>7. ASSUME NEW c \in Calls, Admit(c) PROVE OutcomeInv'
    BY <1>0, <1>7 DEF Admit, Go, table, locals, history,
       attempts_exhausted, TypeOK, AdmittedInv, RowInv, OutcomeInv,
       MayBeAdmitted, IsAdmitted, is_expired
  <1>8. ASSUME NEW c \in Calls, Attempt(c) PROVE OutcomeInv'
    BY <1>0, <1>8 DEF Attempt, Go, table, locals, history, TypeOK,
       AdmittedInv, RowInv, OutcomeInv, MayBeAdmitted, IsAdmitted,
       is_expired
  <1>9. ASSUME NEW c \in Calls, Reserve(c) PROVE OutcomeInv'
    BY <1>0, <1>9 DEF Reserve, Go, table, locals, history, Incremented,
       TypeOK, AdmittedInv, RowInv, OutcomeInv, MayBeAdmitted, IsAdmitted,
       is_expired
  <1>10. ASSUME NEW c \in Calls, ReserveRefused(c) PROVE OutcomeInv'
    BY <1>0, <1>10 DEF ReserveRefused, Go, table, locals, history, TypeOK,
       AdmittedInv, RowInv, OutcomeInv, MayBeAdmitted, IsAdmitted,
       is_expired
  <1>11. ASSUME NEW c \in Calls, CheckReserved(c) PROVE OutcomeInv'
    BY <1>0, <1>11 DEF CheckReserved, Go, table, locals, history, TypeOK,
       AdmittedInv, RowInv, OutcomeInv, MayBeAdmitted, IsAdmitted,
       is_expired, SeenInv
  <1>12. ASSUME NEW c \in Calls, Work(c) PROVE OutcomeInv'
    BY <1>0, <1>12 DEF Work, Go, table, locals, history, TypeOK,
       AdmittedInv, RowInv, OutcomeInv, MayBeAdmitted, IsAdmitted,
       is_expired
  <1>13. ASSUME NEW c \in Calls, CheckVerified(c) PROVE OutcomeInv'
    BY <1>0, <1>13 DEF CheckVerified, Go, table, locals, history,
       AfterWork, TypeOK, AdmittedInv, RowInv, OutcomeInv, MayBeAdmitted,
       IsAdmitted, is_expired, WorkInv
  <1>14. ASSUME NEW c \in Calls, Record(c) PROVE OutcomeInv'
    BY <1>0, <1>14 DEF Record, Go, table, locals, history, TypeOK,
       AdmittedInv, RowInv, OutcomeInv, MayBeAdmitted, IsAdmitted,
       is_expired, WorkInv
  <1>15. ASSUME NEW c \in Calls, Consume(c) PROVE OutcomeInv'
    BY <1>0, <1>15, CallsAssumption DEF Consume, Go, table, locals,
       history, TypeOK, AdmittedInv, RowInv, OutcomeInv, MayBeAdmitted,
       IsAdmitted, is_expired, Consumable, is_consumed, SpenderInv,
       WorkInv
  <1>16. ASSUME NEW c \in Calls, CheckConsumed(c) PROVE OutcomeInv'
    BY <1>0, <1>16 DEF CheckConsumed, Go, table, locals, history, TypeOK,
       AdmittedInv, RowInv, OutcomeInv, MayBeAdmitted, IsAdmitted,
       is_expired, SpenderInv, WorkInv
  <1>17. ASSUME NEW c \in Calls, Finish(c) PROVE OutcomeInv'
    BY <1>0, <1>17 DEF Finish, Go, table, locals, history, TypeOK,
       AdmittedInv, RowInv, OutcomeInv, MayBeAdmitted, IsAdmitted,
       is_expired
  <1>18. ASSUME NEW c \in Calls, Fail(c) PROVE OutcomeInv'
    BY <1>0, <1>18 DEF Fail, Go, table, locals, history, Steps, TypeOK,
       AdmittedInv, RowInv, OutcomeInv, MayBeAdmitted, IsAdmitted,
       is_expired
  <1>19. CASE UNCHANGED vars
    BY <1>0, <1>19 DEF vars, table, locals, history, TypeOK, AdmittedInv,
       RowInv, OutcomeInv, MayBeAdmitted, IsAdmitted, is_expired
  <1> QED
    BY <1>1, <1>2, <1>3, <1>4, <1>5, <1>6, <1>7, <1>8, <1>9, <1>10, <1>11,
       <1>12, <1>13, <1>14, <1>15, <1>16, <1>17, <1>18, <1>19 DEF Next,
       Step

\* Every step keeps BudgetInv: an attempt is added to the count and to the set
\* of admitted calls together, and by a call that was not in it.
LEMMA BudgetStep ==
  ASSUME IndInv, [Next]_vars PROVE BudgetInv'
  <1>0. TypeOK /\ AdmittedInv /\ BudgetInv
    BY DEF IndInv
  <1>1. ASSUME NEW c \in Calls, Reserve(c) PROVE BudgetInv'
    <2>1. id[c] \in Challenges /\ c \notin admitted[id[c]]
      BY <1>0, <1>1 DEF AdmittedInv, MayBeAdmitted, Reserve
    <2>2. /\ attempts' = [attempts EXCEPT ![id[c]] = attempts[id[c]] + 1]
          /\ admitted' = [admitted EXCEPT ![id[c]] = admitted[id[c]] \cup {c}]
      BY <1>1 DEF Reserve, Incremented
    <2>3. /\ IsFiniteSet(admitted[id[c]] \cup {c})
          /\ Cardinality(admitted[id[c]] \cup {c}) = attempts[id[c]] + 1
      BY <1>0, <2>1, FS_AddElement DEF BudgetInv
    <2>4. ASSUME NEW ch \in Challenges
          PROVE  /\ IsFiniteSet(admitted'[ch])
                 /\ attempts'[ch] = Cardinality(admitted'[ch])
      BY <1>0, <2>1, <2>2, <2>3, <2>4 DEF TypeOK, BudgetInv
    <2> QED
      BY <2>4 DEF BudgetInv
  <1>2. ASSUME UNCHANGED <<attempts, admitted>> PROVE BudgetInv'
    BY <1>0, <1>2 DEF BudgetInv
  <1>3. CASE Next
    <2>1. (\E c \in Calls : Reserve(c)) \/ UNCHANGED <<attempts, admitted>>
      BY <1>3
      DEF Next, Step, Tick, Compose, insert_login_challenge, Delete, Begin,
          Find, Admit, Attempt, ReserveRefused, CheckReserved, Work,
          CheckVerified, Record, Consume, CheckConsumed, Finish, Fail, table,
          history
    <2> QED
      BY <1>1, <1>2, <2>1
  <1>4. CASE UNCHANGED vars
    BY <1>2, <1>4 DEF vars, table, history
  <1> QED
    BY <1>3, <1>4

-----------------------------------------------------------------------------
(* The theorems.                                                           *)

\* Initially nothing has been found, admitted or consumed.
LEMMA Initially == Init => IndInv
  <1> SUFFICES ASSUME Init PROVE IndInv
    OBVIOUS
  <1>1. TypeOK
    BY OptionsAssumption, CallsAssumption DEF Init, TypeOK
  <1>2. AdmittedInv /\ SeenInv /\ RowInv /\ WorkInv
    BY CallsAssumption
    DEF Init, AdmittedInv, SeenInv, RowInv, WorkInv, IsAdmitted, Found
  <1>3. BudgetInv
    BY FS_EmptySet DEF Init, BudgetInv
  <1>4. SpenderInv /\ OutcomeInv
    BY CallsAssumption DEF Init, SpenderInv, OutcomeInv
  <1> QED
    BY <1>1, <1>2, <1>3, <1>4 DEF IndInv

\* The inductive invariant holds throughout.
THEOREM Invariant == Spec => []IndInv
  <1>1. IndInv /\ [Next]_vars => IndInv'
    BY TypeStep, AdmittedStep, BudgetStep, SeenStep, RowStep, WorkStep,
       SpenderStep, OutcomeStep DEF IndInv
  <1> QED
    BY <1>1, Initially, PTL DEF Spec

\* Every variable of the challenge protocol keeps its type.
THEOREM TypeCorrect == Spec => []TypeOK
  <1>1. IndInv => TypeOK
    BY DEF IndInv
  <1> QED
    BY <1>1, Invariant, PTL

\* However many verifications race, one challenge logs in at most once, with
\* its own code, in an admitted attempt.
THEOREM SingleUse == Spec => []OneAcceptance
  <1>1. IndInv => OneAcceptance
    BY DEF IndInv, OneAcceptance, AdmittedInv, IsAdmitted, WorkInv, SpenderInv
  <1> QED
    BY <1>1, Invariant, PTL

\* The stored count is exactly the number of attempts ever admitted and never
\* exceeds max_attempts.
THEOREM Budget == Spec => []AttemptsBudget
  <1>1. IndInv => AttemptsBudget
    BY OptionsAssumption DEF IndInv, TypeOK, BudgetInv, AttemptsBudget
  <1> QED
    BY <1>1, Invariant, PTL

\* verify_login_challenge records a failed attempt against wrong codes and
\* replays, all of them and nothing else.
THEOREM Charges == Spec => []FairCharge
  <1>1. IndInv => FairCharge
    BY DEF IndInv, FairCharge, AdmittedInv, WorkInv, OutcomeInv
  <1> QED
    BY <1>1, Invariant, PTL

\* An admitted attempt with the right code, up to the last of the budget, is
\* refused only for expiry, for a replay or by an unavailable pool.
THEOREM RightCode == Spec => []RightCodeOutcome
  <1>1. IndInv => RightCodeOutcome
    BY DEF IndInv, RightCodeOutcome, AdmittedInv, MayBeAdmitted, WorkInv,
           OutcomeInv
  <1> QED
    BY <1>1, Invariant, PTL

\* A consumed challenge admits no further attempt and is never reopened.
THEOREM Final == Spec => SpentIsFinal
  <1>1. ASSUME IndInv, [Next]_vars, NEW ch \in Challenges, is_consumed(ch)
        PROVE  /\ consumed_at'[ch] = consumed_at[ch]
               /\ attempts'[ch] = attempts[ch]
    <2>0. TypeOK /\ AdmittedInv
      BY <1>1 DEF IndInv
    <2>1. ASSUME NEW c \in Calls, Reserve(c)
          PROVE  /\ consumed_at'[ch] = consumed_at[ch]
                 /\ attempts'[ch] = attempts[ch]
      BY <1>1, <2>0, <2>1
      DEF Reserve, Reservable, TypeOK, AdmittedInv
    <2>2. ASSUME NEW c \in Calls, Consume(c)
          PROVE  /\ consumed_at'[ch] = consumed_at[ch]
                 /\ attempts'[ch] = attempts[ch]
      BY <1>1, <2>0, <2>2
      DEF Consume, Consumable, TypeOK, AdmittedInv
    <2>3. \/ \E c \in Calls : Reserve(c) \/ Consume(c)
          \/ UNCHANGED <<attempts, consumed_at>>
      BY <1>1
      DEF Next, Step, Tick, Compose, insert_login_challenge, Delete, Begin,
          Find, Admit, Attempt, ReserveRefused, CheckReserved, Work,
          CheckVerified, Record, CheckConsumed, Finish, Fail, table, vars
    <2> QED
      BY <2>1, <2>2, <2>3
  <1>2. IndInv /\ [Next]_vars =>
          [\A ch \in Challenges : is_consumed(ch) =>
             /\ consumed_at'[ch] = consumed_at[ch]
             /\ attempts'[ch] = attempts[ch]]_vars
    BY <1>1
  <1> QED
    BY <1>2, Invariant, PTL DEF Spec, SpentIsFinal
=============================================================================
