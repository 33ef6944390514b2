----------------------- MODULE RefreshRotationProofs -----------------------
(***************************************************************************)
(* Theorems about refresh-token rotation, for every number of families,    *)
(* calls and users, every window, ttl, skew and retry limit.               *)
(***************************************************************************)
EXTENDS RefreshRotation, TLAPS

\* Every time an instance reads is an integer.
LEMMA ReadingInt == ASSUME TypeOK PROVE Reading \subseteq Int
  BY ConfigAssumption DEF Reading, TypeOK

\* No call has attempted anything yet.
LEMMA NoAttemptTyped == NoAttempt \in Attempt
  BY ConfigAssumption DEF NoAttempt, Attempt

-----------------------------------------------------------------------------
(* Type correctness.                                                       *)

\* The call variables stay well typed when a call returns, goes on or copies
\* a record.
LEMMA ReturnTyped ==
  ASSUME TypeOK, NEW c \in Calls, NEW result \in Results, Return(c, result)
  PROVE  /\ pc' \in [Calls -> {"idle"} \cup Steps \cup Results]
         /\ seen' \in [Calls -> TokenRecord \cup {None}]
         /\ attempt' \in [Calls -> Attempt]
  BY NoAttemptTyped DEF TypeOK, Return, Go

\* Moving a call on keeps the type of pc.
LEMMA GoTyped ==
  ASSUME TypeOK, NEW c \in Calls, NEW step \in Steps, Go(c, step)
  PROVE  pc' \in [Calls -> {"idle"} \cup Steps \cup Results]
  BY DEF TypeOK, Go

\* Copying the presented record keeps the types.
LEMMA KeepTyped ==
  ASSUME TypeOK, NEW c \in Calls, NEW step \in Steps, Found(c), Keep(c, step)
  PROVE  TypeOK'
  <1>1. request[c].token \in TokenId
    BY DEF TypeOK, Found, Request
  <1>2. seen' \in [Calls -> TokenRecord \cup {None}]
    BY <1>1 DEF TypeOK, Keep, Presented
  <1> QED
    BY <1>2, GoTyped DEF TypeOK, Keep, CallStep, world

\* The environment's actions keep the types.
LEMMA TypeEnvironment ==
  ASSUME IndInv,
         \/ Tick
         \/ \E u \in Users : UpdateUser(u)
         \/ \E f \in Families, u \in Users : Issue(f, u)
         \/ \E c \in Calls : \E k \in Kinds, i \in Delivered \cup {None} :
              Begin(c, k, i)
         \/ \E c \in Calls : Fail(c)
  PROVE  TypeOK'
  <1>0. TypeOK
    BY DEF IndInv
  <1>1. CASE Tick
    BY <1>0, <1>1 DEF TypeOK, Tick, locals
  <1>2. ASSUME NEW u \in Users, UpdateUser(u) PROVE TypeOK'
    <2>1. PICK r \in UserRecord :
            /\ users' = [users EXCEPT ![u] = r]
            /\ witness' = [c \in Calls |->
                 IF /\ Running(c)
                    /\ request[c].token # None
                    /\ tokens[request[c].token].user = u
                 THEN witness[c] \cup {r}
                 ELSE witness[c]]
      BY <1>2 DEF UpdateUser
    <2> QED
      BY <1>0, <1>2, <2>1 DEF TypeOK, UpdateUser, locals
  <1>3. ASSUME NEW f \in Families, NEW u \in Users, Issue(f, u) PROVE TypeOK'
    <2>1. PICK g \in SUBSET Grants, s \in Sources, t \in Reading :
            tokens' = [tokens EXCEPT ![f] =
              [family |-> f, user |-> u, source |-> s, grants |-> g,
               assurance |-> "login", expires_at |-> t + TTL,
               revoked_at |-> None, replaced_by |-> None]]
      BY <1>3 DEF Issue
    <2>2. t + TTL \in Int
      BY <1>0, ReadingInt, ConfigAssumption
    <2> QED
      BY <1>0, <1>3, <2>1, <2>2
      DEF TypeOK, Issue, TokenRecord, TokenId, world, locals
  <1>4. ASSUME NEW c \in Calls, NEW k \in Kinds, NEW i \in Delivered \cup {None},
               Begin(c, k, i)
        PROVE  TypeOK'
    <2>1. PICK t \in Reading :
            request' = [request EXCEPT ![c] =
                          [kind |-> k, token |-> i, entered |-> t]]
      BY <1>4 DEF Begin
    <2>2. t \in Int /\ i \in TokenId \cup {None}
      BY <1>0, ReadingInt DEF Delivered
    <2>3. [kind |-> k, token |-> i, entered |-> t] \in Request
      BY <2>2, ConfigAssumption DEF Request
    <2>4. i # None => users[tokens[i].user] \in UserRecord
      BY <1>0, <1>4, IdentityAssumption
      DEF TypeOK, Delivered, TokenRecord, Exists
    <2>5. pc' \in [Calls -> {"idle"} \cup Steps \cup Results]
      BY <1>0, <1>4, GoTyped DEF Begin, Steps
    <2>6. witness' \in [Calls -> SUBSET UserRecord]
      BY <1>0, <1>4, <2>4 DEF TypeOK, Begin
    <2> QED
      BY <1>0, <1>4, <2>1, <2>3, <2>5, <2>6 DEF TypeOK, Begin, world
  <1>5. ASSUME NEW c \in Calls, Fail(c) PROVE TypeOK'
    <2>1. "Failed" \in Results
      BY DEF Results
    <2> QED
      BY <1>0, <1>5, <2>1, ReturnTyped DEF TypeOK, Fail, world
  <1> QED
    BY <1>1, <1>2, <1>3, <1>4, <1>5

\* What a step of a call that only returns needs for its types.
LEMMA ReturnStepTyped ==
  ASSUME TypeOK, NEW c \in Calls, NEW result \in Results,
         Return(c, result), CallStep
  PROVE  TypeOK'
  BY ReturnTyped DEF TypeOK, CallStep, world

\* A replacement is a record, and so is what it replaces.
LEMMA RotateTyped ==
  ASSUME TypeOK, NEW c \in Calls, SnapshotOf(c), ReuseOf(c),
         pc[c] = "rotate"
  PROVE  /\ Target(c) \in TokenId
         /\ Exists(Target(c))
         /\ tokens[Target(c)] \in TokenRecord
         /\ seen[c] \in TokenRecord
         /\ tokens[Target(c)].family = seen[c].family
         /\ RotatedAt(c) \in Int
         /\ Replacement(c) \in TokenRecord
         /\ Replacement(c) # None
  <1>1. /\ request[c].token \in TokenId \cup {None}
        /\ request[c].entered \in Int
        /\ request[c].kind \in {"refresh", "step_up", "logout", "logout_family"}
    BY DEF TypeOK, Request
  <1>2. /\ attempt[c].newest \in TokenId \cup {None}
        /\ attempt[c].now \in Int
        /\ attempt[c].grants \in SUBSET Grants
    BY DEF TypeOK, Attempt
  <1>3. /\ request[c].token # None
        /\ Exists(request[c].token)
        /\ seen[c] # None
        /\ SameSession(seen[c], tokens[request[c].token])
    BY DEF SnapshotOf, PastFind, Presented
  <1>4. seen[c] \in TokenRecord
    BY <1>3 DEF TypeOK
  <1>5. /\ Target(c) \in TokenId
        /\ Exists(Target(c))
        /\ tokens[Target(c)].family = seen[c].family
    <2>1. CASE attempt[c].newest = None
      BY <2>1, <1>1, <1>3 DEF Target, SameSession
    <2>2. CASE attempt[c].newest # None
      BY <2>2, <1>2 DEF Target, ReuseOf
    <2> QED
      BY <2>1, <2>2
  <1>6. tokens[Target(c)] \in TokenRecord
    BY <1>5 DEF TypeOK, Exists
  <1>7. RotatedAt(c) \in Int
    BY <1>1, <1>2 DEF RotatedAt
  <1>8. RotatedAt(c) + TTL \in Int
    BY <1>7, ConfigAssumption
  <1>9. Replacement(c) \in TokenRecord
    BY <1>2, <1>4, <1>8 DEF Replacement, TokenRecord
  <1> QED
    BY <1>4, <1>5, <1>6, <1>7, <1>9, IdentityAssumption

\* A rotated or revoked record is a record.
LEMMA SupersededTyped ==
  ASSUME NEW r \in TokenRecord, NEW t \in Int, NEW c \in Calls
  PROVE  /\ [r EXCEPT !.revoked_at = t] \in TokenRecord
         /\ [r EXCEPT !.revoked_at = t] # None
         /\ [r EXCEPT !.revoked_at = t].revoked_at = t
         /\ [r EXCEPT !.revoked_at = t].replaced_by = r.replaced_by
         /\ SameSession([r EXCEPT !.revoked_at = t], r)
         /\ Superseded(r, c, t) \in TokenRecord
         /\ Superseded(r, c, t) # None
         /\ Superseded(r, c, t).revoked_at = t
         /\ Superseded(r, c, t).replaced_by = c
         /\ SameSession(Superseded(r, c, t), r)
  <1> DEFINE q == [r EXCEPT !.revoked_at = t]
  <1>1. /\ q \in TokenRecord
        /\ q.revoked_at = t
        /\ q.replaced_by = r.replaced_by
        /\ SameSession(q, r)
    BY DEF TokenRecord, SameSession
  <1> HIDE DEF q
  <1>2. /\ [q EXCEPT !.replaced_by = c] \in TokenRecord
        /\ [q EXCEPT !.replaced_by = c].revoked_at = q.revoked_at
        /\ [q EXCEPT !.replaced_by = c].replaced_by = c
        /\ SameSession([q EXCEPT !.replaced_by = c], q)
    BY <1>1 DEF TokenRecord, SameSession
  <1>3. Superseded(r, c, t) = [q EXCEPT !.replaced_by = c]
    BY DEF Superseded, q
  <1>4. SameSession(Superseded(r, c, t), r)
    BY <1>1, <1>2, <1>3 DEF SameSession
  <1> QED
    BY <1>1, <1>2, <1>3, <1>4, IdentityAssumption DEF q

\* The steps of a call keep the types.
LEMMA TypeCall ==
  ASSUME IndInv, NEW c \in Calls, Step(c)
  PROVE  TypeOK'
  <1>0. TypeOK /\ SnapshotOf(c) /\ ReuseOf(c)
    BY DEF IndInv, CallsInv
  <1>r. /\ Results = {"Ok", "Invalid", "Replay", "Expired", "Disabled",
                      "Forbidden", "Store", "Failed"}
        /\ Steps = {"find", "grace", "live", "user", "authority", "rotate",
                    "observe", "reread", "revoke", "revoke_family"}
    BY DEF Results, Steps
  <1>1. CASE FindUnknown(c)
    BY <1>0, <1>1, <1>r, ReturnStepTyped DEF FindUnknown
  <1>2. CASE FindRevoked(c)
    BY <1>0, <1>2, <1>r, KeepTyped DEF FindRevoked
  <1>3. CASE FindExpired(c)
    BY <1>0, <1>3, <1>r, KeepTyped DEF FindExpired
  <1>4. CASE FindCurrent(c)
    BY <1>0, <1>4, <1>r, KeepTyped DEF FindCurrent
  <1>5. CASE FindLogout(c)
    BY <1>0, <1>5, <1>r, KeepTyped DEF FindLogout
  <1>6. CASE FindLogoutNoop(c)
    BY <1>0, <1>6, <1>r, ReturnStepTyped DEF FindLogoutNoop
  <1>7. CASE GraceExhausted(c)
    BY <1>0, <1>7, <1>r, ReturnStepTyped DEF GraceExhausted
  <1>8. CASE GraceOpen(c)
    <2>1. PICK t \in Reading :
            /\ attempt' = [attempt EXCEPT ![c].now = t]
            /\ Go(c, IF superseded_within(seen[c], t)
                     THEN "live" ELSE "revoke_family")
      BY <1>8 DEF GraceOpen
    <2>2. attempt' \in [Calls -> Attempt]
      BY <1>0, <2>1, ReadingInt DEF TypeOK, Attempt
    <2>3. pc' \in [Calls -> {"idle"} \cup Steps \cup Results]
      BY <1>0, <1>r, <2>1, GoTyped
    <2> QED
      BY <1>0, <1>8, <2>2, <2>3 DEF TypeOK, GraceOpen, CallStep, world
  <1>9. CASE NewestFound(c)
    <2>1. PICK n \in TokenId : attempt' = [attempt EXCEPT ![c].newest = n]
      BY <1>9 DEF NewestFound, Replaceable
    <2>2. attempt' \in [Calls -> Attempt]
      BY <1>0, <2>1 DEF TypeOK, Attempt
    <2>3. pc' \in [Calls -> {"idle"} \cup Steps \cup Results]
      BY <1>0, <1>9, <1>r, GoTyped DEF NewestFound
    <2> QED
      BY <1>0, <1>9, <2>2, <2>3 DEF TypeOK, NewestFound, CallStep, world
  <1>10. CASE NewestRefused(c)
    <2>1. pc' \in [Calls -> {"idle"} \cup Steps \cup Results]
      BY <1>0, <1>10, <1>r, GoTyped DEF NewestRefused
    <2> QED
      BY <1>0, <1>10, <2>1 DEF TypeOK, NewestRefused, CallStep, world
  <1>11. CASE UserRefused(c)
    <2>1. Refusals(c) \subseteq Results
      BY <1>r DEF Refusals
    <2> QED
      BY <1>0, <1>11, <2>1, ReturnStepTyped DEF UserRefused
  <1>12. ASSUME Prepare(c), pc[c] \in {"user", "authority"} PROVE TypeOK'
    <2>1. seen[c] \in TokenRecord
      BY <1>0, <1>12 DEF TypeOK, SnapshotOf, PastFind
    <2>2. Narrowed(c) \in SUBSET Grants
      BY <2>1 DEF Narrowed, TokenRecord
    <2>3. attempt' \in [Calls -> Attempt]
      BY <1>0, <1>12, <2>2 DEF TypeOK, Attempt, Prepare
    <2>4. pc' \in [Calls -> {"idle"} \cup Steps \cup Results]
      BY <1>0, <1>12, <1>r, GoTyped DEF Prepare
    <2> QED
      BY <1>0, <1>12, <2>3, <2>4 DEF TypeOK, Prepare, CallStep, world
  <1>13. CASE StoredUserRead(c) \/ AuthorityRead(c)
    BY <1>12, <1>13 DEF StoredUserRead, AuthorityRead
  <1>14. CASE HostUserRead(c)
    <2>1. pc' \in [Calls -> {"idle"} \cup Steps \cup Results]
      BY <1>0, <1>14, <1>r, GoTyped DEF HostUserRead
    <2> QED
      BY <1>0, <1>14, <2>1 DEF TypeOK, HostUserRead, CallStep, world
  <1>15. CASE RotateWon(c)
    <2>1. /\ pc[c] = "rotate"
          /\ tokens' = [tokens EXCEPT
                ![Target(c)] = Superseded(tokens[Target(c)], c, RotatedAt(c)),
                ![c] = Replacement(c)]
      BY <1>15 DEF RotateWon, rotate_refresh_token
    <2>2. tokens' \in [TokenId -> TokenRecord \cup {None}]
      BY <1>0, <2>1, RotateTyped, SupersededTyped DEF TypeOK
    <2>3. /\ pc' \in [Calls -> {"idle"} \cup Steps \cup Results]
          /\ seen' \in [Calls -> TokenRecord \cup {None}]
          /\ attempt' \in [Calls -> Attempt]
      <3>1. CASE Return(c, "Ok")
        BY <1>0, <1>r, <3>1, ReturnTyped
      <3>2. CASE Go(c, "observe") /\ UNCHANGED <<seen, attempt>>
        BY <1>0, <1>r, <3>2, GoTyped DEF TypeOK
      <3> QED
        BY <1>15, <3>1, <3>2 DEF RotateWon
    <2> QED
      BY <1>0, <1>15, <2>2, <2>3 DEF TypeOK, RotateWon, world
  <1>16. CASE RetryLost(c)
    <2>1. attempt[c].retries \in 0..MaxRetries /\ attempt[c].retries < MaxRetries
      BY <1>0, <1>16 DEF TypeOK, Attempt, ReuseOf, RetryLost
    <2>2. [NoAttempt EXCEPT !.retries = attempt[c].retries + 1] \in Attempt
      BY <2>1, ConfigAssumption DEF NoAttempt, Attempt
    <2>3. attempt' \in [Calls -> Attempt]
      BY <1>0, <1>16, <2>2 DEF TypeOK, RetryLost
    <2>4. pc' \in [Calls -> {"idle"} \cup Steps \cup Results]
      BY <1>0, <1>16, <1>r, GoTyped DEF RetryLost
    <2> QED
      BY <1>0, <1>16, <2>3, <2>4 DEF TypeOK, RetryLost, CallStep, world
  <1>17. CASE RotateLost(c)
    <2>1. pc' \in [Calls -> {"idle"} \cup Steps \cup Results]
      BY <1>0, <1>17, <1>r, GoTyped DEF RotateLost
    <2> QED
      BY <1>0, <1>17, <2>1 DEF TypeOK, RotateLost, CallStep, world
  <1>18. CASE Observe(c)
    <2>1. /\ request[c].token \in TokenId
          /\ pc[c] = "observe"
      BY <1>0, <1>18 DEF TypeOK, Request, SnapshotOf, PastFind, Observe
    <2>2. attempt[c].newest \in TokenId
      BY <1>0, <1>18, <2>1 DEF TypeOK, Attempt, ReuseOf
    <2>3. audit' \in SUBSET AuditEvent
      BY <1>0, <1>18, <2>1, <2>2 DEF TypeOK, Observe, AuditEvent
    <2> QED
      BY <1>0, <1>18, <1>r, <2>3, ReturnTyped DEF TypeOK, Observe, world
  <1>19. CASE Reread(c)
    <2>1. request[c].token \in TokenId
      BY <1>0, <1>19 DEF TypeOK, Request, SnapshotOf, PastFind, Reread
    <2>2. seen' \in [Calls -> TokenRecord \cup {None}]
      BY <1>0, <1>19, <2>1 DEF TypeOK, Reread, Presented
    <2>3. pc' \in [Calls -> {"idle"} \cup Steps \cup Results]
      BY <1>0, <1>19, <1>r, GoTyped DEF Reread
    <2> QED
      BY <1>0, <1>19, <2>2, <2>3 DEF TypeOK, Reread, CallStep, world
  <1>20. request[c].entered \in Int
    BY <1>0 DEF TypeOK, Request
  <1>21. CASE RevokeFamily(c)
    <2>1. tokens' \in [TokenId -> TokenRecord \cup {None}]
      BY <1>0, <1>20, <1>21, SupersededTyped
      DEF TypeOK, RevokeFamily, revoke_refresh_token_family, Exists
    <2>2. (IF Rotating(c) THEN "Replay" ELSE "Ok") \in Results
      BY <1>r
    <2> QED
      BY <1>0, <1>21, <2>1, <2>2, ReturnTyped DEF TypeOK, RevokeFamily, world
  <1>22. CASE RevokeToken(c)
    <2>1. request[c].token \in TokenId
      BY <1>0, <1>22 DEF TypeOK, Request, SnapshotOf, PastFind, RevokeToken
    <2>2. tokens' \in [TokenId -> TokenRecord \cup {None}]
      BY <1>0, <1>20, <1>22, <2>1, SupersededTyped
      DEF TypeOK, RevokeToken, revoke_refresh_token, Exists
    <2>3. (IF Rotating(c) THEN "Expired" ELSE "Ok") \in Results
      BY <1>r
    <2> QED
      BY <1>0, <1>22, <2>2, <2>3, ReturnTyped DEF TypeOK, RevokeToken, world
  <1> QED
    BY <1>1, <1>2, <1>3, <1>4, <1>5, <1>6, <1>7, <1>8, <1>9, <1>10, <1>11,
       <1>13, <1>14, <1>15, <1>16, <1>17, <1>18, <1>19, <1>21, <1>22 DEF Step

\* Every step keeps the types.
LEMMA TypeStep == ASSUME IndInv, [Next]_vars PROVE TypeOK'
  <1>1. CASE UNCHANGED vars
    BY <1>1 DEF IndInv, TypeOK, vars, world, locals
  <1>2. CASE Next
    BY <1>2, TypeEnvironment, TypeCall DEF Next
  <1> QED
    BY <1>1, <1>2

-----------------------------------------------------------------------------
(* What a step does to the store.                                          *)

\* Only five operations write the store.
LEMMA StoreSteps ==
  ASSUME [Next]_vars
  PROVE  \/ tokens' = tokens
         \/ \E f \in Families, u \in Users : Issue(f, u)
         \/ \E c \in Calls : RotateWon(c)
         \/ \E c \in Calls : RevokeFamily(c)
         \/ \E c \in Calls : RevokeToken(c)
  <1>1. CASE UNCHANGED vars
    BY <1>1 DEF vars
  <1>2. ASSUME NEW c \in Calls, Step(c),
               ~RotateWon(c), ~RevokeFamily(c), ~RevokeToken(c)
        PROVE  tokens' = tokens
    BY <1>2
    DEF Step, FindUnknown, FindRevoked, FindExpired, FindCurrent, FindLogout,
        FindLogoutNoop, GraceExhausted, GraceOpen, NewestFound, NewestRefused,
        UserRefused, StoredUserRead, HostUserRead, AuthorityRead, RetryLost,
        RotateLost, Observe, Reread, Prepare, Keep, CallStep
  <1> QED
    BY <1>1, <1>2 DEF Next, Tick, UpdateUser, Begin, Fail

\* A login writes one record, which was not there.
LEMMA IssueEffect ==
  ASSUME TypeOK, NEW f \in Families, NEW u \in Users, Issue(f, u)
  PROVE  /\ f \in TokenId
         /\ ~Exists(f)
         /\ tokens'[f] # None
         /\ tokens'[f].family = f
         /\ tokens'[f].revoked_at = None
         /\ tokens'[f].replaced_by = None
         /\ \A i \in TokenId \ {f} : tokens'[i] = tokens[i]
         /\ UNCHANGED locals
  <1>1. PICK g \in SUBSET Grants, s \in Sources, t \in Reading :
          tokens' = [tokens EXCEPT ![f] =
            [family |-> f, user |-> u, source |-> s, grants |-> g,
             assurance |-> "login", expires_at |-> t + TTL,
             revoked_at |-> None, replaced_by |-> None]]
    BY DEF Issue
  <1>2. t + TTL \in Int
    BY ReadingInt, ConfigAssumption
  <1>3. [family |-> f, user |-> u, source |-> s, grants |-> g,
         assurance |-> "login", expires_at |-> t + TTL,
         revoked_at |-> None, replaced_by |-> None] \in TokenRecord
    BY <1>2 DEF TokenRecord
  <1>4. f \in TokenId
    BY DEF TokenId
  <1> QED
    BY <1>1, <1>3, <1>4, IdentityAssumption DEF TypeOK, Issue

\* A rotation supersedes its live target and inserts the replacement.
LEMMA RotateEffect ==
  ASSUME IndInv, NEW c \in Calls, RotateWon(c)
  PROVE  /\ c \in TokenId
         /\ ~Exists(c)
         /\ Target(c) # c
         /\ tokens[Target(c)].revoked_at = None
         /\ tokens'[c] = Replacement(c)
         /\ tokens'[Target(c)] =
              Superseded(tokens[Target(c)], c, RotatedAt(c))
         /\ \A i \in TokenId \ {c, Target(c)} : tokens'[i] = tokens[i]
  <1>1. /\ TypeOK /\ SnapshotOf(c) /\ ReuseOf(c) /\ MintOf(c)
        /\ pc[c] = "rotate"
    BY DEF IndInv, CallsInv, RotateWon
  <1>2. c \in TokenId /\ ~Exists(c)
    BY <1>1 DEF TokenId, MintOf, Results
  <1>3. Target(c) \in TokenId /\ Exists(Target(c))
    BY <1>1, RotateTyped
  <1>4. /\ tokens[Target(c)].revoked_at = None
        /\ tokens' = [tokens EXCEPT
              ![Target(c)] = Superseded(tokens[Target(c)], c, RotatedAt(c)),
              ![c] = Replacement(c)]
    BY DEF RotateWon, rotate_refresh_token, is_revoked
  <1> QED
    BY <1>1, <1>2, <1>3, <1>4 DEF TypeOK

\* What family revocation leaves of each record.
LEMMA RevokeFamilyEffect ==
  ASSUME TypeOK, NEW c \in Calls, RevokeFamily(c), NEW i \in TokenId
  PROVE  /\ Exists(i) <=> Exists(i)'
         /\ Exists(i) =>
              /\ SameSession(tokens'[i], tokens[i])
              /\ tokens'[i].replaced_by = tokens[i].replaced_by
              /\ is_revoked(tokens[i]) => is_revoked(tokens'[i])
              /\ tokens[i].family = seen[c].family => is_revoked(tokens'[i])
              /\ tokens[i].family # seen[c].family => tokens'[i] = tokens[i]
  <1>1. request[c].entered \in Int /\ request[c].entered # None
    BY IdentityAssumption DEF TypeOK, Request
  <1>2. tokens'[i] = IF /\ Exists(i)
                        /\ tokens[i].family = seen[c].family
                        /\ Overwrites \/ ~is_revoked(tokens[i])
                     THEN [tokens[i] EXCEPT !.revoked_at = request[c].entered]
                     ELSE tokens[i]
    BY DEF RevokeFamily, revoke_refresh_token_family
  <1>3. CASE ~Exists(i)
    BY <1>2, <1>3 DEF Exists
  <1>4. CASE Exists(i)
    <2>1. tokens[i] \in TokenRecord
      BY <1>4 DEF TypeOK, Exists
    <2> QED
      BY <1>1, <1>2, <1>4, <2>1, SupersededTyped DEF Exists, is_revoked, SameSession
  <1> QED
    BY <1>3, <1>4

\* What revoking one token leaves of each record.
LEMMA RevokeTokenEffect ==
  ASSUME TypeOK, NEW c \in Calls, RevokeToken(c), NEW i \in TokenId
  PROVE  /\ Exists(i) <=> Exists(i)'
         /\ Exists(i) =>
              /\ SameSession(tokens'[i], tokens[i])
              /\ tokens'[i].replaced_by = tokens[i].replaced_by
              /\ is_revoked(tokens[i]) => tokens'[i] = tokens[i]
  <1>1. request[c].entered \in Int /\ request[c].entered # None
    BY IdentityAssumption DEF TypeOK, Request
  <1> DEFINE j == request[c].token
  <1>2. CASE ~(Exists(j) /\ ~is_revoked(tokens[j]))
    BY <1>2 DEF RevokeToken, revoke_refresh_token, Exists, SameSession
  <1>3. CASE Exists(j) /\ ~is_revoked(tokens[j])
    <2>1. tokens' = [tokens EXCEPT ![j].revoked_at = request[c].entered]
      BY <1>3 DEF RevokeToken, revoke_refresh_token
    <2>2. CASE i # j
      BY <2>1, <2>2 DEF TypeOK, Exists, SameSession
    <2>3. CASE i = j
      <3>1. tokens[i] \in TokenRecord
        BY <1>3, <2>3 DEF TypeOK, Exists
      <3>2. tokens'[i] = [tokens[i] EXCEPT !.revoked_at = request[c].entered]
        BY <2>1, <2>3 DEF TypeOK
      <3> QED
        BY <1>1, <1>3, <2>3, <3>1, <3>2, SupersededTyped
        DEF Exists, is_revoked, SameSession
    <2> QED
      BY <2>2, <2>3
  <1> QED
    BY <1>2, <1>3

\* Records are never deleted, keep their session and stay revoked.
Persists ==
    \A i \in TokenId :
      Exists(i) => /\ Exists(i)'
                   /\ SameSession(tokens'[i], tokens[i])
                   /\ is_revoked(tokens[i]) => is_revoked(tokens'[i])

\* Records are never removed and never un-revoked.
LEMMA Persistence == ASSUME IndInv, [Next]_vars PROVE Persists
  <1>0. TypeOK
    BY DEF IndInv
  <1>1. CASE tokens' = tokens
    BY <1>1 DEF Persists, Exists, SameSession
  <1>2. ASSUME NEW f \in Families, NEW u \in Users, Issue(f, u) PROVE Persists
    BY <1>0, <1>2, IssueEffect DEF Persists, Exists, SameSession
  <1>3. ASSUME NEW c \in Calls, RotateWon(c) PROVE Persists
    <2>1. /\ TypeOK /\ SnapshotOf(c) /\ ReuseOf(c)
          /\ pc[c] = "rotate"
      BY <1>3 DEF IndInv, CallsInv, RotateWon
    <2>2. RotatedAt(c) \in Int /\ tokens[Target(c)] \in TokenRecord
      BY <2>1, RotateTyped
    <2>3. /\ Superseded(tokens[Target(c)], c, RotatedAt(c)) # None
          /\ SameSession(Superseded(tokens[Target(c)], c, RotatedAt(c)),
                         tokens[Target(c)])
      BY <2>2, SupersededTyped
    <2> QED
      BY <1>3, <2>3, RotateEffect DEF Persists, Exists, is_revoked, SameSession
  <1>4. ASSUME NEW c \in Calls, RevokeFamily(c) PROVE Persists
    BY <1>0, <1>4, RevokeFamilyEffect DEF Persists
  <1>5. ASSUME NEW c \in Calls, RevokeToken(c) PROVE Persists
    BY <1>0, <1>5, RevokeTokenEffect DEF Persists
  <1> QED
    BY <1>1, <1>2, <1>3, <1>4, <1>5, StoreSteps

-----------------------------------------------------------------------------
(* The calls in flight.                                                    *)

\* A call that does nothing keeps its invariant while records persist.
LEMMA CallStill ==
  ASSUME IndInv, Persists, NEW d \in Calls,
         pc'[d] = pc[d], request'[d] = request[d],
         seen'[d] = seen[d], attempt'[d] = attempt[d],
         Exists(d)' => Exists(d)
  PROVE  (SnapshotOf(d) /\ MintOf(d) /\ ReuseOf(d))'
  <1>1. TypeOK /\ SnapshotOf(d) /\ MintOf(d) /\ ReuseOf(d)
    BY DEF IndInv, CallsInv
  <1>2. /\ request[d].token # None => request[d].token \in TokenId
        /\ attempt[d].newest # None => attempt[d].newest \in TokenId
    BY <1>1 DEF TypeOK, Request, Attempt
  <1>3. SnapshotOf(d)'
    BY <1>1, <1>2 DEF SnapshotOf, Presented, Persists, SameSession, PastFind
  <1>4. MintOf(d)'
    BY <1>1, <1>2 DEF MintOf, ReuseOf, Persists, SameSession, Results
  <1>5. ReuseOf(d)'
    BY <1>1, <1>2
    DEF ReuseOf, SnapshotOf, PastFind, Presented, Persists, SameSession, Rotating
  <1> QED
    BY <1>3, <1>4, <1>5

\* A call that returns keeps it, if a report of replay is justified.
LEMMA CallReturns ==
  ASSUME IndInv, Persists, NEW c \in Calls, NEW result \in Results,
         Return(c, result), UNCHANGED request,
         result = "Replay" =>
           Rotating(c) /\ request[c].token # None /\ is_revoked(Presented(c))
  PROVE  (SnapshotOf(c) /\ MintOf(c) /\ ReuseOf(c))'
  <1>1. TypeOK /\ SnapshotOf(c)
    BY DEF IndInv, CallsInv
  <1>2. request[c].token # None => request[c].token \in TokenId
    BY <1>1 DEF TypeOK, Request
  <1>3. pc'[c] = result /\ attempt'[c] = NoAttempt
    BY <1>1 DEF Return, Go, TypeOK
  <1>4. result \notin PastFind
    BY DEF Results, PastFind
  <1>5. SnapshotOf(c)'
    BY <1>1, <1>2, <1>3, <1>4 DEF SnapshotOf, Persists
  <1>6. MintOf(c)'
    BY <1>3, <1>4 DEF MintOf, PastFind
  <1>7. ReuseOf(c)'
    BY <1>1, <1>2, <1>3, <1>4
    DEF ReuseOf, NoAttempt, PastFind, Presented, Persists, Rotating, SnapshotOf
  <1> QED
    BY <1>5, <1>6, <1>7

\* So do the steps that only move a call on.
LEMMA CallMoves ==
  ASSUME IndInv, NEW c \in Calls, Step(c), UNCHANGED tokens
  PROVE  (SnapshotOf(c) /\ MintOf(c) /\ ReuseOf(c))'
  <1>0. /\ TypeOK /\ SnapshotOf(c) /\ MintOf(c) /\ ReuseOf(c)
        /\ Persists
    BY DEF IndInv, CallsInv, Persists, SameSession, Exists
  <1>t. /\ request[c].token # None => request[c].token \in TokenId
        /\ attempt[c] \in Attempt
    BY <1>0 DEF TypeOK, Request
  <1>f. ASSUME NEW step \in {"grace", "revoke", "user", "revoke_family"},
               Found(c), Keep(c, step),
               step \in {"grace", "user"} => Rotating(c),
               step = "grace" => is_revoked(Presented(c)),
               step = "revoke_family" /\ Rotating(c) => is_revoked(Presented(c)),
               step = "revoke" => request[c].kind # "logout_family"
        PROVE  (SnapshotOf(c) /\ MintOf(c) /\ ReuseOf(c))'
    <2>1. /\ pc'[c] = step /\ pc[c] = "find"
          /\ seen'[c] = Presented(c)
          /\ attempt' = attempt /\ request' = request
          /\ request[c].token # None
      BY <1>0, <1>f DEF Found, Keep, Go, CallStep, TypeOK
    <2>2. SnapshotOf(c)'
      BY <1>0, <2>1 DEF SnapshotOf, Presented, SameSession, Exists
    <2>3. MintOf(c)'
      BY <1>0, <2>1 DEF MintOf, Results, Exists
    <2>4. attempt[c].newest = None
      BY <1>0, <2>1 DEF ReuseOf
    <2>5. ReuseOf(c)'
      BY <1>f, <2>1, <2>4 DEF ReuseOf, Presented, Rotating
    <2> QED
      BY <2>2, <2>3, <2>5
  <1>1. CASE FindUnknown(c) \/ FindLogoutNoop(c) \/ GraceExhausted(c) \/ Observe(c)
    BY <1>0, <1>1, CallReturns
    DEF FindUnknown, FindLogoutNoop, GraceExhausted, Observe, CallStep, Results
  <1>2. CASE FindRevoked(c) \/ FindExpired(c) \/ FindCurrent(c) \/ FindLogout(c)
    BY <1>2, <1>f
    DEF FindRevoked, FindExpired, FindCurrent, FindLogout, Rotating
  <1>3. CASE UserRefused(c)
    <2>1. PICK error \in Refusals(c) : Return(c, error)
      BY <1>3 DEF UserRefused
    <2>2. error \in {"Invalid", "Disabled", "Forbidden"}
      BY DEF Refusals
    <2> QED
      BY <1>0, <1>3, <2>1, <2>2, CallReturns DEF UserRefused, CallStep, Results
  <1>4. CASE GraceOpen(c)
    <2>1. PICK t \in Reading :
            /\ attempt' = [attempt EXCEPT ![c].now = t]
            /\ Go(c, IF superseded_within(seen[c], t)
                     THEN "live" ELSE "revoke_family")
      BY <1>4 DEF GraceOpen
    <2>2. /\ pc'[c] \in {"live", "revoke_family"} /\ pc[c] = "grace"
          /\ seen' = seen /\ request' = request
          /\ attempt'[c].newest = attempt[c].newest
          /\ attempt'[c].retries = attempt[c].retries
          /\ attempt[c].retries < MaxRetries
      BY <1>0, <1>t, <1>4, <2>1 DEF GraceOpen, Go, CallStep, TypeOK, Attempt
    <2>3. SnapshotOf(c)'
      BY <1>0, <2>2 DEF SnapshotOf, Presented, SameSession, PastFind, Exists
    <2>4. MintOf(c)'
      BY <1>0, <2>2 DEF MintOf, Results, Exists
    <2>5. ReuseOf(c)'
      BY <1>0, <2>2 DEF ReuseOf, Presented, Rotating
    <2> QED
      BY <2>3, <2>4, <2>5
  <1>5. CASE NewestFound(c)
    <2>1. PICK n \in Replaceable(c) : attempt' = [attempt EXCEPT ![c].newest = n]
      BY <1>5 DEF NewestFound
    <2>2. /\ n \in TokenId /\ n # None
          /\ Exists(n) /\ tokens[n].family = seen[c].family
      BY IdentityAssumption
      DEF Replaceable, find_live_refresh_tokens_in_family, Live
    <2>3. /\ pc'[c] = "user" /\ pc[c] = "live"
          /\ seen' = seen /\ request' = request
          /\ attempt'[c].newest = n
          /\ attempt'[c].retries = attempt[c].retries
      BY <1>0, <1>t, <1>5, <2>1 DEF NewestFound, Go, CallStep, TypeOK, Attempt
    <2>4. SnapshotOf(c)'
      BY <1>0, <2>3 DEF SnapshotOf, Presented, SameSession, PastFind, Exists
    <2>5. MintOf(c)'
      BY <1>0, <2>3 DEF MintOf, Results, Exists
    <2>6. ReuseOf(c)'
      BY <1>0, <2>2, <2>3 DEF ReuseOf, Presented, Rotating, Exists
    <2> QED
      BY <2>4, <2>5, <2>6
  <1>6. CASE NewestRefused(c) \/ HostUserRead(c) \/ RotateLost(c)
    <2>1. /\ seen' = seen /\ request' = request /\ attempt' = attempt
          /\ \/ pc[c] = "live" /\ pc'[c] = "revoke_family"
             \/ pc[c] = "user" /\ pc'[c] = "authority"
             \/ /\ pc[c] = "rotate"
                /\ pc'[c] \in {"reread", "revoke_family"}
                /\ is_revoked(Presented(c))
                /\ attempt[c].newest = None
      BY <1>0, <1>6
      DEF NewestRefused, HostUserRead, RotateLost, Go, CallStep, TypeOK, Target,
          Presented
    <2>2. SnapshotOf(c)'
      BY <1>0, <2>1 DEF SnapshotOf, Presented, SameSession, PastFind, Exists
    <2>3. MintOf(c)'
      BY <1>0, <2>1 DEF MintOf, Results, Exists
    <2>4. ReuseOf(c)'
      BY <1>0, <2>1 DEF ReuseOf, Presented, Rotating, Exists
    <2> QED
      BY <2>2, <2>3, <2>4
  <1>7. CASE StoredUserRead(c) \/ AuthorityRead(c)
    <2>1. /\ pc'[c] = "rotate" /\ pc[c] \in {"user", "authority"}
          /\ seen' = seen /\ request' = request
          /\ attempt' = [attempt EXCEPT ![c].grants = Narrowed(c)]
      BY <1>0, <1>7
      DEF StoredUserRead, AuthorityRead, Prepare, Go, CallStep, TypeOK
    <2>2. /\ attempt'[c].grants = Narrowed(c)
          /\ attempt'[c].newest = attempt[c].newest
          /\ attempt'[c].retries = attempt[c].retries
      BY <1>0, <1>t, <2>1 DEF TypeOK, Attempt
    <2>3. SnapshotOf(c)'
      BY <1>0, <2>1 DEF SnapshotOf, Presented, SameSession, PastFind, Exists
    <2>4. MintOf(c)'
      BY <1>0, <2>1, <2>2 DEF MintOf, Results, Exists, Narrowed
    <2>5. ReuseOf(c)'
      BY <1>0, <2>1, <2>2 DEF ReuseOf, Presented, Rotating, Exists
    <2> QED
      BY <2>3, <2>4, <2>5
  <1>8. CASE RetryLost(c)
    <2>1. /\ pc'[c] = "grace" /\ pc[c] = "rotate"
          /\ seen' = seen /\ request' = request
          /\ attempt[c].newest # None
          /\ attempt'[c].newest = None
      BY <1>0, <1>8 DEF RetryLost, Go, CallStep, TypeOK, NoAttempt
    <2>2. SnapshotOf(c)'
      BY <1>0, <2>1 DEF SnapshotOf, Presented, SameSession, PastFind, Exists
    <2>3. MintOf(c)'
      BY <1>0, <2>1 DEF MintOf, Results, Exists
    <2>4. ReuseOf(c)'
      BY <1>0, <2>1 DEF ReuseOf, Presented, Rotating, Exists
    <2> QED
      BY <2>2, <2>3, <2>4
  <1>9. CASE Reread(c)
    <2>1. /\ pc'[c] = "grace" /\ pc[c] = "reread"
          /\ seen'[c] = Presented(c) /\ request' = request
          /\ attempt' = attempt
      BY <1>0, <1>9 DEF Reread, Go, CallStep, TypeOK
    <2>2. SnapshotOf(c)'
      BY <1>0, <2>1 DEF SnapshotOf, Presented, SameSession, PastFind, Exists
    <2>3. MintOf(c)'
      BY <1>0, <2>1 DEF MintOf, Results, Exists
    <2>4. ReuseOf(c)'
      BY <1>0, <2>1 DEF ReuseOf, Presented, Rotating, Exists
    <2> QED
      BY <2>2, <2>3, <2>4
  <1>10. CASE RevokeFamily(c)
    <2>1. /\ pc[c] = "revoke_family" /\ request' = request
          /\ request[c].token # None
      BY <1>0, <1>10 DEF RevokeFamily, SnapshotOf, PastFind
    <2> QED
      BY <1>0, <1>10, <2>1, CallReturns DEF RevokeFamily, Results, ReuseOf
  <1>11. CASE RevokeToken(c)
    BY <1>0, <1>11, CallReturns DEF RevokeToken, Results
  <1>12. ~RotateWon(c)
    BY RotateEffect, RotateTyped, <1>0 DEF RotateWon, Exists
  <1> QED
    BY <1>1, <1>2, <1>3, <1>4, <1>5, <1>6, <1>7, <1>8, <1>9, <1>10, <1>11,
       <1>12 DEF Step

\* The step of a call touches no other call.
LEMMA OneCallMoves ==
  ASSUME TypeOK, NEW c \in Calls, Step(c) \/ Fail(c), NEW d \in Calls \ {c}
  PROVE  /\ pc'[d] = pc[d] /\ request'[d] = request[d]
         /\ seen'[d] = seen[d] /\ attempt'[d] = attempt[d]
  BY DEF TypeOK, Step, Fail, FindUnknown, FindRevoked, FindExpired, FindCurrent,
     FindLogout, FindLogoutNoop, GraceExhausted, GraceOpen, NewestFound,
     NewestRefused, UserRefused, StoredUserRead, HostUserRead, AuthorityRead,
     RotateWon, RetryLost, RotateLost, Observe, Reread, RevokeFamily,
     RevokeToken, Prepare, Keep, Go, Return, CallStep

\* Only a call's own commit mints its token.
LEMMA MintedByItself ==
  ASSUME IndInv, [Next]_vars, NEW d \in Calls, Exists(d)', ~Exists(d)
  PROVE  RotateWon(d)
  <1>0. TypeOK /\ d \in TokenId /\ d \notin Families
    BY IdentityAssumption DEF IndInv, TokenId
  <1>1. CASE tokens' = tokens
    BY <1>1 DEF Exists
  <1>2. ASSUME NEW f \in Families, NEW u \in Users, Issue(f, u) PROVE FALSE
    BY <1>0, <1>2, IssueEffect DEF Exists
  <1>3. ASSUME NEW c \in Calls, RotateWon(c) PROVE c = d
    <2>1. Exists(Target(c))
      BY <1>0, <1>3, RotateTyped DEF IndInv, CallsInv, RotateWon
    <2> QED
      BY <1>0, <1>3, <2>1, RotateEffect DEF Exists
  <1>4. ASSUME NEW c \in Calls, RevokeFamily(c) PROVE FALSE
    BY <1>0, <1>4, RevokeFamilyEffect
  <1>5. ASSUME NEW c \in Calls, RevokeToken(c) PROVE FALSE
    BY <1>0, <1>5, RevokeTokenEffect
  <1> QED
    BY <1>1, <1>2, <1>3, <1>4, <1>5, StoreSteps

\* The calls' invariant is kept by every step.
LEMMA CallsStep == ASSUME IndInv, [Next]_vars PROVE CallsInv'
  <1>0. TypeOK /\ Persists
    BY Persistence DEF IndInv
  <1>1. CASE UNCHANGED locals
    <2> SUFFICES ASSUME NEW d \in Calls
                 PROVE  (SnapshotOf(d) /\ MintOf(d) /\ ReuseOf(d))'
      BY DEF CallsInv
    <2>1. ~RotateWon(d)
      BY <1>0, <1>1 DEF RotateWon, Return, Go, locals, TypeOK
    <2> QED
      BY <1>0, <1>1, <2>1, CallStill, MintedByItself DEF locals
  <1>2. ASSUME NEW c \in Calls, Step(c) \/ Fail(c) PROVE CallsInv'
    <2>1. ASSUME NEW d \in Calls \ {c}
          PROVE  (SnapshotOf(d) /\ MintOf(d) /\ ReuseOf(d))'
      <3>1. /\ pc'[d] = pc[d] /\ request'[d] = request[d]
            /\ seen'[d] = seen[d] /\ attempt'[d] = attempt[d]
        BY <1>0, <1>2, OneCallMoves
      <3>2. ~RotateWon(d)
        BY <1>0, <3>1 DEF RotateWon, Return, Go, TypeOK
      <3> QED
        BY <1>0, <3>1, <3>2, CallStill, MintedByItself
    <2>2. (SnapshotOf(c) /\ MintOf(c) /\ ReuseOf(c))'
      <3>0. SnapshotOf(c) /\ MintOf(c) /\ ReuseOf(c)
        BY DEF IndInv, CallsInv
      <3>1. CASE Fail(c)
        BY <1>0, <3>1, CallReturns DEF Fail, Results
      <3>2. CASE Step(c) /\ UNCHANGED tokens
        BY <3>2, CallMoves
      <3>3. CASE RevokeFamily(c)
        <4>1. request' = request /\ request[c].token # None
          BY <3>0, <3>3 DEF RevokeFamily, SnapshotOf, PastFind
        <4> QED
          BY <1>0, <3>0, <3>3, <4>1, CallReturns DEF RevokeFamily, Results, ReuseOf
      <3>4. CASE RevokeToken(c)
        BY <1>0, <3>4, CallReturns DEF RevokeToken, Results
      <3>5. CASE RotateWon(c) /\ attempt[c].newest = None
        BY <1>0, <3>5, CallReturns DEF RotateWon, Results
      <3>6. CASE RotateWon(c) /\ attempt[c].newest # None
        <4>1. /\ pc[c] = "rotate" /\ pc'[c] = "observe"
              /\ seen' = seen /\ request' = request /\ attempt' = attempt
          BY <1>0, <3>6 DEF RotateWon, Go, TypeOK
        <4>2. /\ request[c].token # None => request[c].token \in TokenId
              /\ attempt[c].newest \in TokenId
          BY <1>0, <3>6 DEF TypeOK, Request, Attempt
        <4>3. SnapshotOf(c)'
          BY <1>0, <3>0, <4>1, <4>2
          DEF SnapshotOf, Presented, Persists, SameSession, PastFind
        <4>4. MintOf(c)'
          BY <4>1 DEF MintOf
        <4>5. ReuseOf(c)'
          BY <1>0, <3>0, <3>6, <4>1, <4>2
          DEF ReuseOf, SnapshotOf, PastFind, Presented, Persists, SameSession,
              Rotating
        <4> QED
          BY <4>3, <4>4, <4>5
      <3>7. Step(c) => \/ UNCHANGED tokens
                       \/ RotateWon(c) \/ RevokeFamily(c) \/ RevokeToken(c)
        BY DEF Step, FindUnknown, FindRevoked, FindExpired, FindCurrent,
           FindLogout, FindLogoutNoop, GraceExhausted, GraceOpen, NewestFound,
           NewestRefused, UserRefused, StoredUserRead, HostUserRead,
           AuthorityRead, RetryLost, RotateLost, Observe, Reread, Prepare, Keep,
           CallStep
      <3> QED
        BY <1>2, <3>1, <3>2, <3>3, <3>4, <3>5, <3>6, <3>7
    <2> QED
      BY <2>1, <2>2 DEF CallsInv
  <1>3. ASSUME NEW c \in Calls, NEW k \in Kinds, NEW i \in Delivered \cup {None},
               Begin(c, k, i)
        PROVE  CallsInv'
    <2>0. /\ pc[c] = "idle" /\ pc'[c] = "find" /\ tokens' = tokens
          /\ seen' = seen /\ attempt' = attempt
          /\ request'[c].token = i
      BY <1>0, <1>3 DEF Begin, Go, TypeOK
    <2>1. ASSUME NEW d \in Calls \ {c}
          PROVE  (SnapshotOf(d) /\ MintOf(d) /\ ReuseOf(d))'
      <3>1. /\ pc'[d] = pc[d] /\ request'[d] = request[d]
            /\ seen'[d] = seen[d] /\ attempt'[d] = attempt[d]
        BY <1>0, <1>3 DEF Begin, Go, TypeOK
      <3> QED
        BY <1>0, <2>0, <3>1, CallStill DEF Exists
    <2>2. SnapshotOf(c)'
      BY <2>0, IdentityAssumption DEF SnapshotOf, PastFind, Delivered, Exists
    <2>3. MintOf(c)'
      BY <2>0 DEF MintOf, IndInv, CallsInv, Results, Exists
    <2>4. attempt[c].newest = None
      BY <2>0 DEF IndInv, CallsInv, ReuseOf
    <2>5. ReuseOf(c)'
      BY <2>0, <2>4 DEF ReuseOf
    <2> QED
      BY <2>1, <2>2, <2>3, <2>5 DEF CallsInv
  <1>4. CASE \/ UNCHANGED vars \/ Tick
             \/ \E u \in Users : UpdateUser(u)
             \/ \E f \in Families, u \in Users : Issue(f, u)
    BY <1>1, <1>4 DEF vars, Tick, UpdateUser, Issue
  <1> QED
    BY <1>2, <1>3, <1>4 DEF Next

-----------------------------------------------------------------------------
(* What a step does to the live tokens of a family.                        *)

\* A login gives its family one live token and touches no other family.
LEMMA LiveIssue ==
  ASSUME IndInv, NEW f \in Families, NEW u \in Users, Issue(f, u)
  PROVE  /\ Live(f) = {}
         /\ Live(f)' = {f}
         /\ \A g \in Families \ {f} : Live(g)' = Live(g)
  <1>0. TypeOK /\ RootInv
    BY DEF IndInv
  <1>1. Live(f) = {}
    BY <1>0, IssueEffect DEF Live, RootInv
  <1>2. ASSUME NEW g \in Families, NEW i \in TokenId
        PROVE  i \in Live(g)' <=> (i \in Live(g) \/ (i = f /\ g = f))
    <2>1. CASE i = f
      BY <1>0, <2>1, IssueEffect DEF Live, Exists, is_revoked
    <2>2. CASE i # f
      BY <1>0, <2>2, IssueEffect DEF Live, Exists, is_revoked
    <2> QED
      BY <2>1, <2>2
  <1>3. \A g \in Families : Live(g) \subseteq TokenId /\ Live(g)' \subseteq TokenId
    BY DEF Live
  <1>4. f \in TokenId
    BY DEF TokenId
  <1>5. Live(f)' = {f}
    BY <1>1, <1>2, <1>3, <1>4
  <1>6. \A g \in Families \ {f} : Live(g)' = Live(g)
    BY <1>2, <1>3
  <1> QED
    BY <1>1, <1>5, <1>6

\* The fields of a rotated record.
LEMMA SupersededRecord ==
  ASSUME NEW r \in TokenRecord, NEW t \in Int, NEW c \in Calls,
         NEW q, q = Superseded(r, c, t)
  PROVE  /\ q # None
         /\ q.revoked_at = t
         /\ q.replaced_by = c
         /\ q.family = r.family
         /\ q.grants = r.grants
  BY SupersededTyped, Zenon DEF SameSession

\* A rotation moves the live token of one family to the replacement.
LEMMA LiveRotate ==
  ASSUME IndInv, NEW c \in Calls, RotateWon(c), NEW f, f = seen[c].family
  PROVE  /\ f \in Families
         /\ Live(f) = {Target(c)}
         /\ Live(f)' = {c}
         /\ \A g \in Families \ {f} : Live(g)' = Live(g)
  <1>0. /\ TypeOK /\ SnapshotOf(c) /\ ReuseOf(c)
        /\ pc[c] = "rotate"
    BY DEF IndInv, CallsInv, RotateWon
  <1>1. /\ Target(c) \in TokenId
        /\ Exists(Target(c))
        /\ tokens[Target(c)] \in TokenRecord
        /\ seen[c] \in TokenRecord
        /\ tokens[Target(c)].family = f
        /\ RotatedAt(c) \in Int
        /\ Replacement(c) # None
    BY <1>0, RotateTyped
  <1>2. f \in Families
    BY <1>1 DEF TokenRecord
  <1>3. Target(c) \in Live(f)
    BY <1>1, RotateEffect DEF Live, is_revoked
  <1>4. Live(f) = {Target(c)}
    BY <1>2, <1>3 DEF IndInv, OneLiveToken
  <1>5. Replacement(c).family = f /\ Replacement(c).revoked_at = None
    BY DEF Replacement
  <1>6. tokens'[Target(c)].revoked_at # None
    <2>1. tokens'[Target(c)] = Superseded(tokens[Target(c)], c, RotatedAt(c))
      BY RotateEffect
    <2>2. tokens'[Target(c)].revoked_at = RotatedAt(c)
      BY <1>1, <2>1, SupersededRecord
    <2> QED
      BY <1>1, <2>2, IdentityAssumption
  <1> DEFINE t == Target(c)
  <1>7. ASSUME NEW g \in Families, NEW i \in TokenId
        PROVE  i \in Live(g)' <=> ((i \in Live(g) /\ i # t) \/ (i = c /\ g = f))
    <2>1. CASE i = c
      BY <1>1, <1>5, <2>1, RotateEffect DEF Live, Exists, is_revoked
    <2>2. CASE i = t
      BY <1>1, <1>6, <2>2, RotateEffect DEF Live, is_revoked
    <2>3. CASE i # c /\ i # t
      BY <2>3, RotateEffect DEF Live, Exists, is_revoked
    <2> QED
      BY <2>1, <2>2, <2>3
  <1>8. \A g \in Families : Live(g) \subseteq TokenId /\ Live(g)' \subseteq TokenId
    BY DEF Live
  <1>9. \A g \in Families \ {f} : t \notin Live(g)
    BY <1>1 DEF Live
  <1>10. c \in TokenId
    BY DEF TokenId
  <1> HIDE DEF t
  <1>11. Live(f)' = {c}
    <2>1. Live(f) = {t}
      BY <1>4 DEF t
    <2> QED
      BY <1>2, <2>1, <1>7, <1>8, <1>10
  <1>12. \A g \in Families \ {f} : Live(g)' = Live(g)
    BY <1>7, <1>8, <1>9
  <1> QED
    BY <1>2, <1>4, <1>11, <1>12

\* Revoking a family leaves it no live token and touches no other.
LEMMA LiveRevokeFamily ==
  ASSUME IndInv, NEW c \in Calls, RevokeFamily(c), NEW f, f = seen[c].family
  PROVE  /\ f \in Families
         /\ Presented(c).family = f
         /\ Live(f)' = {}
         /\ \A g \in Families \ {f} : Live(g)' = Live(g)
  <1>0. TypeOK /\ SnapshotOf(c) /\ pc[c] = "revoke_family"
    BY DEF IndInv, CallsInv, RevokeFamily
  <1>1. seen[c] \in TokenRecord /\ Presented(c).family = f
    BY <1>0 DEF SnapshotOf, PastFind, TypeOK, SameSession
  <1>2. f \in Families
    BY <1>1 DEF TokenRecord
  <1>3. ASSUME NEW g \in Families, NEW i \in TokenId
        PROVE  i \in Live(g)' <=> (i \in Live(g) /\ g # f)
    <2>1. CASE ~Exists(i)
      BY <1>0, <2>1, RevokeFamilyEffect DEF Live
    <2>2. CASE Exists(i)
      BY <1>0, <2>2, RevokeFamilyEffect DEF Live, SameSession
    <2> QED
      BY <2>1, <2>2
  <1>4. \A g \in Families : Live(g) \subseteq TokenId /\ Live(g)' \subseteq TokenId
    BY DEF Live
  <1>5. Live(f)' = {}
    BY <1>2, <1>3, <1>4
  <1>6. \A g \in Families \ {f} : Live(g)' = Live(g)
    BY <1>3, <1>4
  <1> QED
    BY <1>1, <1>2, <1>5, <1>6

\* Revoking a token takes at most that token from its family.
LEMMA LiveRevokeToken ==
  ASSUME IndInv, NEW c \in Calls, RevokeToken(c)
  PROVE  \/ \A g \in Families : Live(g)' = Live(g)
         \/ \E f \in Families :
              /\ Live(f) # {}
              /\ Live(f)' = {}
              /\ \A g \in Families \ {f} : Live(g)' = Live(g)
  <1>0. TypeOK /\ SnapshotOf(c) /\ pc[c] = "revoke" /\ OneLiveToken
    BY DEF IndInv, CallsInv, RevokeToken
  <1>1. PICK j \in TokenId : j = request[c].token /\ Exists(j)
    BY <1>0 DEF SnapshotOf, PastFind, TypeOK, Request
  <1>2. CASE is_revoked(tokens[j])
    <2>1. tokens' = tokens
      BY <1>1, <1>2 DEF RevokeToken, revoke_refresh_token
    <2> QED
      BY <2>1 DEF Live, Exists
  <1>3. CASE ~is_revoked(tokens[j])
    <2>1. tokens[j] \in TokenRecord
      BY <1>0, <1>1 DEF TypeOK, Exists
    <2>2. tokens' = [tokens EXCEPT ![j].revoked_at = request[c].entered]
      BY <1>1, <1>3 DEF RevokeToken, revoke_refresh_token
    <2>3. request[c].entered \in Int /\ request[c].entered # None
      BY <1>0, IdentityAssumption DEF TypeOK, Request
    <2>4. tokens'[j] = [tokens[j] EXCEPT !.revoked_at = request[c].entered]
      BY <1>0, <1>1, <2>2 DEF TypeOK
    <2>5. tokens'[j].revoked_at # None
      BY <2>1, <2>3, <2>4, SupersededTyped
    <2>6. \A i \in TokenId \ {j} : tokens'[i] = tokens[i]
      BY <1>0, <2>2 DEF TypeOK
    <2>7. PICK f \in Families : f = tokens[j].family
      BY <2>1 DEF TokenRecord
    <2>8. j \in Live(f) /\ \A g \in Families \ {f} : j \notin Live(g)
      BY <1>1, <1>3, <2>7 DEF Live
    <2>9. Live(f) = {j}
      BY <1>0, <2>8 DEF OneLiveToken
    <2>10. ASSUME NEW g \in Families, NEW i \in TokenId
           PROVE  i \in Live(g)' <=> (i \in Live(g) /\ i # j)
      <3>1. CASE i = j
        BY <2>5, <3>1 DEF Live, is_revoked
      <3>2. CASE i # j
        BY <2>6, <3>2 DEF Live, is_revoked, Exists
      <3> QED
        BY <3>1, <3>2
    <2>11. \A g \in Families :
             Live(g) \subseteq TokenId /\ Live(g)' \subseteq TokenId
      BY DEF Live
    <2>12. Live(f)' = {}
      BY <2>9, <2>10, <2>11
    <2>13. \A g \in Families \ {f} : Live(g)' = Live(g)
      BY <2>8, <2>10, <2>11
    <2> QED
      BY <2>8, <2>12, <2>13
  <1> QED
    BY <1>2, <1>3

-----------------------------------------------------------------------------
(* The store's invariants.                                                 *)

\* Every step keeps the root of each family in place.
LEMMA RootStep == ASSUME IndInv, [Next]_vars PROVE RootInv'
  <1>0. TypeOK /\ RootInv /\ Persists /\ TypeOK'
    BY Persistence, TypeStep DEF IndInv
  <1>1. \A i \in TokenId : Exists(i) => tokens[i].family \in TokenId
    BY <1>0 DEF TypeOK, Exists, TokenRecord, TokenId
  <1>2. ASSUME NEW i \in TokenId, Exists(i)
        PROVE  /\ tokens'[tokens'[i].family] # None
               /\ i \in Families => tokens'[i].family = i
    BY <1>0, <1>1, <1>2 DEF RootInv, Persists, SameSession, Exists
  <1>3. ASSUME NEW i \in Calls, ~Exists(i), Exists(i)'
        PROVE  tokens'[tokens'[i].family] # None /\ i \notin Families
    <2>1. RotateWon(i)
      BY <1>3, MintedByItself
    <2>2. /\ Target(i) \in TokenId /\ Exists(Target(i))
          /\ tokens[Target(i)].family = seen[i].family
      BY <1>0, <2>1, RotateTyped DEF IndInv, CallsInv, RotateWon
    <2>3. tokens'[i].family = seen[i].family
      <3>1. tokens'[i] = Replacement(i)
        BY <2>1, RotateEffect
      <3>2. Replacement(i).family = seen[i].family
        BY DEF Replacement
      <3> QED
        BY <3>1, <3>2
    <2>4. tokens'[tokens'[i].family] # None
      BY <1>0, <1>1, <2>2, <2>3 DEF RootInv, Persists, Exists
    <2> QED
      BY <2>4, IdentityAssumption
  <1>4. ASSUME NEW i \in Families, ~Exists(i), Exists(i)'
        PROVE  tokens'[i].family = i
    <2>0. i \in TokenId /\ i \notin Calls
      BY IdentityAssumption DEF TokenId
    <2>1. CASE tokens' = tokens
      BY <1>4, <2>1 DEF Exists
    <2>2. ASSUME NEW f \in Families, NEW u \in Users, Issue(f, u)
          PROVE  tokens'[i].family = i
      BY <1>0, <1>4, <2>0, <2>2, IssueEffect DEF Exists
    <2>3. ASSUME NEW c \in Calls, RotateWon(c) PROVE FALSE
      <3>1. Exists(Target(c))
        BY <1>0, <2>3, RotateTyped DEF IndInv, CallsInv, RotateWon
      <3> QED
        BY <1>4, <2>0, <2>3, <3>1, RotateEffect DEF Exists
    <2>4. ASSUME NEW c \in Calls, RevokeFamily(c) PROVE FALSE
      BY <1>0, <1>4, <2>0, <2>4, RevokeFamilyEffect
    <2>5. ASSUME NEW c \in Calls, RevokeToken(c) PROVE FALSE
      BY <1>0, <1>4, <2>0, <2>5, RevokeTokenEffect
    <2> QED
      BY <2>1, <2>2, <2>3, <2>4, <2>5, StoreSteps
  <1>5. ASSUME NEW i \in TokenId, Exists(i)'
        PROVE  /\ tokens'[tokens'[i].family] # None
               /\ i \in Families => tokens'[i].family = i
    <2>1. CASE Exists(i)
      BY <1>2, <2>1
    <2>2. CASE ~Exists(i) /\ i \in Calls
      BY <1>3, <1>5, <2>2
    <2>3. CASE ~Exists(i) /\ i \in Families
      <3>1. tokens'[i].family = i
        BY <1>4, <1>5, <2>3
      <3> QED
        BY <1>5, <3>1 DEF Exists
    <2> QED
      BY <2>1, <2>2, <2>3 DEF TokenId
  <1> QED
    BY <1>5 DEF RootInv, Exists

\* Every step leaves a family at most one live token.
LEMMA OneLiveStep == ASSUME IndInv, [Next]_vars PROVE OneLiveToken'
  <1>0. OneLiveToken
    BY DEF IndInv
  <1>1. CASE tokens' = tokens
    BY <1>0, <1>1 DEF OneLiveToken, Live, Exists
  <1>2. ASSUME NEW f \in Families, NEW u \in Users, Issue(f, u)
        PROVE  OneLiveToken'
    BY <1>0, <1>2, LiveIssue DEF OneLiveToken
  <1>3. ASSUME NEW c \in Calls, RotateWon(c) PROVE OneLiveToken'
    BY <1>0, <1>3, LiveRotate DEF OneLiveToken
  <1>4. ASSUME NEW c \in Calls, RevokeFamily(c) PROVE OneLiveToken'
    BY <1>0, <1>4, LiveRevokeFamily DEF OneLiveToken
  <1>5. ASSUME NEW c \in Calls, RevokeToken(c) PROVE OneLiveToken'
    BY <1>0, <1>5, LiveRevokeToken DEF OneLiveToken
  <1> QED
    BY <1>1, <1>2, <1>3, <1>4, <1>5, StoreSteps

\* A family that has a token and no live one never has a live one again.
LEMMA DeadStaysDead ==
  ASSUME IndInv, [Next]_vars, NEW i \in TokenId, Exists(i),
         NEW f \in Families, f = tokens[i].family, Live(f) = {}
  PROVE  Live(f)' = {}
  <1>1. CASE tokens' = tokens
    BY <1>1 DEF Live, Exists
  <1>2. ASSUME NEW g \in Families, NEW u \in Users, Issue(g, u)
        PROVE  Live(f)' = {}
    <2>1. g # f
      BY <1>2, IssueEffect DEF IndInv, RootInv
    <2> QED
      BY <1>2, <2>1, LiveIssue
  <1>3. ASSUME NEW c \in Calls, RotateWon(c) PROVE Live(f)' = {}
    BY <1>3, LiveRotate
  <1>4. ASSUME NEW c \in Calls, RevokeFamily(c) PROVE Live(f)' = {}
    BY <1>4, LiveRevokeFamily
  <1>5. ASSUME NEW c \in Calls, RevokeToken(c) PROVE Live(f)' = {}
    BY <1>5, LiveRevokeToken
  <1> QED
    BY <1>1, <1>2, <1>3, <1>4, <1>5, StoreSteps

\* replaced_by is written by rotation only, once, on a live token.
LEMMA ReplacedOnce ==
  ASSUME IndInv, [Next]_vars, NEW i \in TokenId
  PROVE  /\ Exists(i) /\ tokens[i].replaced_by # None =>
              tokens'[i].replaced_by = tokens[i].replaced_by
         /\ tokens'[i] # None /\ tokens'[i].replaced_by # None =>
              /\ Exists(i)
              /\ \/ tokens'[i].replaced_by = tokens[i].replaced_by
                 \/ \E c \in Calls : /\ RotateWon(c)
                                     /\ i = Target(c)
                                     /\ tokens'[i].replaced_by = c
  <1>0. TypeOK /\ LinearChain
    BY DEF IndInv
  <1>1. CASE tokens' = tokens
    BY <1>1 DEF Exists
  <1>2. CASE \E f \in Families, u \in Users : Issue(f, u)
    <2>1. PICK f \in Families, u \in Users : Issue(f, u)
      BY <1>2
    <2> QED
      BY <1>0, <2>1, IssueEffect DEF Exists
  <1>3. CASE \E c \in Calls : RotateWon(c)
    <2>1. PICK c \in Calls : RotateWon(c)
      BY <1>3
    <2>2. /\ Target(c) \in TokenId /\ Exists(Target(c))
          /\ tokens[Target(c)] \in TokenRecord /\ RotatedAt(c) \in Int
      BY <1>0, <2>1, RotateTyped DEF IndInv, CallsInv, RotateWon
    <2>3. tokens[Target(c)].replaced_by = None
      BY <1>0, <2>1, <2>2, RotateEffect DEF LinearChain, is_revoked
    <2>4. tokens'[Target(c)].replaced_by = c
      BY <2>1, <2>2, RotateEffect, SupersededRecord
    <2>5. Replacement(c).replaced_by = None
      BY DEF Replacement
    <2>6. CASE i = c
      BY <2>1, <2>5, <2>6, RotateEffect
    <2>7. CASE i = Target(c)
      BY <2>1, <2>2, <2>3, <2>4, <2>7, RotateEffect
    <2>8. CASE i # c /\ i # Target(c)
      BY <2>1, <2>8, RotateEffect DEF Exists
    <2> QED
      BY <2>6, <2>7, <2>8
  <1>4. CASE \E c \in Calls : RevokeFamily(c)
    BY <1>0, <1>4, RevokeFamilyEffect DEF Exists
  <1>5. CASE \E c \in Calls : RevokeToken(c)
    BY <1>0, <1>5, RevokeTokenEffect DEF Exists
  <1> QED
    BY <1>1, <1>2, <1>3, <1>4, <1>5, StoreSteps

\* What a rotation leaves behind.
LEMMA RotateLink ==
  ASSUME IndInv, NEW c \in Calls, RotateWon(c)
  PROVE  /\ Target(c) \in TokenId /\ Target(c) # c
         /\ tokens'[c] # None
         /\ tokens'[Target(c)] # None
         /\ tokens'[Target(c)].replaced_by = c
         /\ tokens'[Target(c)].revoked_at # None
         /\ tokens'[c].family = tokens'[Target(c)].family
         /\ tokens'[c].grants \subseteq tokens'[Target(c)].grants
  <1>0. /\ TypeOK /\ SnapshotOf(c) /\ ReuseOf(c) /\ MintOf(c)
        /\ pc[c] = "rotate"
    BY DEF IndInv, CallsInv, RotateWon
  <1>1. /\ Target(c) \in TokenId
        /\ tokens[Target(c)] \in TokenRecord
        /\ tokens[Target(c)].family = seen[c].family
        /\ RotatedAt(c) \in Int
        /\ Replacement(c) # None
    BY <1>0, RotateTyped
  <1>2. /\ tokens'[c] = Replacement(c)
        /\ tokens'[Target(c)] = Superseded(tokens[Target(c)], c, RotatedAt(c))
        /\ Target(c) # c
    BY RotateEffect
  <1>3. /\ tokens'[Target(c)] # None
        /\ tokens'[Target(c)].revoked_at = RotatedAt(c)
        /\ tokens'[Target(c)].replaced_by = c
        /\ tokens'[Target(c)].family = tokens[Target(c)].family
        /\ tokens'[Target(c)].grants = tokens[Target(c)].grants
    BY <1>1, <1>2, SupersededRecord
  <1>4. RotatedAt(c) # None
    BY <1>1, IdentityAssumption
  <1>5. /\ Replacement(c).family = seen[c].family
        /\ Replacement(c).grants = attempt[c].grants
    BY DEF Replacement
  <1>6. attempt[c].grants \subseteq tokens[Target(c)].grants
    BY <1>0 DEF MintOf, SnapshotOf, PastFind, SameSession, Presented, Target
  <1> QED
    BY <1>1, <1>2, <1>3, <1>4, <1>5, <1>6 DEF SameSession

\* Every step keeps the chain linear and its grants narrowing.
LEMMA ChainStep == ASSUME IndInv, [Next]_vars PROVE (LinearChain /\ NoWidening)'
  <1>0. TypeOK /\ LinearChain /\ NoWidening /\ Persists
    BY Persistence DEF IndInv
  <1>1. ASSUME NEW i \in TokenId, tokens'[i] # None, tokens'[i].replaced_by # None,
               NEW n, n = tokens'[i].replaced_by
        PROVE  /\ is_revoked(tokens'[i])
               /\ n # i
               /\ n \in TokenId
               /\ tokens'[n] # None
               /\ tokens'[n].family = tokens'[i].family
               /\ tokens'[n].grants \subseteq tokens'[i].grants
    <2>1. CASE Exists(i) /\ n = tokens[i].replaced_by
      <3>1. /\ is_revoked(tokens[i]) /\ n # i /\ Exists(n)
            /\ tokens[n].family = tokens[i].family
            /\ tokens[n].grants \subseteq tokens[i].grants
        BY <1>0, <1>1, <2>1 DEF LinearChain, NoWidening
      <3>2. n \in TokenId
        BY <1>0, <1>1, <2>1 DEF TypeOK, Exists, TokenRecord, TokenId
      <3> QED
        BY <1>0, <2>1, <3>1, <3>2 DEF Persists, SameSession, Exists
    <2>2. CASE \E c \in Calls : RotateWon(c) /\ i = Target(c) /\ n = c
      <3>1. PICK c \in Calls : RotateWon(c) /\ i = Target(c) /\ n = c
        BY <2>2
      <3>2. c \in TokenId
        BY DEF TokenId
      <3> QED
        BY <3>1, <3>2, RotateLink DEF is_revoked
    <2> QED
      BY <1>1, <2>1, <2>2, ReplacedOnce
  <1>2. ASSUME NEW i \in TokenId, NEW j \in TokenId,
               tokens'[i] # None, tokens'[j] # None,
               tokens'[i].replaced_by # None,
               tokens'[i].replaced_by = tokens'[j].replaced_by
        PROVE  i = j
    <2>1. ASSUME NEW k \in TokenId, Exists(k), NEW c \in Calls, RotateWon(c)
          PROVE  tokens[k].replaced_by # c
      <3>1. ~Exists(c) /\ c # None
        BY <2>1, RotateEffect, IdentityAssumption DEF TokenId
      <3> QED
        BY <1>0, <2>1, <3>1 DEF LinearChain
    <2>2. ASSUME NEW c \in Calls, RotateWon(c), NEW d \in Calls, RotateWon(d)
          PROVE  c = d
      BY <2>2, RotateEffect, RotateLink, MintedByItself
      DEF Exists, RotateWon, TypeOK, Return, Go, IndInv
    <2>3. /\ Exists(i)
          /\ \/ tokens'[i].replaced_by = tokens[i].replaced_by
             \/ \E c \in Calls : /\ RotateWon(c)
                                 /\ i = Target(c)
                                 /\ tokens'[i].replaced_by = c
      BY <1>2, ReplacedOnce
    <2>4. /\ Exists(j)
          /\ \/ tokens'[j].replaced_by = tokens[j].replaced_by
             \/ \E c \in Calls : /\ RotateWon(c)
                                 /\ j = Target(c)
                                 /\ tokens'[j].replaced_by = c
      BY <1>2, ReplacedOnce
    <2> QED
      BY <1>0, <1>2, <2>1, <2>2, <2>3, <2>4 DEF LinearChain
  <1>3. ASSUME NEW c \in Calls, tokens'[c] # None
        PROVE  \E i \in TokenId : tokens'[i] # None /\ tokens'[i].replaced_by = c
    <2>1. CASE Exists(c)
      <3>1. PICK i \in TokenId : Exists(i) /\ tokens[i].replaced_by = c
        BY <1>0, <2>1 DEF LinearChain
      <3>2. c # None
        BY IdentityAssumption DEF TokenId
      <3> QED
        BY <1>0, <3>1, <3>2, ReplacedOnce DEF Persists, Exists
    <2>2. CASE ~Exists(c)
      BY <1>3, <2>2, MintedByItself, RotateLink DEF Exists
    <2> QED
      BY <2>1, <2>2
  <1> QED
    BY <1>1, <1>2, <1>3 DEF LinearChain, NoWidening, Exists

\* Every step leaves an ended family ended.
LEMMA EndedStep == ASSUME IndInv, [Next]_vars PROVE EndedFamilyStaysEnded'
  <1>0. TypeOK /\ EndedFamilyStaysEnded /\ Persists
    BY Persistence DEF IndInv
  <1>1. CallsInv'
    BY CallsStep
  <1> SUFFICES ASSUME NEW c \in Calls,
                      request'[c].token # None,
                      \/ pc'[c] = "Replay"
                      \/ request'[c].kind = "logout_family" /\ pc'[c] = "Ok",
                      NEW f, f = tokens'[request'[c].token].family
               PROVE  Live(f)' = {}
    BY DEF EndedFamilyStaysEnded
  <1>2. CASE pc'[c] = pc[c] /\ request'[c] = request[c]
    <2>1. /\ request[c].token \in TokenId
          /\ Exists(request[c].token)
          /\ SameSession(tokens'[request[c].token], tokens[request[c].token])
      BY <1>0, <1>2 DEF IndInv, CallsInv, SnapshotOf, TypeOK, Request, Persists
    <2>2. f = tokens[request[c].token].family /\ f \in Families
      BY <1>0, <1>2, <2>1 DEF SameSession, TypeOK, Exists, TokenRecord
    <2>3. Live(f) = {}
      BY <1>0, <1>2, <2>2 DEF EndedFamilyStaysEnded
    <2> QED
      BY <2>1, <2>2, <2>3, DeadStaysDead
  <1>3. CASE RevokeFamily(c)
    <2>1. /\ Presented(c).family = seen[c].family
          /\ request' = request
      BY <1>3, LiveRevokeFamily DEF RevokeFamily
    <2>2. /\ request[c].token \in TokenId
          /\ Exists(request[c].token)
          /\ SameSession(tokens'[request[c].token], tokens[request[c].token])
      BY <1>0, <2>1 DEF IndInv, CallsInv, SnapshotOf, TypeOK, Request, Persists
    <2>3. f = seen[c].family
      BY <2>1, <2>2 DEF SameSession, Presented
    <2> QED
      BY <1>3, <2>3, LiveRevokeFamily
  <1>4. \/ pc'[c] = pc[c] /\ request'[c] = request[c]
        \/ RevokeFamily(c)
    <2>1. CASE \E d \in Calls : d # c /\ (Step(d) \/ Fail(d))
      BY <1>0, <2>1, OneCallMoves
    <2>2. CASE Fail(c)
      BY <1>0, <2>2 DEF Fail, Return, Go, TypeOK
    <2>3. CASE Step(c) /\ ~RevokeFamily(c)
      <3>0. SnapshotOf(c) /\ ReuseOf(c)
        BY DEF IndInv, CallsInv
      <3>1. request' = request
        BY <2>3
        DEF Step, FindUnknown, FindRevoked, FindExpired, FindCurrent, FindLogout,
            FindLogoutNoop, GraceExhausted, GraceOpen, NewestFound,
            NewestRefused, UserRefused, StoredUserRead, HostUserRead,
            AuthorityRead, RotateWon, RetryLost, RotateLost, Observe, Reread,
            RevokeToken, Prepare, Keep, CallStep
      <3>2. CASE FindUnknown(c)
        BY <3>1, <3>2 DEF FindUnknown
      <3>3. CASE FindLogoutNoop(c)
        BY <1>0, <3>1, <3>3 DEF FindLogoutNoop, LogoutIsNoop, Return, Go, TypeOK
      <3>4. CASE GraceExhausted(c)
        BY <1>0, <3>4 DEF GraceExhausted, Return, Go, TypeOK
      <3>5. CASE UserRefused(c)
        <4>1. \A e \in Refusals(c) : e # "Replay" /\ e # "Ok"
          BY DEF Refusals
        <4> QED
          BY <1>0, <3>5, <4>1 DEF UserRefused, Return, Go, TypeOK
      <3>6. CASE RotateWon(c)
        BY <1>0, <3>0, <3>1, <3>6
        DEF RotateWon, Return, Go, TypeOK, ReuseOf, Rotating
      <3>7. CASE Observe(c)
        BY <1>0, <3>0, <3>1, <3>7
        DEF Observe, Return, Go, TypeOK, ReuseOf, Rotating
      <3>8. CASE RevokeToken(c)
        BY <1>0, <3>0, <3>1, <3>8
        DEF RevokeToken, Return, Go, TypeOK, ReuseOf
      <3>9. CASE FindRevoked(c) \/ FindExpired(c) \/ FindCurrent(c) \/ FindLogout(c)
        BY <1>0, <3>9
        DEF FindRevoked, FindExpired, FindCurrent, FindLogout, Keep, Go, TypeOK
      <3>10. CASE GraceOpen(c) \/ NewestFound(c) \/ NewestRefused(c)
        BY <1>0, <3>10 DEF GraceOpen, NewestFound, NewestRefused, Go, TypeOK
      <3>11. CASE StoredUserRead(c) \/ HostUserRead(c) \/ AuthorityRead(c)
        BY <1>0, <3>11
        DEF StoredUserRead, HostUserRead, AuthorityRead, Prepare, Go, TypeOK
      <3>12. CASE RetryLost(c) \/ RotateLost(c) \/ Reread(c)
        BY <1>0, <3>12 DEF RetryLost, RotateLost, Reread, Go, TypeOK
      <3> QED
        BY <2>3, <3>2, <3>3, <3>4, <3>5, <3>6, <3>7, <3>8, <3>9, <3>10, <3>11,
           <3>12 DEF Step
    <2>4. ASSUME NEW d \in Calls, NEW k \in Kinds, NEW i \in Delivered \cup {None},
                 Begin(d, k, i)
          PROVE  pc'[c] = pc[c] /\ request'[c] = request[c]
      BY <1>0, <2>4 DEF Begin, Go, TypeOK
    <2>5. CASE \/ UNCHANGED vars \/ Tick
               \/ \E u \in Users : UpdateUser(u)
               \/ \E g \in Families, u \in Users : Issue(g, u)
      BY <2>5 DEF vars, Tick, UpdateUser, Issue, locals
    <2> QED
      BY <2>1, <2>2, <2>3, <2>4, <2>5 DEF Next
  <1> QED
    BY <1>2, <1>3, <1>4

-----------------------------------------------------------------------------
(* The theorems.                                                           *)

\* The inductive invariant holds initially.
LEMMA IndInvInit == ASSUME Init PROVE IndInv
  <1>1. TypeOK
    <2>1. NoRequest \in Request
      BY DEF NoRequest, Request
    <2>2. [status |-> "enabled", grants |-> Grants] \in UserRecord
      BY DEF UserRecord
    <2> QED
      BY <2>1, <2>2, NoAttemptTyped DEF Init, TypeOK
  <1>2. \A i \in TokenId : ~Exists(i)
    BY DEF Init, Exists
  <1>3. CallsInv
    BY <1>2
    DEF Init, CallsInv, SnapshotOf, MintOf, ReuseOf, NoRequest, NoAttempt,
        PastFind, TokenId
  <1>4. \A f \in Families : Live(f) = {}
    BY <1>2 DEF Live
  <1>5. EndedFamilyStaysEnded
    BY DEF Init, EndedFamilyStaysEnded
  <1> QED
    BY <1>1, <1>2, <1>3, <1>4, <1>5
    DEF IndInv, RootInv, OneLiveToken, LinearChain, NoWidening, TokenId

\* The conjunction of the invariants is inductive.
THEOREM Inductive == Spec => []IndInv
  <1>1. ASSUME IndInv, [Next]_vars PROVE IndInv'
    BY <1>1, TypeStep, CallsStep, RootStep, OneLiveStep, ChainStep, EndedStep
    DEF IndInv
  <1> QED
    BY <1>1, IndInvInit, PTL DEF Spec

\* Every variable keeps its type, for any number of calls and families.
THEOREM TypeCorrect == Spec => []TypeOK
  <1>1. IndInv => TypeOK
    BY DEF IndInv
  <1> QED
    BY <1>1, Inductive, PTL

\* A family never has two live tokens: no schedule of rotate_session,
\* reissue_within_reuse_grace and logout branches it.
THEOREM OneLive == Spec => []OneLiveToken
  <1>1. IndInv => OneLiveToken
    BY DEF IndInv
  <1> QED
    BY <1>1, Inductive, PTL

\* Replacements form one chain per family.
THEOREM Chain == Spec => []LinearChain
  <1>1. IndInv => LinearChain
    BY DEF IndInv
  <1> QED
    BY <1>1, Inductive, PTL

\* Grants only shrink along a family's chain, through reuses too.
THEOREM Narrowing == Spec => []NoWidening
  <1>1. IndInv => NoWidening
    BY DEF IndInv
  <1> QED
    BY <1>1, Inductive, PTL

\* Reported replay and reported family sign-out are final.
THEOREM Ended == Spec => []EndedFamilyStaysEnded
  <1>1. IndInv => EndedFamilyStaysEnded
    BY DEF IndInv
  <1> QED
    BY <1>1, Inductive, PTL

\* A rotation calls replay only on a token that somebody used up.
THEOREM ReplayJustified == Spec => []ReplayOnlyForReuse
  <1>1. IndInv => ReplayOnlyForReuse
    BY DEF IndInv, CallsInv, ReuseOf, ReplayOnlyForReuse, Presented
  <1> QED
    BY <1>1, Inductive, PTL

\* Every step keeps the window of a revoked token of a live family.
LEMMA WindowStep == ASSUME IndInv, [Next]_vars PROVE WindowKept
  <1>0. TypeOK
    BY DEF IndInv
  <1> SUFFICES ASSUME NEW i \in TokenId, Exists(i), is_revoked(tokens[i]),
                      NEW f, f = tokens'[i].family,
                      tokens'[i].revoked_at # tokens[i].revoked_at \/
                      tokens'[i].replaced_by # tokens[i].replaced_by
               PROVE  Live(f)' = {}
    BY DEF WindowKept
  <1>1. CASE \E g \in Families, u \in Users : Issue(g, u)
    BY <1>0, <1>1, IssueEffect
  <1>2. CASE \E c \in Calls : RotateWon(c)
    BY <1>2, RotateEffect DEF is_revoked
  <1>3. CASE \E c \in Calls : RevokeToken(c)
    BY <1>0, <1>3, RevokeTokenEffect
  <1>4. ASSUME NEW c \in Calls, RevokeFamily(c) PROVE Live(f)' = {}
    <2>1. tokens[i].family = seen[c].family
      BY <1>0, <1>4, RevokeFamilyEffect
    <2>2. f = seen[c].family
      BY <1>0, <1>4, <2>1, RevokeFamilyEffect DEF SameSession
    <2> QED
      BY <1>4, <2>2, LiveRevokeFamily
  <1> QED
    BY <1>1, <1>2, <1>3, <1>4, StoreSteps

\* The window of an old token is fixed while its family lives.
THEOREM WindowFixed == Spec => WindowNeverMoves
  BY WindowStep, Inductive, PTL DEF Spec, WindowNeverMoves

-----------------------------------------------------------------------------
(* Refinement.                                                             *)

\* Rotation implements the abstract session family.
THEOREM Refinement == Spec => ImplementsFamily
  <1>1. Init => Family!Init
    BY DEF Init, Family!Init, Live, Exists, TokenId
  <1>2. ASSUME IndInv, [Next]_vars PROVE [Family!Next]_(Family!fvars)
    <2>0. TypeOK
      BY <1>2 DEF IndInv
    <2> DEFINE opn == {f \in Families : Exists(f)}
               lv == [f \in Families |-> Live(f)]
               usd == {i \in TokenId : Exists(i)}
    <2>1. CASE tokens' = tokens
      BY <2>1 DEF Family!fvars, Exists, Live
    <2>2. ASSUME NEW f \in Families, NEW u \in Users, Issue(f, u)
          PROVE  Family!Next
      <3>1. /\ f \in TokenId /\ ~Exists(f) /\ Exists(f)'
            /\ \A i \in TokenId \ {f} : Exists(i)' <=> Exists(i)
        BY <2>0, <2>2, IssueEffect DEF Exists
      <3>2. opn' = opn \cup {f} /\ usd' = usd \cup {f}
        BY <3>1 DEF TokenId
      <3>3. lv' = [lv EXCEPT ![f] = {f}]
        BY <1>2, <2>2, LiveIssue
      <3>4. Family!Open(f)
        BY <3>1, <3>2, <3>3 DEF Family!Open
      <3> QED
        BY <3>4 DEF Family!Next
    <2>3. ASSUME NEW c \in Calls, RotateWon(c) PROVE Family!Next
      <3>1. PICK f \in Families :
              /\ Live(f) = {Target(c)}
              /\ Live(f)' = {c}
              /\ \A g \in Families \ {f} : Live(g)' = Live(g)
        BY <1>2, <2>3, LiveRotate
      <3>2. Target(c) \in TokenId /\ Exists(Target(c))
        BY <1>2, <2>3, RotateTyped DEF IndInv, CallsInv, RotateWon
      <3>3. c \in TokenId /\ c \notin Families /\ ~Exists(c) /\ Exists(c)'
        BY <1>2, <2>3, RotateEffect, RotateLink, IdentityAssumption
        DEF Exists, TokenId
      <3>4. \A i \in TokenId \ {c} : Exists(i)' <=> Exists(i)
        BY <1>2, <2>3, <3>2, RotateEffect, RotateLink DEF Exists
      <3>5. opn' = opn /\ usd' = usd \cup {c}
        BY <3>3, <3>4 DEF TokenId
      <3>6. lv' = [lv EXCEPT ![f] = {c}]
        BY <3>1
      <3>7. Family!Move(f)
        BY <3>1, <3>2, <3>3, <3>5, <3>6 DEF Family!Move
      <3> QED
        BY <3>7 DEF Family!Next
    <2>4. ASSUME \A i \in TokenId : Exists(i)' <=> Exists(i),
                 \/ \A g \in Families : Live(g)' = Live(g)
                 \/ \E f \in Families :
                      /\ Live(f)' = {}
                      /\ \A g \in Families \ {f} : Live(g)' = Live(g)
          PROVE  [Family!Next]_(Family!fvars)
      <3>1. opn' = opn /\ usd' = usd
        BY <2>4 DEF TokenId
      <3>2. CASE \A g \in Families : Live(g)' = Live(g)
        BY <3>1, <3>2 DEF Family!fvars
      <3>3. ASSUME NEW f \in Families, Live(f)' = {}, Live(f) # {},
                   \A g \in Families \ {f} : Live(g)' = Live(g)
            PROVE  Family!Next
        <4>1. lv' = [lv EXCEPT ![f] = {}]
          BY <3>3
        <4>2. Family!End(f)
          BY <3>1, <3>3, <4>1 DEF Family!End
        <4> QED
          BY <4>2 DEF Family!Next
      <3> QED
        BY <2>4, <3>2, <3>3
    <2>5. ASSUME NEW c \in Calls, RevokeFamily(c)
          PROVE  [Family!Next]_(Family!fvars)
      BY <1>2, <2>0, <2>4, <2>5, LiveRevokeFamily, RevokeFamilyEffect
    <2>6. ASSUME NEW c \in Calls, RevokeToken(c)
          PROVE  [Family!Next]_(Family!fvars)
      BY <1>2, <2>0, <2>4, <2>6, LiveRevokeToken, RevokeTokenEffect
    <2> QED
      BY <1>2, <2>1, <2>2, <2>3, <2>5, <2>6, StoreSteps
  <1> QED
    BY <1>1, <1>2, Inductive, PTL DEF Spec, ImplementsFamily, Family!Spec

-----------------------------------------------------------------------------
(* Every call returns.                                                     *)

\* The passes a call has ahead of it: on its first attempt, all of them.
PassesLeft(c) ==
    IF attempt[c].newest = None /\ pc[c] \in {"find", "user", "authority",
                                              "rotate", "reread"}
    THEN MaxRetries + 1
    ELSE MaxRetries - attempt[c].retries

\* How far a call has to go, step by step.
AwaitsAre(c) ==
    /\ PassesLeft(c) \in Nat
    /\ ~Running(c) => AwaitsLeft(c) = 0
    /\ pc[c] = "grace" => AwaitsLeft(c) = 6 + 6 * PassesLeft(c)
    /\ pc[c] \in {"find", "live"} => AwaitsLeft(c) = 5 + 6 * PassesLeft(c)
    /\ pc[c] = "user" => AwaitsLeft(c) = 4 + 6 * PassesLeft(c)
    /\ pc[c] = "authority" => AwaitsLeft(c) = 3 + 6 * PassesLeft(c)
    /\ pc[c] = "rotate" => AwaitsLeft(c) = 2 + 6 * PassesLeft(c)
    /\ pc[c] \in {"reread", "observe", "revoke", "revoke_family"} =>
         AwaitsLeft(c) = 1 + 6 * PassesLeft(c)

\* AwaitsLeft is what the table says.
LEMMA AwaitsTable ==
  ASSUME TypeOK, NEW c \in Calls, ReuseOf(c) PROVE AwaitsAre(c)
  BY ConfigAssumption
  DEF AwaitsAre, PassesLeft, AwaitsLeft, Running, Steps, ReuseOf, TypeOK, Attempt

\* The same, after a step.
LEMMA AwaitsTableAfter ==
  ASSUME TypeOK', NEW c \in Calls, ReuseOf(c)' PROVE AwaitsAre(c)'
  BY ConfigAssumption
  DEF AwaitsAre, PassesLeft, AwaitsLeft, Running, Steps, ReuseOf, TypeOK, Attempt

\* A call's own step brings it closer to its end.
LEMMA StepAdvances ==
  ASSUME IndInv, NEW c \in Calls, Step(c) \/ Fail(c), TypeOK', ReuseOf(c)'
  PROVE  AwaitsLeft(c)' < AwaitsLeft(c)
  <1>0. TypeOK /\ ReuseOf(c)
    BY DEF IndInv, CallsInv
  <1>1. AwaitsAre(c) /\ AwaitsAre(c)'
    BY <1>0, AwaitsTable, AwaitsTableAfter
  <1>2. attempt[c].retries \in Nat
    BY <1>0, ConfigAssumption DEF TypeOK, Attempt
  <1>3. ASSUME pc[c] \in Steps, pc'[c] \in Results
        PROVE  AwaitsLeft(c)' < AwaitsLeft(c)
    BY <1>1, <1>3 DEF AwaitsAre, Running, Steps, Results
  <1>4. ASSUME NEW s, pc'[c] = s, attempt'[c].newest = attempt[c].newest,
               attempt'[c].retries = attempt[c].retries,
               \/ pc[c] = "find" /\ s \in {"user", "grace", "revoke", "revoke_family"}
               \/ pc[c] = "grace" /\ s \in {"live", "revoke_family"}
               \/ pc[c] = "live" /\ s = "revoke_family"
               \/ pc[c] = "user" /\ s \in {"authority", "rotate"}
               \/ pc[c] = "authority" /\ s = "rotate"
               \/ pc[c] = "rotate" /\ s \in {"reread", "revoke_family"}
                    /\ attempt[c].newest = None
               \/ pc[c] = "rotate" /\ s = "observe" /\ attempt[c].newest # None
               \/ pc[c] = "reread" /\ s = "grace"
        PROVE  AwaitsLeft(c)' < AwaitsLeft(c)
    BY <1>0, <1>1, <1>2, <1>4, ConfigAssumption DEF AwaitsAre, PassesLeft, ReuseOf
  <1>5. CASE Fail(c) \/ FindUnknown(c) \/ FindLogoutNoop(c) \/ GraceExhausted(c)
    BY <1>0, <1>3, <1>5
    DEF Fail, FindUnknown, FindLogoutNoop, Found, GraceExhausted, Return, Go,
        TypeOK, Running, Steps, Results
  <1>6. CASE Observe(c) \/ RevokeFamily(c) \/ RevokeToken(c)
    BY <1>0, <1>3, <1>6
    DEF Observe, RevokeFamily, RevokeToken, Return, Go, TypeOK, Steps, Results
  <1>7. CASE UserRefused(c)
    <2>1. \A e \in Refusals(c) : e \in Results
      BY DEF Refusals, Results
    <2> QED
      BY <1>0, <1>3, <1>7, <2>1 DEF UserRefused, Return, Go, TypeOK, Steps
  <1>8. CASE FindRevoked(c) \/ FindExpired(c) \/ FindCurrent(c) \/ FindLogout(c)
    BY <1>0, <1>4, <1>8
    DEF FindRevoked, FindExpired, FindCurrent, FindLogout, Found, Keep, Go, TypeOK
  <1>9. CASE NewestRefused(c) \/ HostUserRead(c) \/ RotateLost(c) \/ Reread(c)
    BY <1>0, <1>4, <1>9
    DEF NewestRefused, HostUserRead, RotateLost, Reread, Go, TypeOK
  <1>10. CASE GraceOpen(c)
    <2>1. PICK t \in Reading :
            /\ attempt' = [attempt EXCEPT ![c].now = t]
            /\ Go(c, IF superseded_within(seen[c], t)
                     THEN "live" ELSE "revoke_family")
      BY <1>10 DEF GraceOpen
    <2>2. /\ attempt'[c].newest = attempt[c].newest
          /\ attempt'[c].retries = attempt[c].retries
      BY <1>0, <2>1 DEF TypeOK, Attempt
    <2> QED
      BY <1>0, <1>4, <1>10, <2>1, <2>2 DEF GraceOpen, Go, TypeOK
  <1>11. CASE NewestFound(c)
    <2>1. PICK n \in Replaceable(c) : attempt' = [attempt EXCEPT ![c].newest = n]
      BY <1>11 DEF NewestFound
    <2>2. n # None
      BY IdentityAssumption DEF Replaceable
    <2>3. /\ attempt'[c].newest = n
          /\ attempt'[c].retries = attempt[c].retries
          /\ pc[c] = "live" /\ pc'[c] = "user"
      BY <1>0, <1>11, <2>1 DEF NewestFound, Go, TypeOK, Attempt
    <2> QED
      BY <1>1, <1>2, <2>2, <2>3, ConfigAssumption DEF AwaitsAre, PassesLeft
  <1>12. CASE StoredUserRead(c) \/ AuthorityRead(c)
    <2>1. attempt' = [attempt EXCEPT ![c].grants = Narrowed(c)]
      BY <1>12 DEF StoredUserRead, AuthorityRead, Prepare
    <2>2. /\ attempt'[c].newest = attempt[c].newest
          /\ attempt'[c].retries = attempt[c].retries
      BY <1>0, <2>1 DEF TypeOK, Attempt
    <2> QED
      BY <1>0, <1>4, <1>12, <2>2
      DEF StoredUserRead, AuthorityRead, Prepare, Go, TypeOK
  <1>13. CASE RetryLost(c)
    <2>1. /\ attempt'[c].retries = attempt[c].retries + 1
          /\ attempt'[c].newest = None
          /\ attempt[c].newest # None
          /\ pc[c] = "rotate" /\ pc'[c] = "grace"
      BY <1>0, <1>13 DEF RetryLost, Go, TypeOK, NoAttempt
    <2> QED
      BY <1>1, <1>2, <2>1, ConfigAssumption DEF AwaitsAre, PassesLeft
  <1>14. CASE RotateWon(c)
    <2>1. CASE attempt[c].newest = None
      BY <1>0, <1>3, <1>14, <2>1 DEF RotateWon, Return, Go, TypeOK, Steps, Results
    <2>2. CASE attempt[c].newest # None
      BY <1>0, <1>4, <1>14, <2>2 DEF RotateWon, Go, TypeOK
    <2> QED
      BY <2>1, <2>2
  <1> QED
    BY <1>5, <1>6, <1>7, <1>8, <1>9, <1>10, <1>11, <1>12, <1>13, <1>14 DEF Step

\* What a call may be to another call's step.
CallAdvances(c) ==
    Running(c) => \/ UNCHANGED <<pc[c], seen[c], attempt[c]>>
                  \/ AwaitsLeft(c)' < AwaitsLeft(c)

\* Every await of a call brings its return closer: rotate_session ends after
\* a number of awaits bounded by MAX_REFRESH_REUSE_GRACE_RETRIES alone.
THEOREM Advances == Spec => CallsAdvance
  <1>1. ASSUME IndInv, [Next]_vars, NEW c \in Calls PROVE CallAdvances(c)
    <2>0. TypeOK /\ TypeOK' /\ ReuseOf(c)'
      BY <1>1, TypeStep, CallsStep DEF IndInv, CallsInv
    <2>1. CASE Step(c) \/ Fail(c)
      BY <1>1, <2>0, <2>1, StepAdvances DEF CallAdvances
    <2>2. ASSUME NEW d \in Calls \ {c}, Step(d) \/ Fail(d) PROVE CallAdvances(c)
      BY <2>0, <2>2, OneCallMoves DEF CallAdvances
    <2>3. ASSUME NEW d \in Calls, NEW k \in Kinds, NEW i \in Delivered \cup {None},
                 Begin(d, k, i)
          PROVE  CallAdvances(c)
      BY <2>0, <2>3 DEF Begin, Go, TypeOK, CallAdvances, Running, Steps
    <2>4. CASE UNCHANGED locals
      BY <2>4 DEF locals, CallAdvances
    <2> QED
      BY <1>1, <2>1, <2>2, <2>3, <2>4 DEF Next, vars, Tick, UpdateUser, Issue
  <1>2. ASSUME IndInv, [Next]_vars
        PROVE  \A c \in Calls :
                 Running(c) => \/ UNCHANGED <<pc[c], seen[c], attempt[c]>>
                               \/ AwaitsLeft(c)' < AwaitsLeft(c)
    BY <1>1, <1>2 DEF CallAdvances
  <1> QED
    BY <1>2, Inductive, PTL DEF Spec, CallsAdvance
-----------------------------------------------------------------------------
(* What a reuse may rely on.                                               *)

\* The call is in the reuse loop of reissue_within_reuse_grace.
Looping(c) == pc[c] \in {"grace", "live"} \/ attempt[c].newest # None

\* Its copy of the presented token has the window that the store holds, for
\* as long as the family has a live token to replace.
Matches(c) ==
    /\ is_revoked(seen[c])
    /\ \/ Live(seen[c].family) = {}
       \/ /\ seen[c].revoked_at = Presented(c).revoked_at
          /\ seen[c].replaced_by = Presented(c).replaced_by

WindowOf(c) ==
    /\ Looping(c) => Matches(c)
    /\ pc[c] = "live" \/ attempt[c].newest # None =>
         superseded_within(seen[c], attempt[c].now)

\* The call's user has been among its witnesses since it began, and so have
\* the records it decided by.
WitnessOf(c) ==
    /\ Running(c) /\ request[c].token # None =>
         users[Presented(c).user] \in witness[c]
    /\ pc[c] \in {"authority", "rotate"} \/ Exists(c) =>
         \E r \in witness[c] : r.status = "enabled"
    /\ pc[c] = "rotate" =>
         \E r \in witness[c] : attempt[c].grants \subseteq r.grants
    /\ Exists(c) =>
         \E r \in witness[c] : tokens[c].grants \subseteq r.grants

WindowInv == \A c \in Calls : WindowOf(c)

WitnessInv == \A c \in Calls : WitnessOf(c)

\* The conditions of RaceIsNotReplay.
Quiet ==
    /\ GraceWindow > 0 /\ LiveReads /\ Skew = 0
    /\ clock < GraceWindow
    /\ \A c \in Calls : Rotating(c)

\* Superseded by a replacement, at a time that has been.
Recent(r) == r.replaced_by # None /\ r.revoked_at \in 0..clock

\* The tokens of a family have its root's user and source.
OwnerInv ==
    \A i \in TokenId :
      Exists(i) => /\ tokens[i].user = tokens[tokens[i].family].user
                   /\ tokens[i].source = tokens[tokens[i].family].source

QuietStore ==
    \A i \in TokenId :
      Exists(i) => /\ tokens[i].expires_at >= TTL
                   /\ is_revoked(tokens[i]) => Recent(tokens[i])
                   /\ Live(tokens[i].family) # {}

QuietCall(c) ==
    /\ request[c].entered \in 0..clock
    /\ attempt[c].now \in 0..clock
    /\ Looping(c) => Recent(seen[c])
    /\ pc[c] \notin {"revoke", "revoke_family", "Replay"}

QuietInv ==
    /\ \A c \in Calls : pc[c] = "idle" => Rotating(c)
    /\ OwnerInv
    /\ Quiet => QuietStore /\ \A c \in Calls : QuietCall(c)

\* A call in the loop has read its token, which is revoked.
LEMMA LoopingCall ==
  ASSUME IndInv, NEW c \in Calls, Looping(c)
  PROVE  /\ request[c].token \in TokenId
         /\ Exists(request[c].token)
         /\ seen[c] \in TokenRecord
         /\ Presented(c) \in TokenRecord
         /\ SameSession(seen[c], Presented(c))
         /\ is_revoked(Presented(c))
         /\ seen[c].family \in Families
         /\ Presented(c).family = seen[c].family
  <1>1. TypeOK /\ SnapshotOf(c) /\ ReuseOf(c)
    BY DEF IndInv, CallsInv
  <1>2. pc[c] \in PastFind /\ is_revoked(Presented(c))
    BY <1>1 DEF Looping, ReuseOf, PastFind
  <1>3. /\ request[c].token \in TokenId /\ Exists(request[c].token)
        /\ seen[c] \in TokenRecord
        /\ SameSession(seen[c], Presented(c))
    BY <1>1, <1>2 DEF SnapshotOf, TypeOK, Request
  <1>4. Presented(c) \in TokenRecord
    BY <1>1, <1>3 DEF Presented, Exists, TypeOK
  <1>5. seen[c].family \in Families
    BY <1>3 DEF TokenRecord
  <1> QED
    BY <1>2, <1>3, <1>4, <1>5 DEF SameSession

\* A step that leaves the call's copy alone leaves it matching: the window
\* moves only in a family that ends.
LEMMA MatchKept ==
  ASSUME IndInv, [Next]_vars, NEW c \in Calls, Looping(c), Matches(c),
         seen'[c] = seen[c], request'[c] = request[c]
  PROVE  Matches(c)'
  <1>1. /\ request[c].token \in TokenId
        /\ Exists(request[c].token)
        /\ is_revoked(Presented(c))
        /\ seen[c].family \in Families
        /\ Presented(c).family = seen[c].family
    BY LoopingCall
  <1>2. CASE Live(seen[c].family) = {}
    <2>1. Live(seen[c].family)' = {}
      <3>1. \A f \in Families : f = seen[c].family => Live(f)' = {}
        BY <1>1, <1>2, DeadStaysDead DEF Presented
      <3>2. seen'[c].family = seen[c].family
        OBVIOUS
      <3> QED
        BY <1>1, <3>1, <3>2
    <2> QED
      BY <2>1 DEF Matches, is_revoked
  <1>3. CASE /\ seen[c].revoked_at = Presented(c).revoked_at
             /\ seen[c].replaced_by = Presented(c).replaced_by
    <2>1. Persists /\ WindowKept
      BY Persistence, WindowStep
    <2>2. Presented(c)'.family = seen[c].family
      BY <1>1, <2>1 DEF Persists, SameSession, Presented
    <2>3. \/ Live(seen[c].family)' = {}
          \/ /\ Presented(c)'.revoked_at = Presented(c).revoked_at
             /\ Presented(c)'.replaced_by = Presented(c).replaced_by
      BY <1>1, <2>1, <2>2 DEF WindowKept, Presented
    <2> QED
      BY <1>3, <2>3 DEF Matches, is_revoked
  <1> QED
    BY <1>2, <1>3 DEF Matches

\* Every step keeps the copies of the calls in the loop matching.
LEMMA WindowInvStep ==
  ASSUME IndInv, WindowInv, [Next]_vars, NEW c \in Calls
  PROVE  WindowOf(c)'
  <1>0. TypeOK /\ ReuseOf(c) /\ WindowOf(c) /\ attempt[c] \in Attempt
    BY DEF IndInv, CallsInv, WindowInv, TypeOK
  <1>1. ASSUME pc'[c] = pc[c], seen'[c] = seen[c], attempt'[c] = attempt[c],
               request'[c] = request[c]
        PROVE  WindowOf(c)'
    <2>1. Looping(c)' => Matches(c)'
      BY <1>0, <1>1, MatchKept DEF WindowOf, Looping
    <2> QED
      BY <1>0, <1>1, <2>1 DEF WindowOf, superseded_within, is_revoked, is_expired
  <1>2. ASSUME pc'[c] \notin {"grace", "live"}, attempt'[c].newest = None
        PROVE  WindowOf(c)'
    BY <1>2 DEF WindowOf, Looping
  <1>3. ASSUME NEW d \in Calls \ {c}, Step(d) \/ Fail(d) PROVE WindowOf(c)'
    BY <1>0, <1>1, <1>3, OneCallMoves
  <1>4. ASSUME NEW d \in Calls, NEW k \in Kinds, NEW i \in Delivered \cup {None},
               Begin(d, k, i)
        PROVE  WindowOf(c)'
    <2>1. CASE d = c
      <3>1. /\ pc[c] = "idle" /\ pc'[c] = "find" /\ attempt' = attempt
        BY <1>0, <1>4, <2>1 DEF Begin, Go, TypeOK
      <3>2. attempt[c].newest = None
        BY <1>0, <3>1 DEF ReuseOf
      <3> QED
        BY <1>2, <3>1, <3>2
    <2>2. CASE d # c
      BY <1>0, <1>1, <1>4, <2>2 DEF Begin, Go, TypeOK
    <2> QED
      BY <2>1, <2>2
  <1>5. CASE UNCHANGED locals
    BY <1>1, <1>5 DEF locals
  <1>6. ASSUME Looping(c), seen'[c] = seen[c], request'[c] = request[c],
               attempt'[c].now = attempt[c].now,
               pc'[c] = "live" \/ attempt'[c].newest # None =>
                 pc[c] = "live" \/ attempt[c].newest # None
        PROVE  WindowOf(c)'
    <2>1. Matches(c)'
      BY <1>0, <1>6, MatchKept DEF WindowOf
    <2> QED
      BY <1>0, <1>6, <2>1 DEF WindowOf, superseded_within, is_revoked, is_expired
  <1>7. ASSUME NEW result, Return(c, result), result \in Results PROVE WindowOf(c)'
    BY <1>0, <1>2, <1>7 DEF Return, Go, TypeOK, NoAttempt, Results
  <1>8. CASE Fail(c) \/ FindUnknown(c) \/ FindLogoutNoop(c) \/ GraceExhausted(c)
             \/ Observe(c) \/ RevokeFamily(c) \/ RevokeToken(c)
    BY <1>7, <1>8
    DEF Fail, FindUnknown, FindLogoutNoop, GraceExhausted, Observe, RevokeFamily,
        RevokeToken, Results
  <1>9. CASE UserRefused(c)
    <2>1. \A e \in Refusals(c) : e \in Results
      BY DEF Refusals, Results
    <2> QED
      BY <1>7, <1>9, <2>1 DEF UserRefused
  <1>10. CASE FindExpired(c) \/ FindCurrent(c) \/ FindLogout(c)
    <2>1. pc[c] = "find" /\ attempt' = attempt
      BY <1>10 DEF FindExpired, FindCurrent, FindLogout, Found, Keep
    <2>2. attempt[c].newest = None
      BY <1>0, <2>1 DEF ReuseOf
    <2>3. pc'[c] \in {"revoke", "user", "revoke_family"}
      BY <1>0, <1>10 DEF FindExpired, FindCurrent, FindLogout, Keep, Go, TypeOK
    <2> QED
      BY <1>2, <2>1, <2>2, <2>3
  <1>11. CASE FindRevoked(c) \/ Reread(c)
    <2>1. /\ pc[c] \in {"find", "reread"} /\ pc'[c] \in {"grace", "revoke_family"}
          /\ attempt' = attempt /\ tokens' = tokens /\ request' = request
          /\ seen'[c] = Presented(c)
      BY <1>0, <1>11
      DEF FindRevoked, Found, Reread, Keep, Go, CallStep, TypeOK
    <2>2. attempt[c].newest = None /\ is_revoked(Presented(c))
      BY <1>0, <1>11, <2>1 DEF ReuseOf, FindRevoked, Reread
    <2>3. Matches(c)'
      BY <2>1, <2>2 DEF Matches, Presented
    <2> QED
      BY <2>1, <2>2, <2>3 DEF WindowOf
  <1>12. CASE GraceOpen(c)
    <2>1. PICK t \in Reading :
            /\ attempt' = [attempt EXCEPT ![c].now = t]
            /\ Go(c, IF superseded_within(seen[c], t)
                     THEN "live" ELSE "revoke_family")
      BY <1>12 DEF GraceOpen
    <2>2. /\ attempt'[c].newest = attempt[c].newest /\ attempt'[c].now = t
          /\ pc[c] = "grace" /\ seen' = seen /\ request' = request
          /\ pc'[c] = IF superseded_within(seen[c], t)
                      THEN "live" ELSE "revoke_family"
      BY <1>0, <1>12, <2>1 DEF GraceOpen, Go, TypeOK, Attempt, CallStep
    <2>3. attempt[c].newest = None
      BY <1>0, <2>2 DEF ReuseOf
    <2>4. Matches(c)'
      BY <1>0, <2>2, MatchKept DEF WindowOf, Looping
    <2> QED
      BY <2>2, <2>3, <2>4 DEF WindowOf, superseded_within, is_revoked, is_expired
  <1>13. CASE NewestFound(c)
    <2>1. PICK n \in Replaceable(c) : attempt' = [attempt EXCEPT ![c].newest = n]
      BY <1>13 DEF NewestFound
    <2>2. /\ attempt'[c].now = attempt[c].now
          /\ pc[c] = "live" /\ seen' = seen /\ request' = request
      BY <1>0, <1>13, <2>1 DEF NewestFound, TypeOK, Attempt, CallStep
    <2> QED
      BY <1>6, <2>2 DEF Looping
  <1>14. CASE NewestRefused(c)
    <2>1. /\ pc[c] = "live" /\ pc'[c] = "revoke_family"
          /\ attempt' = attempt
      BY <1>0, <1>14 DEF NewestRefused, Go, TypeOK
    <2>2. attempt[c].newest = None
      BY <1>0, <2>1 DEF ReuseOf
    <2> QED
      BY <1>2, <2>1, <2>2
  <1>15. CASE StoredUserRead(c) \/ AuthorityRead(c) \/ HostUserRead(c) \/ RotateLost(c)
    <2>1. /\ attempt' = attempt \/ attempt' = [attempt EXCEPT ![c].grants = Narrowed(c)]
          /\ seen' = seen /\ request' = request
          /\ pc'[c] \in {"authority", "rotate", "reread", "revoke_family"}
      BY <1>0, <1>15
      DEF StoredUserRead, AuthorityRead, HostUserRead, RotateLost, Prepare, Go,
          TypeOK, CallStep
    <2>2. /\ attempt'[c].newest = attempt[c].newest
          /\ attempt'[c].now = attempt[c].now
      BY <1>0, <2>1 DEF TypeOK, Attempt
    <2> QED
      BY <1>2, <1>6, <2>1, <2>2 DEF Looping
  <1>16. CASE RetryLost(c)
    <2>1. /\ seen' = seen /\ request' = request
          /\ attempt[c].newest # None
          /\ attempt'[c].newest = None
          /\ pc'[c] = "grace"
      BY <1>0, <1>16 DEF RetryLost, Go, TypeOK, CallStep, NoAttempt
    <2>2. Matches(c)'
      BY <1>0, <2>1, MatchKept DEF WindowOf, Looping
    <2> QED
      BY <2>1, <2>2 DEF WindowOf
  <1>17. CASE RotateWon(c)
    <2>1. CASE attempt[c].newest = None
      BY <1>7, <1>17, <2>1 DEF RotateWon, Results
    <2>2. CASE attempt[c].newest # None
      BY <1>0, <1>6, <1>17, <2>2 DEF RotateWon, Looping
    <2> QED
      BY <2>1, <2>2
  <1>18. ASSUME Step(c) PROVE WindowOf(c)'
    BY <1>8, <1>9, <1>10, <1>11, <1>12, <1>13, <1>14, <1>15, <1>16, <1>17, <1>18
    DEF Step
  <1> QED
    BY <1>3, <1>4, <1>5, <1>8, <1>18 DEF Next, vars, Tick, UpdateUser, Issue

\* A call in the loop works from the window that the store holds.
THEOREM LoopWindow == Spec => []WindowInv
  <1>1. Init => WindowInv
    BY DEF Init, WindowInv, WindowOf, Looping, NoAttempt
  <1>2. ASSUME IndInv, WindowInv, [Next]_vars PROVE WindowInv'
    BY <1>2, WindowInvStep DEF WindowInv
  <1> QED
    BY <1>1, <1>2, Inductive, PTL DEF Spec

\* A commit gives what the presented token is good for at that moment: the
\* window is measured from the stored revoked_at, however old the copy is.
THEOREM CommitMatches == Spec => CommitMatchesPresented
  <1>1. ASSUME IndInv, WindowInv, [Next]_vars, NEW c \in Calls,
               ~Exists(c), Exists(c)',
               NEW p, p = tokens[request[c].token]
        PROVE  /\ tokens'[c].assurance = IF request[c].kind = "step_up"
                                         THEN "step_up" ELSE p.assurance
               /\ is_revoked(p) =>
                    /\ p.replaced_by # None
                    /\ attempt[c].now - p.revoked_at < GraceWindow
                    /\ p.revoked_at - attempt[c].now < GraceWindow
    <2>1. RotateWon(c)
      BY <1>1, MintedByItself
    <2>2. /\ TypeOK /\ SnapshotOf(c) /\ ReuseOf(c) /\ WindowOf(c)
          /\ pc[c] = "rotate"
      BY <1>1, <2>1 DEF IndInv, CallsInv, WindowInv, RotateWon
    <2>3. p = Presented(c) /\ SameSession(seen[c], p)
      BY <1>1, <2>2 DEF Presented, SnapshotOf, PastFind
    <2>4. tokens'[c].assurance = IF request[c].kind = "step_up"
                                 THEN "step_up" ELSE seen[c].assurance
      <3>1. tokens'[c] = Replacement(c)
        BY <1>1, <2>1, RotateEffect
      <3> QED
        BY <3>1 DEF Replacement
    <2>5. CASE attempt[c].newest = None
      <3>1. ~is_revoked(p)
        BY <1>1, <2>1, <2>5, RotateEffect DEF Target, is_revoked
      <3> QED
        BY <2>3, <2>4, <3>1 DEF SameSession
    <2>6. CASE attempt[c].newest # None
      <3>1. Live(seen[c].family) # {}
        BY <1>1, <2>1, LiveRotate
      <3>2. /\ seen[c].revoked_at = p.revoked_at
            /\ seen[c].replaced_by = p.replaced_by
        BY <2>2, <2>3, <2>6, <3>1 DEF WindowOf, Looping, Matches
      <3>3. superseded_within(seen[c], attempt[c].now)
        BY <2>2, <2>6 DEF WindowOf
      <3> QED
        BY <2>3, <2>4, <3>2, <3>3 DEF SameSession, superseded_within
    <2> QED
      BY <2>5, <2>6
  <1>2. ASSUME IndInv, WindowInv, [Next]_vars
        PROVE  \A c \in Calls :
                 ~Exists(c) /\ Exists(c)' =>
                   LET p == tokens[request[c].token]
                   IN  /\ tokens'[c].assurance = IF request[c].kind = "step_up"
                                                 THEN "step_up" ELSE p.assurance
                       /\ is_revoked(p) =>
                            /\ p.replaced_by # None
                            /\ attempt[c].now - p.revoked_at < GraceWindow
                            /\ p.revoked_at - attempt[c].now < GraceWindow
    BY <1>1, <1>2
  <1> QED
    BY <1>2, Inductive, LoopWindow, PTL DEF Spec, CommitMatchesPresented

-----------------------------------------------------------------------------
(* Current authority.                                                      *)

\* The user of the presented token is fixed for a call in flight.
LEMMA PresentedUser ==
  ASSUME IndInv, [Next]_vars, NEW c \in Calls, request[c].token # None,
         request'[c] = request[c]
  PROVE  /\ Presented(c) \in TokenRecord
         /\ Presented(c).user \in Users
         /\ Presented(c)'.user = Presented(c).user
  <1>1. TypeOK /\ SnapshotOf(c) /\ Persists
    BY Persistence DEF IndInv, CallsInv
  <1>2. request[c].token \in TokenId /\ Exists(request[c].token)
    BY <1>1 DEF SnapshotOf, TypeOK, Request
  <1>3. Presented(c) \in TokenRecord
    BY <1>1, <1>2 DEF Presented, Exists, TypeOK
  <1> QED
    BY <1>1, <1>2, <1>3 DEF Persists, SameSession, Presented, TokenRecord

\* A call whose locals stay keeps its witnesses when the users it has are in.
LEMMA WitnessKept ==
  ASSUME IndInv, [Next]_vars, NEW c \in Calls, WitnessOf(c),
         request'[c] = request[c], attempt'[c].grants = attempt[c].grants,
         Running(c)' => Running(c),
         pc'[c] \in {"authority", "rotate"} => pc'[c] = pc[c],
         Exists(c)' => Exists(c),
         witness[c] \subseteq witness'[c],
         \A u \in Users : /\ Running(c)
                          /\ request[c].token # None
                          /\ Presented(c).user = u
                          => users'[u] = users[u] \/ users'[u] \in witness'[c]
  PROVE  WitnessOf(c)'
  <1>1. Running(c)' /\ request'[c].token # None =>
          users'[Presented(c)'.user] \in witness'[c]
    BY PresentedUser DEF WitnessOf
  <1>2. Exists(c) => tokens'[c].grants = tokens[c].grants
    BY Persistence DEF Persists, SameSession, TokenId
  <1> QED
    BY <1>1, <1>2 DEF WitnessOf, Presented

\* Every step keeps each call's witnesses.
LEMMA WitnessInvStep ==
  ASSUME IndInv, WitnessInv, [Next]_vars, NEW c \in Calls
  PROVE  WitnessOf(c)'
  <1>0. /\ TypeOK /\ SnapshotOf(c) /\ MintOf(c) /\ ReuseOf(c) /\ WitnessOf(c)
        /\ attempt[c] \in Attempt
    BY DEF IndInv, CallsInv, WitnessInv, TypeOK
  <1>1. ASSUME pc'[c] = pc[c], request'[c] = request[c], attempt'[c] = attempt[c],
               witness' = witness, users' = users
        PROVE  WitnessOf(c)'
    <2>1. ~RotateWon(c)
      BY <1>0, <1>1 DEF RotateWon, Return, Go, TypeOK
    <2>2. Exists(c)' => Exists(c)
      BY <2>1, MintedByItself
    <2> QED
      BY <1>0, <1>1, <2>2, WitnessKept DEF Running
  <1>2. ASSUME NEW d \in Calls, Step(d) \/ Fail(d)
        PROVE  witness' = witness /\ users' = users /\ request' = request
    BY <1>2
    DEF Step, Fail, FindUnknown, FindRevoked, FindExpired, FindCurrent,
        FindLogout, FindLogoutNoop, GraceExhausted, GraceOpen, NewestFound,
        NewestRefused, UserRefused, StoredUserRead, HostUserRead, AuthorityRead,
        RotateWon, RetryLost, RotateLost, Observe, Reread, RevokeFamily,
        RevokeToken, Prepare, Keep, CallStep, world
  <1>3. ASSUME NEW d \in Calls \ {c}, Step(d) \/ Fail(d) PROVE WitnessOf(c)'
    BY <1>0, <1>1, <1>2, <1>3, OneCallMoves
  <1>4. ASSUME NEW d \in Calls, NEW k \in Kinds, NEW i \in Delivered \cup {None},
               Begin(d, k, i)
        PROVE  WitnessOf(c)'
    <2>1. CASE d = c
      <3>1. /\ pc[c] = "idle" /\ pc'[c] = "find" /\ request'[c].token = i
            /\ tokens' = tokens /\ users' = users
            /\ witness'[c] = IF i = None THEN {} ELSE {users[tokens[i].user]}
        BY <1>0, <1>4, <2>1 DEF Begin, Go, TypeOK, world
      <3>2. ~Exists(c)
        BY <1>0, <3>1 DEF MintOf, Results
      <3> QED
        BY <3>1, <3>2 DEF WitnessOf, Exists, Presented
    <2>2. CASE d # c
      <3>1. /\ pc'[c] = pc[c] /\ request'[c] = request[c]
            /\ attempt'[c] = attempt[c] /\ witness'[c] = witness[c]
            /\ users' = users /\ tokens' = tokens
        BY <1>0, <1>4, <2>2 DEF Begin, Go, TypeOK, world
      <3> QED
        BY <1>0, <3>1 DEF WitnessOf, Exists, Presented, Running
    <2> QED
      BY <2>1, <2>2
  <1>5. ASSUME NEW u \in Users, UpdateUser(u) PROVE WitnessOf(c)'
    <2>1. PICK r \in UserRecord :
            /\ users' = [users EXCEPT ![u] = r]
            /\ witness' = [d \in Calls |->
                 IF /\ Running(d)
                    /\ request[d].token # None
                    /\ tokens[request[d].token].user = u
                 THEN witness[d] \cup {r}
                 ELSE witness[d]]
      BY <1>5 DEF UpdateUser
    <2>2. /\ pc' = pc /\ request' = request /\ attempt' = attempt
          /\ tokens' = tokens
      BY <1>5 DEF UpdateUser, locals
    <2>3. users'[u] = r /\ \A v \in Users \ {u} : users'[v] = users[v]
      BY <1>0, <2>1 DEF TypeOK
    <2>4. /\ witness[c] \subseteq witness'[c]
          /\ Running(c) /\ request[c].token # None /\ Presented(c).user = u =>
               r \in witness'[c]
      BY <2>1 DEF Presented
    <2> QED
      BY <1>0, <2>2, <2>3, <2>4, WitnessKept DEF Running, Exists
  <1>6. CASE \/ UNCHANGED vars \/ Tick
             \/ \E f \in Families, u \in Users : Issue(f, u)
    BY <1>1, <1>6 DEF vars, Tick, Issue, locals, world
  <1>7. ASSUME Step(c) \/ Fail(c), ~RotateWon(c), pc[c] \in Steps,
               pc'[c] \notin {"authority", "rotate"} \/ pc'[c] = pc[c],
               attempt'[c].grants = attempt[c].grants \/ pc'[c] # "rotate"
        PROVE  WitnessOf(c)'
    <2>1. /\ witness' = witness /\ users' = users /\ request' = request
          /\ Exists(c)' => Exists(c)
      BY <1>2, <1>7, MintedByItself
    <2>2. Running(c)
      BY <1>7 DEF Running
    <2>3. Running(c)' /\ request'[c].token # None =>
            users'[Presented(c)'.user] \in witness'[c]
      BY <1>0, <2>1, <2>2, PresentedUser DEF WitnessOf
    <2>4. Exists(c) => tokens'[c].grants = tokens[c].grants
      BY Persistence DEF Persists, SameSession, TokenId
    <2> QED
      BY <1>0, <1>7, <2>1, <2>3, <2>4 DEF WitnessOf
  <1>8. ASSUME pc[c] \in {"user", "authority"}, tokens' = tokens,
               users' = users, witness' = witness, request' = request,
               pc'[c] \in {"authority", "rotate"},
               pc[c] = "user" => Refusals(c) = {},
               pc'[c] = "rotate" => attempt'[c].grants = Narrowed(c)
        PROVE  WitnessOf(c)'
    <2>1. /\ Running(c) /\ request[c].token # None
          /\ SameSession(seen[c], Presented(c))
      BY <1>0, <1>8 DEF SnapshotOf, PastFind, Running, Steps
    <2>2. /\ Presented(c).user = seen[c].user /\ seen[c].user \in Users
          /\ users[seen[c].user] \in witness[c]
          /\ users[seen[c].user] \in UserRecord
      BY <1>0, <1>8, <2>1, PresentedUser DEF SameSession, WitnessOf, TypeOK
    <2>3. pc[c] = "user" => users[seen[c].user].status = "enabled"
      <3>1. users[seen[c].user].status \in {"enabled", "disabled", "missing"}
        BY <2>2 DEF UserRecord
      <3> QED
        BY <1>8, <3>1, Zenon DEF Refusals
    <2>4. \E r \in witness[c] : r.status = "enabled"
      BY <1>0, <1>8, <2>2, <2>3 DEF WitnessOf
    <2>5. Narrowed(c) \subseteq users[seen[c].user].grants
      BY DEF Narrowed
    <2> QED
      BY <1>0, <1>8, <2>1, <2>2, <2>4, <2>5 DEF WitnessOf, Presented, Exists
  <1>9. CASE StoredUserRead(c) \/ AuthorityRead(c)
    <2>1. /\ pc[c] \in {"user", "authority"} /\ pc'[c] = "rotate"
          /\ tokens' = tokens
          /\ pc[c] = "user" => Refusals(c) = {}
          /\ attempt' = [attempt EXCEPT ![c].grants = Narrowed(c)]
      BY <1>0, <1>9
      DEF StoredUserRead, AuthorityRead, Prepare, Go, TypeOK, CallStep
    <2>2. attempt'[c].grants = Narrowed(c)
      BY <1>0, <2>1 DEF TypeOK, Attempt
    <2>3. Step(c)
      BY <1>9 DEF Step
    <2> QED
      BY <1>2, <1>8, <2>1, <2>2, <2>3
  <1>10. CASE HostUserRead(c)
    <2>1. /\ pc[c] = "user" /\ pc'[c] = "authority"
          /\ tokens' = tokens /\ Refusals(c) = {}
      BY <1>0, <1>10 DEF HostUserRead, Go, TypeOK, CallStep
    <2>2. Step(c)
      BY <1>10 DEF Step
    <2> QED
      BY <1>2, <1>8, <2>1, <2>2
  <1>11. CASE RotateWon(c)
    <2>1. /\ pc[c] = "rotate" /\ pc'[c] \in {"Ok", "observe"}
          /\ witness' = witness /\ users' = users /\ request' = request
      BY <1>0, <1>11 DEF RotateWon, Return, Go, TypeOK, world
    <2>2. tokens'[c].grants = attempt[c].grants
      <3>1. tokens'[c] = Replacement(c)
        BY <1>11, RotateEffect
      <3> QED
        BY <3>1 DEF Replacement
    <2>3. Running(c)' /\ request'[c].token # None =>
            users'[Presented(c)'.user] \in witness'[c]
      BY <1>0, <2>1, PresentedUser DEF WitnessOf, Running, Steps
    <2> QED
      BY <1>0, <2>1, <2>2, <2>3 DEF WitnessOf
  <1>12. ASSUME Step(c) \/ Fail(c), ~RotateWon(c),
                ~StoredUserRead(c), ~AuthorityRead(c), ~HostUserRead(c)
         PROVE  WitnessOf(c)'
    <2>1. pc[c] \in Steps
      BY <1>12
      DEF Step, Fail, FindUnknown, FindRevoked, FindExpired, FindCurrent,
          FindLogout, FindLogoutNoop, Found, GraceExhausted, GraceOpen,
          NewestFound, NewestRefused, UserRefused, RetryLost, RotateLost,
          Observe, Reread, RevokeFamily, RevokeToken, Running, Steps
    <2>2. \A e \in Refusals(c) : e \in Results
      BY DEF Refusals, Results
    <2>3. pc'[c] \notin {"authority", "rotate"}
      BY <1>0, <1>12, <2>2
      DEF Step, Fail, FindUnknown, FindRevoked, FindExpired, FindCurrent,
          FindLogout, FindLogoutNoop, GraceExhausted, GraceOpen,
          NewestFound, NewestRefused, UserRefused, RetryLost, RotateLost,
          Observe, Reread, RevokeFamily, RevokeToken, Keep, Return, Go, TypeOK,
          Results
    <2> QED
      BY <1>7, <1>12, <2>1, <2>3
  <1> QED
    BY <1>3, <1>4, <1>5, <1>6, <1>9, <1>10, <1>11, <1>12 DEF Next

\* Whatever the host changes while a call is in flight, the token the call
\* commits rests on an enabled user and on grants in force during the call.
THEOREM CurrentAuthority == Spec => []AuthorityIsCurrent
  <1>1. Init => WitnessInv
    BY DEF Init, WitnessInv, WitnessOf, Running, Steps, Exists, TokenId
  <1>2. ASSUME IndInv, WitnessInv, [Next]_vars PROVE WitnessInv'
    BY <1>2, WitnessInvStep DEF WitnessInv
  <1>3. WitnessInv => AuthorityIsCurrent
    BY DEF WitnessInv, WitnessOf, AuthorityIsCurrent
  <1> QED
    BY <1>1, <1>2, <1>3, Inductive, PTL DEF Spec

-----------------------------------------------------------------------------
(* A race is not taken for theft.                                          *)

\* Every step keeps the user and the source of a family.
LEMMA OwnerStep == ASSUME IndInv, OwnerInv, [Next]_vars PROVE OwnerInv'
  <1>0. TypeOK /\ RootInv /\ Persists
    BY Persistence DEF IndInv
  <1>1. \A i \in TokenId : Exists(i) => tokens[i].family \in TokenId
    BY <1>0 DEF TypeOK, Exists, TokenRecord, TokenId
  <1> SUFFICES ASSUME NEW i \in TokenId, Exists(i)'
               PROVE  /\ tokens'[i].user = tokens'[tokens'[i].family].user
                      /\ tokens'[i].source = tokens'[tokens'[i].family].source
    BY DEF OwnerInv
  <1>2. CASE Exists(i)
    <2>1. /\ tokens'[i].family = tokens[i].family
          /\ tokens'[i].user = tokens[i].user
          /\ tokens'[i].source = tokens[i].source
      BY <1>0, <1>2 DEF Persists, SameSession
    <2>2. tokens[i].family \in TokenId /\ Exists(tokens[i].family)
      BY <1>0, <1>1, <1>2 DEF RootInv
    <2>3. /\ tokens'[tokens[i].family].user = tokens[tokens[i].family].user
          /\ tokens'[tokens[i].family].source = tokens[tokens[i].family].source
      BY <1>0, <2>2 DEF Persists, SameSession
    <2> QED
      BY <1>2, <2>1, <2>3 DEF OwnerInv
  <1>3. CASE ~Exists(i) /\ i \in Families
    <2>1. tokens'[i].family = i
      BY <1>3, RootStep DEF RootInv
    <2> QED
      BY <2>1
  <1>4. CASE ~Exists(i) /\ i \in Calls
    <2>1. RotateWon(i)
      BY <1>4, MintedByItself
    <2>2. tokens'[i] = Replacement(i)
      BY <1>4, <2>1, RotateEffect
    <2>3. /\ tokens'[i].family = seen[i].family
          /\ tokens'[i].user = seen[i].user
          /\ tokens'[i].source = seen[i].source
      BY <2>2 DEF Replacement
    <2>4. SnapshotOf(i) /\ pc[i] = "rotate"
      BY <1>4, <2>1 DEF IndInv, CallsInv, RotateWon
    <2>5. PICK j \in TokenId : /\ j = request[i].token
                               /\ Exists(j)
                               /\ SameSession(seen[i], tokens[j])
      BY <1>0, <1>4, <2>4 DEF SnapshotOf, PastFind, TypeOK, Request, Presented
    <2>6. tokens[j].family \in TokenId /\ Exists(tokens[j].family)
      BY <1>0, <1>1, <2>5 DEF RootInv
    <2>7. /\ tokens'[tokens[j].family].user = tokens[tokens[j].family].user
          /\ tokens'[tokens[j].family].source = tokens[tokens[j].family].source
      BY <1>0, <2>6 DEF Persists, SameSession
    <2> QED
      BY <2>3, <2>5, <2>7 DEF OwnerInv, SameSession
  <1> QED
    BY <1>2, <1>3, <1>4 DEF TokenId

\* Nothing makes the system quiet again.
LEMMA QuietBefore ==
  ASSUME IndInv, [Next]_vars, \A c \in Calls : pc[c] = "idle" => Rotating(c),
         Quiet'
  PROVE  Quiet /\ clock <= clock'
  <1>0. TypeOK
    BY DEF IndInv
  <1>1. clock' \in Nat /\ clock <= clock' /\ clock' < GraceWindow
    <2>1. clock' = clock \/ Tick
      BY DEF Next, vars, world, UpdateUser, Issue, Begin, Fail, Step,
         FindUnknown, FindRevoked, FindExpired, FindCurrent,
         FindLogout, FindLogoutNoop, GraceExhausted, GraceOpen, NewestFound,
         NewestRefused, UserRefused, StoredUserRead, HostUserRead, AuthorityRead,
         RotateWon, RetryLost, RotateLost, Observe, Reread, RevokeFamily,
         RevokeToken, Prepare, Keep, CallStep
    <2> QED
      BY <1>0, <2>1 DEF TypeOK, Tick, Quiet
  <1>2. ASSUME NEW c \in Calls PROVE Rotating(c)
    <2>1. \/ request'[c] = request[c]
          \/ pc[c] = "idle"
      <3>1. ASSUME NEW d \in Calls, NEW k \in Kinds, NEW i \in Delivered \cup {None},
                   Begin(d, k, i)
            PROVE  request'[c] = request[c] \/ pc[c] = "idle"
        BY <1>0, <3>1 DEF Begin, TypeOK
      <3>2. ASSUME NEW d \in Calls, Step(d) \/ Fail(d)
            PROVE  request' = request
        BY <3>2 DEF Fail, Step,
           FindUnknown, FindRevoked, FindExpired, FindCurrent,
           FindLogout, FindLogoutNoop, GraceExhausted, GraceOpen, NewestFound,
           NewestRefused, UserRefused, StoredUserRead, HostUserRead, AuthorityRead,
           RotateWon, RetryLost, RotateLost, Observe, Reread, RevokeFamily,
           RevokeToken, Prepare, Keep, CallStep
      <3> QED
        BY <3>1, <3>2 DEF Next, vars, locals, Tick, UpdateUser, Issue
    <2> QED
      BY <2>1 DEF Quiet, Rotating
  <1>3. clock < GraceWindow
    BY <1>0, <1>1, ConfigAssumption DEF TypeOK
  <1> QED
    BY <1>1, <1>2, <1>3, Zenon DEF Quiet

\* A quiet system's store: nothing expires or ends, and what is revoked was
\* replaced.
LEMMA QuietStoreStep ==
  ASSUME IndInv, [Next]_vars, Quiet, QuietStore, clock' \in Nat, clock <= clock',
         \A c \in Calls : QuietCall(c)
  PROVE  QuietStore'
  <1>0. /\ TypeOK /\ RootInv /\ clock \in Nat /\ TTL \in Nat
    BY ConfigAssumption DEF IndInv, TypeOK
  <1>1. CASE tokens' = tokens
    BY <1>0, <1>1 DEF QuietStore, Live, Exists, Recent
  <1>2. ASSUME NEW f \in Families, NEW u \in Users, Issue(f, u)
        PROVE  QuietStore'
    <2>1. /\ f \in TokenId /\ ~Exists(f) /\ tokens'[f].family = f
          /\ tokens'[f].revoked_at = None
          /\ \A i \in TokenId \ {f} : tokens'[i] = tokens[i]
      BY <1>0, <1>2, IssueEffect
    <2>2. PICK g \in SUBSET Grants, s \in Sources, t \in Reading :
            tokens' = [tokens EXCEPT ![f] =
              [family |-> f, user |-> u, source |-> s, grants |-> g,
               assurance |-> "login", expires_at |-> t + TTL,
               revoked_at |-> None, replaced_by |-> None]]
      BY <1>2 DEF Issue
    <2>3. tokens'[f].expires_at = t + TTL
      BY <1>0, <2>1, <2>2 DEF TypeOK
    <2>4. t + TTL >= TTL
      BY <1>0, ConfigAssumption DEF Reading
    <2>5. Live(f)' = {f} /\ \A g1 \in Families \ {f} : Live(g1)' = Live(g1)
      BY <1>2, LiveIssue
    <2>6. \A i \in TokenId : Exists(i) => tokens[i].family \in Families
      BY <1>0 DEF TypeOK, Exists, TokenRecord
    <2>7. \A i \in TokenId : Exists(i)' => tokens'[i].family \in Families
      BY TypeStep DEF TypeOK, Exists, TokenRecord
    <2>8. ASSUME NEW i \in TokenId, Exists(i)'
          PROVE  /\ tokens'[i].expires_at >= TTL
                 /\ is_revoked(tokens'[i]) => Recent(tokens[i])'
                 /\ \A h \in Families : h = tokens'[i].family => Live(h)' # {}
      <3>1. CASE i = f
        BY <2>1, <2>3, <2>4, <2>5, <3>1 DEF is_revoked
      <3>2. CASE i # f
        <4>1. Exists(i) /\ tokens'[i] = tokens[i]
          BY <2>1, <2>8, <3>2 DEF Exists
        <4>2. \A h \in Families : h = tokens[i].family => Live(h)' # {}
          BY <2>5, <4>1 DEF QuietStore
        <4> QED
          BY <1>0, <4>1, <4>2 DEF QuietStore, Recent
      <3> QED
        BY <3>1, <3>2
    <2> QED
      BY <2>7, <2>8 DEF QuietStore
  <1>3. ASSUME NEW c \in Calls, RotateWon(c) PROVE QuietStore'
    <2>0. /\ pc[c] = "rotate" /\ SnapshotOf(c) /\ ReuseOf(c) /\ QuietCall(c)
      BY <1>3 DEF RotateWon, IndInv, CallsInv
    <2>1. /\ c \in TokenId /\ tokens'[c] = Replacement(c)
          /\ \A i \in TokenId \ {c, Target(c)} : tokens'[i] = tokens[i]
          /\ tokens'[Target(c)] = Superseded(tokens[Target(c)], c, RotatedAt(c))
          /\ Target(c) # c
      BY <1>3, RotateEffect
    <2>2. /\ Target(c) \in TokenId /\ Exists(Target(c))
          /\ tokens[Target(c)] \in TokenRecord
          /\ tokens[Target(c)].family = seen[c].family
          /\ RotatedAt(c) \in Int
      BY <1>0, <2>0, RotateTyped
    <2>3. RotatedAt(c) \in 0..clock
      BY <2>0 DEF RotatedAt, QuietCall
    <2>4. /\ tokens'[c].expires_at = RotatedAt(c) + TTL
          /\ tokens'[c].revoked_at = None
          /\ tokens'[c].family = seen[c].family
      BY <2>1 DEF Replacement
    <2>5. /\ tokens'[Target(c)].revoked_at = RotatedAt(c)
          /\ tokens'[Target(c)].replaced_by = c
      BY <2>1, <2>2, SupersededRecord
    <2>6. /\ SameSession(tokens'[Target(c)], tokens[Target(c)])
      BY <1>3, <2>2, Persistence DEF Persists
    <2>7. c # None
      BY IdentityAssumption DEF TokenId
    <2>8. \A g \in Families : Live(g) # {} => Live(g)' # {}
      <3>1. PICK f \in Families : /\ Live(f)' = {c}
                                  /\ \A g \in Families \ {f} : Live(g)' = Live(g)
        BY <1>3, LiveRotate
      <3> QED
        BY <3>1
    <2>9. \A i \in TokenId : Exists(i) => tokens[i].family \in Families
      BY <1>0 DEF TypeOK, Exists, TokenRecord
    <2>10. \A i \in TokenId : Exists(i) =>
             \A g \in Families : g = tokens[i].family => Live(g)' # {}
      BY <2>8 DEF QuietStore
    <2>11. \A i \in TokenId : Exists(i)' => tokens'[i].family \in Families
      BY TypeStep DEF TypeOK, Exists, TokenRecord
    <2>12. ASSUME NEW i \in TokenId, Exists(i)'
          PROVE  /\ tokens'[i].expires_at >= TTL
                 /\ is_revoked(tokens'[i]) => Recent(tokens[i])'
                 /\ \A h \in Families : h = tokens'[i].family => Live(h)' # {}
      <3>1. CASE i = c
        <4>1. \A h \in Families : h = tokens'[i].family => Live(h)' # {}
          BY <2>2, <2>4, <2>9, <2>10, <3>1
        <4> QED
          BY <1>0, <2>3, <2>4, <3>1, <4>1 DEF is_revoked
      <3>2. CASE i = Target(c)
        <4>1. /\ tokens'[i].expires_at = tokens[i].expires_at
              /\ tokens'[i].family = tokens[i].family
          BY <2>6, <3>2 DEF SameSession
        <4>2. \A h \in Families : h = tokens'[i].family => Live(h)' # {}
          BY <2>2, <2>9, <2>10, <3>2, <4>1
        <4>3. Recent(tokens[i])'
          BY <1>0, <2>3, <2>5, <2>7, <3>2 DEF Recent
        <4> QED
          BY <2>2, <3>2, <4>1, <4>2, <4>3 DEF QuietStore
      <3>3. CASE i # c /\ i # Target(c)
        <4>1. tokens'[i] = tokens[i] /\ Exists(i)
          BY <2>1, <2>12, <3>3 DEF Exists
        <4>2. \A h \in Families : h = tokens'[i].family => Live(h)' # {}
          BY <2>9, <2>10, <4>1
        <4> QED
          BY <1>0, <4>1, <4>2 DEF QuietStore, Recent
      <3> QED
        BY <3>1, <3>2, <3>3
    <2> QED
      BY <2>11, <2>12 DEF QuietStore
  <1>4. ASSUME NEW c \in Calls, RevokeFamily(c) \/ RevokeToken(c) PROVE FALSE
    BY <1>4 DEF RevokeFamily, RevokeToken, QuietCall
  <1> QED
    BY <1>1, <1>2, <1>3, <1>4, StoreSteps

\* A quiet system's calls: what a call reads is recent, and the reuse loop
\* always finds its window open and its family's live token replaceable.
LEMMA QuietCallStep ==
  ASSUME IndInv, OwnerInv, [Next]_vars, Quiet, Quiet', QuietStore,
         clock' \in Nat, clock <= clock', \A d \in Calls : QuietCall(d),
         NEW c \in Calls
  PROVE  QuietCall(c)'
  <1>0. /\ TypeOK /\ SnapshotOf(c) /\ ReuseOf(c) /\ QuietCall(c) /\ Rotating(c)
        /\ clock \in Nat /\ clock < GraceWindow /\ GraceWindow > 0
        /\ attempt[c] \in Attempt
    BY DEF IndInv, CallsInv, TypeOK, Quiet
  <1>r. Reading = {clock}
    BY <1>0 DEF Reading, Quiet
  <1>n. /\ TTL \in Nat /\ GraceWindow \in Nat /\ GraceWindow < TTL
        /\ MaxRetries \in Nat
    BY ConfigAssumption
  <1>1. ASSUME request'[c].entered = request[c].entered,
               attempt'[c].now \in 0..clock,
               Looping(c)' => Recent(seen'[c]),
               pc'[c] \notin {"revoke", "revoke_family", "Replay"}
        PROVE  QuietCall(c)'
    BY <1>0, <1>1 DEF QuietCall, Recent
  <1>2. ASSUME pc'[c] = pc[c], request'[c] = request[c], seen'[c] = seen[c],
               attempt'[c] = attempt[c]
        PROVE  QuietCall(c)'
    BY <1>0, <1>1, <1>2 DEF QuietCall, Looping
  <1>3. ASSUME NEW d \in Calls \ {c}, Step(d) \/ Fail(d) PROVE QuietCall(c)'
    BY <1>0, <1>2, <1>3, OneCallMoves
  <1>4. ASSUME NEW d \in Calls, NEW k \in Kinds, NEW i \in Delivered \cup {None},
               Begin(d, k, i)
        PROVE  QuietCall(c)'
    <2>1. CASE d = c
      <3>1. PICK t \in Reading :
              request' = [request EXCEPT ![c] =
                            [kind |-> k, token |-> i, entered |-> t]]
        BY <1>4, <2>1 DEF Begin
      <3>2. /\ request'[c].entered = t /\ attempt' = attempt
            /\ pc[c] = "idle" /\ pc'[c] = "find" /\ seen' = seen
        BY <1>0, <1>4, <2>1, <3>1 DEF Begin, Go, TypeOK
      <3>3. attempt[c].newest = None
        BY <1>0, <3>2 DEF ReuseOf
      <3>4. t \in 0..clock'
        BY <1>0, <1>r
      <3> QED
        BY <1>0, <3>2, <3>3, <3>4 DEF QuietCall, Looping
    <2>2. CASE d # c
      BY <1>0, <1>2, <1>4, <2>2 DEF Begin, Go, TypeOK
    <2> QED
      BY <2>1, <2>2
  <1>5. CASE UNCHANGED locals
    BY <1>2, <1>5 DEF locals
  <1>6. ASSUME NEW result, Return(c, result), request' = request,
               result \in Results \ {"Replay"}
        PROVE  QuietCall(c)'
    <2>1. pc'[c] = result /\ attempt'[c] = NoAttempt
      BY <1>0, <1>6 DEF Return, Go, TypeOK
    <2>2. ~Looping(c)'
      BY <1>6, <2>1 DEF Looping, NoAttempt, Results
    <2>3. attempt'[c].now \in 0..clock
      BY <1>0, <2>1 DEF NoAttempt
    <2> QED
      BY <1>1, <1>6, <2>1, <2>2, <2>3 DEF Results
  <1>7. CASE Fail(c) \/ FindUnknown(c) \/ FindLogoutNoop(c) \/ GraceExhausted(c)
             \/ Observe(c)
    BY <1>6, <1>7
    DEF Fail, FindUnknown, FindLogoutNoop, GraceExhausted, Observe, Results, CallStep
  <1>8. CASE UserRefused(c)
    <2>1. \A e \in Refusals(c) : e \in Results \ {"Replay"}
      BY DEF Refusals, Results
    <2> QED
      BY <1>6, <1>8, <2>1 DEF UserRefused, CallStep
  <1>9. ~RevokeFamily(c) /\ ~RevokeToken(c) /\ ~FindLogout(c)
    BY <1>0 DEF RevokeFamily, RevokeToken, FindLogout, QuietCall
  <1>10. ASSUME NEW r \in TokenRecord, r.expires_at >= TTL, NEW t \in 0..clock
         PROVE  ~is_expired(r, t)
    BY <1>0, <1>n, <1>10 DEF TokenRecord, is_expired
  <1>11. ASSUME Found(c) \/ Looping(c) \/ pc[c] = "reread"
         PROVE  /\ Presented(c) \in TokenRecord
                /\ Presented(c).expires_at >= TTL
                /\ is_revoked(Presented(c)) => Recent(Presented(c))
    <2>1. /\ request[c].token \in TokenId
          /\ Exists(request[c].token)
      BY <1>0, <1>11, LoopingCall DEF Found, SnapshotOf, PastFind, TypeOK, Request
    <2>2. Presented(c) \in TokenRecord
      BY <1>0, <2>1 DEF Presented, Exists, TypeOK
    <2> QED
      BY <2>1, <2>2 DEF QuietStore, Presented
  <1>12. CASE FindExpired(c)
    <2>1. Found(c) /\ is_expired(Presented(c), request[c].entered)
      BY <1>12 DEF FindExpired
    <2> QED
      BY <1>0, <1>10, <1>11, <2>1 DEF QuietCall
  <1>13. CASE FindCurrent(c)
    <2>1. /\ pc[c] = "find" /\ pc'[c] = "user" /\ attempt' = attempt
          /\ request' = request
      BY <1>0, <1>13 DEF FindCurrent, Found, Keep, Go, TypeOK, CallStep
    <2>2. attempt[c].newest = None
      BY <1>0, <2>1 DEF ReuseOf
    <2> QED
      BY <1>0, <1>1, <2>1, <2>2 DEF QuietCall, Looping
  <1>14. CASE FindRevoked(c) \/ Reread(c)
    <2>1. /\ pc'[c] = "grace" /\ attempt' = attempt /\ request' = request
          /\ seen'[c] = Presented(c)
          /\ Found(c) \/ pc[c] = "reread"
          /\ is_revoked(Presented(c))
      BY <1>0, <1>14
      DEF FindRevoked, Reread, Keep, Go, TypeOK, CallStep, ReuseOf
    <2> QED
      BY <1>0, <1>1, <1>11, <2>1 DEF QuietCall
  <1>15. CASE GraceOpen(c)
    <2>1. PICK t \in Reading :
            /\ attempt' = [attempt EXCEPT ![c].now = t]
            /\ Go(c, IF superseded_within(seen[c], t)
                     THEN "live" ELSE "revoke_family")
      BY <1>15 DEF GraceOpen
    <2>2. t = clock
      BY <1>r
    <2>3. pc[c] = "grace" /\ Looping(c)
      BY <1>15 DEF GraceOpen, Looping
    <2>4. /\ Recent(seen[c]) /\ seen[c] \in TokenRecord
          /\ seen[c].expires_at >= TTL
      BY <1>0, <1>11, <2>3, LoopingCall DEF QuietCall, SameSession
    <2>5. superseded_within(seen[c], t)
      <3>1. ~is_expired(seen[c], t)
        BY <1>0, <1>10, <2>2, <2>4
      <3>2. seen[c].revoked_at \in 0..clock /\ seen[c].replaced_by # None
        BY <2>4 DEF Recent
      <3>3. seen[c].revoked_at # None
        BY <1>0, <3>2, IdentityAssumption
      <3>4. t - seen[c].revoked_at < GraceWindow /\ seen[c].revoked_at - t < GraceWindow
        BY <1>0, <1>n, <2>2, <3>2
      <3> QED
        BY <3>1, <3>2, <3>3, <3>4 DEF superseded_within, is_revoked
    <2>6. /\ attempt'[c].now = t /\ pc'[c] = "live" /\ seen' = seen
          /\ request' = request
      BY <1>0, <1>15, <2>1, <2>5 DEF GraceOpen, Go, TypeOK, Attempt, CallStep
    <2> QED
      BY <1>0, <1>1, <2>2, <2>4, <2>6
  <1>16. CASE NewestFound(c)
    <2>1. PICK n \in Replaceable(c) : attempt' = [attempt EXCEPT ![c].newest = n]
      BY <1>16 DEF NewestFound
    <2>2. /\ attempt'[c].now = attempt[c].now
          /\ pc[c] = "live" /\ pc'[c] = "user" /\ seen' = seen /\ request' = request
      BY <1>0, <1>16, <2>1 DEF NewestFound, Go, TypeOK, Attempt, CallStep
    <2> QED
      BY <1>0, <1>1, <2>2 DEF QuietCall, Looping
  <1>17. ~NewestRefused(c)
    <2> SUFFICES ASSUME pc[c] = "live" PROVE Replaceable(c) # {}
      BY DEF NewestRefused
    <2>1. Looping(c)
      BY DEF Looping
    <2>2. PICK j \in TokenId :
            /\ Exists(j) /\ j = request[c].token
            /\ SameSession(seen[c], tokens[j])
            /\ seen[c].family \in Families
      BY <2>1, LoopingCall DEF Presented
    <2>3. PICK n \in Live(seen[c].family) : TRUE
      BY <2>2 DEF QuietStore, SameSession
    <2>4. Live(seen[c].family) = {n}
      BY <2>2, <2>3 DEF IndInv, OneLiveToken
    <2>5. find_live_refresh_tokens_in_family(seen[c].family) = {n}
      BY <2>4 DEF find_live_refresh_tokens_in_family, Quiet
    <2>6. /\ n \in TokenId /\ Exists(n) /\ tokens[n].family = seen[c].family
          /\ ~is_revoked(tokens[n])
      BY <2>3 DEF Live
    <2>7. /\ tokens[n].user = seen[c].user
          /\ tokens[n].source = seen[c].source
      BY <2>2, <2>6 DEF OwnerInv, SameSession
    <2>8. ~is_expired(tokens[n], attempt[c].now)
      BY <1>0, <1>10, <2>6 DEF QuietStore, QuietCall, TypeOK, Exists
    <2>9. can_replace_newest(seen[c], tokens[n], attempt[c].now)
      BY <2>6, <2>7, <2>8 DEF can_replace_newest
    <2> QED
      BY <2>5, <2>6, <2>9 DEF Replaceable
  <1>18. CASE StoredUserRead(c) \/ AuthorityRead(c) \/ HostUserRead(c) \/ RotateLost(c)
    <2>1. /\ attempt' = attempt \/ attempt' = [attempt EXCEPT ![c].grants = Narrowed(c)]
          /\ seen' = seen /\ request' = request
          /\ pc'[c] \in {"authority", "rotate", "reread"}
      BY <1>0, <1>18
      DEF StoredUserRead, AuthorityRead, HostUserRead, RotateLost, Prepare, Go,
          TypeOK, CallStep
    <2>2. /\ attempt'[c].newest = attempt[c].newest
          /\ attempt'[c].now = attempt[c].now
      BY <1>0, <2>1 DEF TypeOK, Attempt
    <2> QED
      BY <1>0, <1>1, <2>1, <2>2 DEF Looping, QuietCall
  <1>19. CASE RetryLost(c)
    <2>1. /\ seen' = seen /\ request' = request
          /\ attempt[c].newest # None
          /\ attempt'[c].now = 0
          /\ pc'[c] = "grace"
      BY <1>0, <1>19 DEF RetryLost, Go, TypeOK, CallStep, NoAttempt
    <2> QED
      BY <1>0, <1>1, <2>1 DEF Looping, QuietCall
  <1>20. CASE RotateWon(c)
    <2>1. CASE attempt[c].newest = None
      BY <1>6, <1>20, <2>1 DEF RotateWon, Results
    <2>2. CASE attempt[c].newest # None
      BY <1>0, <1>1, <1>20, <2>2 DEF RotateWon, Go, TypeOK, Looping, QuietCall
    <2> QED
      BY <2>1, <2>2
  <1>21. ASSUME Step(c) PROVE QuietCall(c)'
    BY <1>7, <1>8, <1>9, <1>12, <1>13, <1>14, <1>15, <1>16, <1>17, <1>18, <1>19,
       <1>20, <1>21
    DEF Step
  <1> QED
    BY <1>3, <1>4, <1>5, <1>7, <1>21 DEF Next, vars, Tick, UpdateUser, Issue

\* A call rotates until it is something else.
LEMMA IdleStep ==
  ASSUME IndInv, [Next]_vars, NEW c \in Calls, pc[c] = "idle" => Rotating(c),
         pc'[c] = "idle"
  PROVE  Rotating(c)'
  <1>0. TypeOK
    BY DEF IndInv
  <1>1. ASSUME NEW d \in Calls, NEW k \in Kinds, NEW i \in Delivered \cup {None},
               Begin(d, k, i)
        PROVE  pc[c] = "idle" /\ request'[c] = request[c]
    BY <1>0, <1>1 DEF Begin, Go, TypeOK
  <1>2. ASSUME NEW d \in Calls \ {c}, Step(d) \/ Fail(d)
        PROVE  pc[c] = "idle" /\ request'[c] = request[c]
    BY <1>0, <1>2, OneCallMoves
  <1>3. ~Fail(c)
    BY <1>0 DEF Fail, Return, Go, TypeOK
  <1>4. ~Step(c)
    <2>1. \A e \in Refusals(c) : e # "idle"
      BY DEF Refusals
    <2> QED
      BY <1>0, <2>1
      DEF Step, FindUnknown, FindRevoked, FindExpired, FindCurrent,
          FindLogout, FindLogoutNoop, GraceExhausted, GraceOpen, NewestFound,
          NewestRefused, UserRefused, StoredUserRead, HostUserRead, AuthorityRead,
          RotateWon, RetryLost, RotateLost, Observe, Reread, RevokeFamily,
          RevokeToken, Prepare, Keep, Return, Go, TypeOK
  <1>5. CASE UNCHANGED locals
    BY <1>5 DEF locals, Rotating
  <1> QED
    BY <1>1, <1>2, <1>3, <1>4, <1>5
    DEF Next, vars, Tick, UpdateUser, Issue, Rotating

\* With the grace on, no schedule of concurrent refreshes and retries inside
\* the window is reported as replay, for any number of calls and families.
THEOREM RaceTolerated == Spec => []RaceIsNotReplay
  <1>1. Init => QuietInv
    BY DEF Init, QuietInv, OwnerInv, Quiet, QuietStore, QuietCall, Looping,
       NoRequest, NoAttempt, Rotating, Exists
  <1>2. ASSUME IndInv, QuietInv, [Next]_vars PROVE QuietInv'
    <2>1. OwnerInv'
      BY <1>2, OwnerStep DEF QuietInv
    <2>2. \A c \in Calls : pc'[c] = "idle" => Rotating(c)'
      BY <1>2, IdleStep DEF QuietInv
    <2>3. ASSUME Quiet' PROVE QuietStore' /\ \A c \in Calls : QuietCall(c)'
      <3>1. Quiet /\ clock <= clock' /\ clock' \in Nat
        BY <1>2, <2>3, QuietBefore, TypeStep DEF QuietInv, TypeOK
      <3>2. QuietStore /\ OwnerInv /\ \A c \in Calls : QuietCall(c)
        BY <1>2, <3>1 DEF QuietInv
      <3> QED
        BY <1>2, <2>3, <3>1, <3>2, QuietStoreStep, QuietCallStep
    <2> QED
      BY <2>1, <2>2, <2>3 DEF QuietInv
  <1>3. QuietInv => RaceIsNotReplay
    BY DEF QuietInv, Quiet, QuietCall, RaceIsNotReplay
  <1> QED
    BY <1>1, <1>2, <1>3, Inductive, PTL DEF Spec
=============================================================================
