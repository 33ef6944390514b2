-------------------------- MODULE CredentialsProofs --------------------------
(***************************************************************************)
(* Theorems about reset tokens, TOTP steps and API tokens, for any number  *)
(* of credentials and of concurrent calls, and any lifetime, period, skew  *)
(* and number of codes.                                                    *)
(***************************************************************************)
EXTENDS Credentials, WellFoundedInduction, TLAPS

\* A call has a credential of its own kind while it runs, and is only where a
\* call of that kind can be.
KindInv ==
    \A c \in Calls :
      /\ pc[c] \notin {"idle", "failed"} =>
           /\ kind[c] \in {"reset", "totp", "plain", "api"}
           /\ kind[c] = "reset" => given[c] \in Resets
           /\ kind[c] = "api" => given[c] \in Tokens
           /\ kind[c] \in {"totp", "plain"} => given[c] \in 0..(Codes - 1)
      /\ pc[c] \in {"gate", "record", "clear"} => kind[c] # "api"
      /\ pc[c] \in {"find", "touch"} => kind[c] = "api"
      /\ pc[c] \in {"consume", "again", "replayed"} => kind[c] \in {"reset", "totp"}

\* Where a call is whose code belongs to a step.
Matched == {"consume", "clear", "ok", "again", "replayed"}

\* After the decision, what was presented was good when the call began, and no
\* later step can make it otherwise: an issued token keeps its expiry.
ValidInv ==
    \A c \in Calls :
      /\ start[c] <= clock
      /\ kind[c] = "reset" /\ pc[c] \in {"consume", "clear", "ok"} =>
           reset[given[c]] # "new" /\ expires_at[given[c]] > start[c]
      /\ kind[c] = "api" /\ pc[c] \in {"touch", "ok"} =>
           /\ api[given[c]] = "stored"
           /\ expires_at[given[c]] > start[c]
           /\ revoked_at[given[c]] = None \/ revoked_at[given[c]] >= start[c]
      /\ kind[c] \in {"totp", "plain"} /\ pc[c] \in Matched =>
           /\ step[c] \in Window(start[c]) \cap Steps
           /\ CodeOf(step[c]) = given[c]

\* The history of who spent what agrees with the stores, and a call that has
\* not yet spent anything appears nowhere in it.
SpenderInv ==
    /\ \A t \in Resets : (spender[t] = None) <=> (reset[t] # "spent")
    /\ \A s \in Steps : (spender[s] = None) <=> (s \notin used)
    /\ \A x \in Resets \cup Steps, c \in Calls :
         spender[x] = c => pc[c] \in {"clear", "ok", "failed"}
    /\ \A c \in Calls :
         /\ kind[c] \in {"reset", "totp"} /\ pc[c] \in {"clear", "ok"} =>
              spender[Spends(c)] = c
         /\ pc[c] \in {"again", "replayed"} =>
              \/ spender[Spends(c)] \notin {None, c}
              \/ kind[c] = "reset" /\ spender[Spends(c)] = None

\* Who has paid.
ChargeInv ==
    \A c \in Calls :
      /\ pc[c] \notin {"invalid", "replayed"} => charged[c] = {}
      /\ pc[c] \in {"replayed", "invalid"} /\ kind[c] # "api" =>
           /\ "client" \in charged[c] <=> client[c]
           /\ "principal" \in charged[c] <=> pc[c] = "replayed" \/ kind[c] # "reset"

IndInv == TypeOK /\ KindInv /\ ValidInv /\ SpenderInv /\ ChargeInv

-----------------------------------------------------------------------------
(* Arithmetic of time steps.                                               *)

\* A time lies in the period of its step.
LEMMA StepBounds ==
  ASSUME NEW t \in Nat
  PROVE  /\ totp_step(t) \in Nat
         /\ Period * totp_step(t) <= t
         /\ t < Period * totp_step(t) + Period
  BY CredentialsAssumption DEF totp_step

\* Multiples of the period are ordered like their factors.
LEMMA Multiples ==
  ASSUME NEW a \in Int, NEW b \in Int, a <= b
  PROVE  Period * a <= Period * b
  BY CredentialsAssumption

\* A later time has no earlier step.
LEMMA StepMonotone ==
  ASSUME NEW t \in Nat, NEW u \in Nat, t <= u
  PROVE  totp_step(t) <= totp_step(u)
  <1>1. SUFFICES ASSUME totp_step(t) >= totp_step(u) + 1 PROVE FALSE
    BY StepBounds
  <1>2. Period * (totp_step(u) + 1) <= Period * totp_step(t)
    BY <1>1, StepBounds, Multiples
  <1>3. Period * (totp_step(u) + 1) = Period * totp_step(u) + Period
    BY StepBounds, CredentialsAssumption
  <1> QED
    BY <1>2, <1>3, StepBounds, CredentialsAssumption

\* A non-empty set of natural numbers has a least element, which Min finds.
LEMMA MinOfNaturals ==
  ASSUME NEW S \in SUBSET Nat, S # {} PROVE Min(S) \in S
  <1> DEFINE Less == {p \in Nat \X Nat : p[1] < p[2]}
  <1>1. IsWellFoundedOn(Less, Nat)
    BY NatLessThanWellFounded DEF OpToRel
  <1>2. PICK x \in S : \A y \in S : ~(<<y, x>> \in Less)
    BY <1>1, WFMin
  <1>3. ASSUME NEW y \in S, y < x PROVE FALSE
    <2>1. <<y, x>> \in Nat \X Nat /\ <<y, x>>[1] = y /\ <<y, x>>[2] = x
      OBVIOUS
    <2>2. <<y, x>> \in Less
      BY <1>3, <2>1
    <2> QED
      BY <1>2, <2>2
  <1>4. \A y \in S : x <= y
    BY <1>3
  <1> QED
    BY <1>4 DEF Min

\* The step that a code is matched with.
LEMMA MatchedStep ==
  ASSUME NEW code, NEW t \in 0..MaxClock, Matching(code, t) # {}
  PROVE  /\ Min(Matching(code, t)) \in Window(t) \cap Steps
         /\ CodeOf(Min(Matching(code, t))) = code
  <1>1. Matching(code, t) \in SUBSET Nat
    BY StepBounds, CredentialsAssumption DEF Matching, Window
  <1>2. Min(Matching(code, t)) \in Matching(code, t)
    BY <1>1, MinOfNaturals
  <1>3. totp_step(t) <= totp_step(MaxClock)
    BY StepMonotone, CredentialsAssumption
  <1>4. Window(t) \cap Nat \subseteq Steps
    BY <1>3, StepBounds, CredentialsAssumption DEF Window, Steps, totp_step
  <1> QED
    BY <1>1, <1>2, <1>4 DEF Matching

-----------------------------------------------------------------------------
(* Each part of the invariant is kept by each action.                      *)

\* What Next lets a call of a kind present.
Fits(k, x) ==
    \/ k = "reset" /\ x \in Resets
    \/ k = "api" /\ x \in Tokens
    \/ k \in {"totp", "plain"} /\ x \in 0..(Codes - 1)

\* Every step keeps the types.
LEMMA TypeStep ==
  ASSUME IndInv, [Next]_vars PROVE TypeOK'
  <1>0. TypeOK /\ KindInv /\ ValidInv
    BY DEF IndInv
  <1>1. CASE Tick
    BY <1>0, <1>1, CredentialsAssumption DEF Tick, issued, locals, history,
       TypeOK, Ended, Issuable
  <1>2. ASSUME NEW t \in Resets, SignReset(t) PROVE TypeOK'
    BY <1>0, <1>2, CredentialsAssumption DEF SignReset, locals, history,
       TypeOK, Ended, Issuable
  <1>3. ASSUME NEW t \in Resets, insert_password_reset_token(t) PROVE TypeOK'
    BY <1>0, <1>3 DEF insert_password_reset_token, locals, history, TypeOK,
       Ended, Issuable
  <1>4. ASSUME NEW t \in Tokens, issue_token(t) PROVE TypeOK'
    BY <1>0, <1>4, CredentialsAssumption DEF issue_token, locals, history,
       TypeOK, Ended, Issuable
  <1>5. ASSUME NEW t \in Tokens, revoke_token(t) PROVE TypeOK'
    BY <1>0, <1>5, CredentialsAssumption DEF revoke_token, locals, history,
       TypeOK, Ended, Issuable
  <1>6. ASSUME NEW c \in Calls, NEW k, NEW x, NEW ip \in BOOLEAN,
             Fits(k, x), Begin(c, k, x, ip)
        PROVE  TypeOK'
    BY <1>0, <1>6 DEF Begin, Fits, Goto, issued, history, TypeOK, Ended,
       Issuable
  <1>7. ASSUME NEW c \in Calls, AuthenticateReset(c) PROVE TypeOK'
    BY <1>0, <1>7 DEF AuthenticateReset, Goto, issued, locals, history,
       TypeOK, Ended, Issuable, KindInv
  <1>8. ASSUME NEW c \in Calls, VerifyTotp(c) PROVE TypeOK'
    <2>1. step' \in [Calls -> Steps \cup {None}]
      BY <1>0, <1>8, MatchedStep DEF VerifyTotp, TypeOK, KindInv
    <2> QED
      BY <1>0, <1>8, <2>1 DEF VerifyTotp, Goto, issued, history, TypeOK, Ended
  <1>9. ASSUME NEW c \in Calls, Consume(c) PROVE TypeOK'
    BY <1>0, <1>9, CredentialsAssumption DEF Consume, Unspent, Goto, locals,
       TypeOK, Ended, Issuable, KindInv, ValidInv, Matched, Spends
  <1>10. ASSUME NEW c \in Calls, Clear(c) PROVE TypeOK'
    BY <1>0, <1>10 DEF Clear, Goto, issued, locals, history, TypeOK, Ended,
       Issuable
  <1>11. ASSUME NEW c \in Calls, Record(c) PROVE TypeOK'
    BY <1>0, <1>11 DEF Record, KeysOf, Goto, issued, locals, TypeOK, Ended,
       Issuable
  <1>12. ASSUME NEW c \in Calls, FindToken(c) PROVE TypeOK'
    BY <1>0, <1>12 DEF FindToken, Goto, issued, locals, history, TypeOK,
       Ended, Issuable
  <1>13. ASSUME NEW c \in Calls, touch_api_token(c) PROVE TypeOK'
    BY <1>0, <1>13, CredentialsAssumption DEF touch_api_token, Goto, locals,
       history, TypeOK, Ended, Issuable, KindInv
  <1>14. ASSUME NEW c \in Calls, Fail(c) PROVE TypeOK'
    BY <1>0, <1>14, CredentialsAssumption DEF Fail, Goto, issued, history,
       TypeOK, Ended, Issuable
  <1>15. CASE UNCHANGED vars
    BY <1>0, <1>15 DEF vars, issued, locals, history, TypeOK, Ended, Issuable
  <1>16. ASSUME NEW c \in Calls, VerifyTotpUnusable(c) PROVE TypeOK'
    BY <1>0, <1>16 DEF VerifyTotpUnusable, Goto, issued, locals, history, TypeOK,
       Ended, Issuable
  <1> QED
    BY <1>1, <1>2, <1>3, <1>4, <1>5, <1>6, <1>7, <1>8, <1>9, <1>10, <1>11,
       <1>12, <1>13, <1>14, <1>15, <1>16 DEF Next, Fits

\* Every step keeps KindInv.
LEMMA KindStep ==
  ASSUME IndInv, [Next]_vars PROVE KindInv'
  <1>0. TypeOK /\ KindInv
    BY DEF IndInv
  <1>1. CASE Tick
    BY <1>0, <1>1 DEF Tick, issued, locals, history, TypeOK, Ended, KindInv
  <1>2. ASSUME NEW t \in Resets, SignReset(t) PROVE KindInv'
    BY <1>0, <1>2 DEF SignReset, locals, history, TypeOK, Ended, KindInv
  <1>3. ASSUME NEW t \in Resets, insert_password_reset_token(t) PROVE KindInv'
    BY <1>0, <1>3 DEF insert_password_reset_token, locals, history, TypeOK,
       Ended, KindInv
  <1>4. ASSUME NEW t \in Tokens, issue_token(t) PROVE KindInv'
    BY <1>0, <1>4 DEF issue_token, locals, history, TypeOK, Ended, KindInv
  <1>5. ASSUME NEW t \in Tokens, revoke_token(t) PROVE KindInv'
    BY <1>0, <1>5 DEF revoke_token, locals, history, TypeOK, Ended, KindInv
  <1>6. ASSUME NEW c \in Calls, NEW k, NEW x, NEW ip \in BOOLEAN,
             Fits(k, x), Begin(c, k, x, ip)
        PROVE  KindInv'
    BY <1>0, <1>6 DEF Begin, Fits, Goto, issued, history, TypeOK, Ended,
       KindInv
  <1>7. ASSUME NEW c \in Calls, AuthenticateReset(c) PROVE KindInv'
    BY <1>0, <1>7 DEF AuthenticateReset, Goto, issued, locals, history,
       TypeOK, Ended, KindInv
  <1>8. ASSUME NEW c \in Calls, VerifyTotp(c) PROVE KindInv'
    BY <1>0, <1>8 DEF VerifyTotp, Goto, issued, history, TypeOK, Ended,
       KindInv
  <1>9. ASSUME NEW c \in Calls, Consume(c) PROVE KindInv'
    BY <1>0, <1>9 DEF Consume, Unspent, Goto, locals, TypeOK, Ended, KindInv
  <1>10. ASSUME NEW c \in Calls, Clear(c) PROVE KindInv'
    BY <1>0, <1>10 DEF Clear, Goto, issued, locals, history, TypeOK, Ended,
       KindInv
  <1>11. ASSUME NEW c \in Calls, Record(c) PROVE KindInv'
    BY <1>0, <1>11 DEF Record, KeysOf, Goto, issued, locals, TypeOK, Ended,
       KindInv
  <1>12. ASSUME NEW c \in Calls, FindToken(c) PROVE KindInv'
    BY <1>0, <1>12 DEF FindToken, Goto, issued, locals, history, TypeOK,
       Ended, KindInv
  <1>13. ASSUME NEW c \in Calls, touch_api_token(c) PROVE KindInv'
    BY <1>0, <1>13 DEF touch_api_token, Goto, locals, history, TypeOK, Ended,
       KindInv
  <1>14. ASSUME NEW c \in Calls, Fail(c) PROVE KindInv'
    BY <1>0, <1>14 DEF Fail, Goto, issued, history, TypeOK, Ended, KindInv
  <1>15. CASE UNCHANGED vars
    BY <1>0, <1>15 DEF vars, issued, locals, history, TypeOK, Ended, KindInv
  <1>16. ASSUME NEW c \in Calls, VerifyTotpUnusable(c) PROVE KindInv'
    BY <1>0, <1>16 DEF VerifyTotpUnusable, Goto, issued, locals, history, TypeOK,
       Ended, KindInv
  <1> QED
    BY <1>1, <1>2, <1>3, <1>4, <1>5, <1>6, <1>7, <1>8, <1>9, <1>10, <1>11,
       <1>12, <1>13, <1>14, <1>15, <1>16 DEF Next, Fits

\* Every step keeps ValidInv.
LEMMA ValidStep ==
  ASSUME IndInv, [Next]_vars PROVE ValidInv'
  <1>0. TypeOK /\ KindInv /\ ValidInv
    BY DEF IndInv
  <1>1. CASE Tick
    BY <1>0, <1>1, CredentialsAssumption DEF Tick, issued, locals, history,
       TypeOK, KindInv, ValidInv, Matched
  <1>2. ASSUME NEW t \in Resets, SignReset(t) PROVE ValidInv'
    BY <1>0, <1>2, CredentialsAssumption DEF SignReset, locals, history,
       TypeOK, KindInv, ValidInv, Matched, Issuable
  <1>3. ASSUME NEW t \in Resets, insert_password_reset_token(t)
        PROVE  ValidInv'
    BY <1>0, <1>3 DEF insert_password_reset_token, locals, history, TypeOK,
       KindInv, ValidInv, Matched
  <1>4. ASSUME NEW t \in Tokens, issue_token(t) PROVE ValidInv'
    BY <1>0, <1>4, CredentialsAssumption DEF issue_token, locals, history,
       TypeOK, KindInv, ValidInv, Matched, Issuable
  <1>5. ASSUME NEW t \in Tokens, revoke_token(t) PROVE ValidInv'
    BY <1>0, <1>5, CredentialsAssumption DEF revoke_token, locals, history,
       TypeOK, KindInv, ValidInv, Matched
  <1>6. ASSUME NEW c \in Calls, NEW k, NEW x, NEW ip \in BOOLEAN,
             Fits(k, x), Begin(c, k, x, ip)
        PROVE  ValidInv'
    BY <1>0, <1>6 DEF Begin, Fits, Goto, issued, history, TypeOK, KindInv,
       ValidInv, Matched
  <1>7. ASSUME NEW c \in Calls, AuthenticateReset(c) PROVE ValidInv'
    BY <1>0, <1>7, CredentialsAssumption DEF AuthenticateReset, Goto, issued,
       locals, history, TypeOK, KindInv, ValidInv, Matched, Issuable
  <1>8. ASSUME NEW c \in Calls, VerifyTotp(c) PROVE ValidInv'
    <2>1. CASE Matching(given[c], start[c]) = {}
      BY <1>0, <1>8, <2>1 DEF VerifyTotp, Goto, issued, history, TypeOK, KindInv,
         ValidInv, Matched
    <2>2. CASE Matching(given[c], start[c]) # {}
      <3>1. /\ step'[c] \in Window(start[c]) \cap Steps
            /\ CodeOf(step'[c]) = given[c]
        BY <1>0, <1>8, <2>2, MatchedStep DEF VerifyTotp, TypeOK
      <3> QED
        BY <1>0, <1>8, <2>2, <3>1
        DEF VerifyTotp, Goto, issued, history, TypeOK, KindInv,
           ValidInv, Matched
    <2> QED
      BY <2>1, <2>2
  <1>9. ASSUME NEW c \in Calls, Consume(c) PROVE ValidInv'
    BY <1>0, <1>9 DEF Consume, Unspent, Goto, locals, TypeOK, KindInv,
       ValidInv, Matched
  <1>10. ASSUME NEW c \in Calls, Clear(c) PROVE ValidInv'
    BY <1>0, <1>10 DEF Clear, Goto, issued, locals, history, TypeOK, KindInv,
       ValidInv, Matched
  <1>11. ASSUME NEW c \in Calls, Record(c) PROVE ValidInv'
    BY <1>0, <1>11 DEF Record, KeysOf, Goto, issued, locals, TypeOK, KindInv,
       ValidInv, Matched
  <1>12. ASSUME NEW c \in Calls, FindToken(c) PROVE ValidInv'
    BY <1>0, <1>12, CredentialsAssumption DEF FindToken, Goto, issued, locals,
       history, TypeOK, KindInv, ValidInv, Matched, Issuable
  <1>13. ASSUME NEW c \in Calls, touch_api_token(c) PROVE ValidInv'
    BY <1>0, <1>13 DEF touch_api_token, Goto, locals, history, TypeOK,
       KindInv, ValidInv, Matched
  <1>14. ASSUME NEW c \in Calls, Fail(c) PROVE ValidInv'
    BY <1>0, <1>14 DEF Fail, Goto, issued, history, TypeOK, KindInv, ValidInv,
       Matched
  <1>15. CASE UNCHANGED vars
    BY <1>0, <1>15 DEF vars, issued, locals, history, TypeOK, KindInv,
       ValidInv, Matched
  <1>16. ASSUME NEW c \in Calls, VerifyTotpUnusable(c) PROVE ValidInv'
    BY <1>0, <1>16, CredentialsAssumption DEF VerifyTotpUnusable, Goto, issued, locals,
       history, TypeOK, KindInv, ValidInv, Matched, Issuable
  <1> QED
    BY <1>1, <1>2, <1>3, <1>4, <1>5, <1>6, <1>7, <1>8, <1>9, <1>10, <1>11,
       <1>12, <1>13, <1>14, <1>15, <1>16 DEF Next, Fits

\* Every step keeps SpenderInv.
LEMMA SpenderStep ==
  ASSUME IndInv, [Next]_vars PROVE SpenderInv'
  <1>0. TypeOK /\ KindInv /\ ValidInv /\ SpenderInv
    BY DEF IndInv
  <1>1. CASE Tick
    BY <1>0, <1>1 DEF Tick, issued, locals, history, TypeOK, KindInv,
       SpenderInv, Spends
  <1>2. ASSUME NEW t \in Resets, SignReset(t) PROVE SpenderInv'
    BY <1>0, <1>2 DEF SignReset, locals, history, TypeOK, KindInv, SpenderInv,
       Spends
  <1>3. ASSUME NEW t \in Resets, insert_password_reset_token(t)
        PROVE  SpenderInv'
    BY <1>0, <1>3 DEF insert_password_reset_token, locals, history, TypeOK,
       KindInv, SpenderInv, Spends
  <1>4. ASSUME NEW t \in Tokens, issue_token(t) PROVE SpenderInv'
    BY <1>0, <1>4 DEF issue_token, locals, history, TypeOK, KindInv,
       SpenderInv, Spends
  <1>5. ASSUME NEW t \in Tokens, revoke_token(t) PROVE SpenderInv'
    BY <1>0, <1>5 DEF revoke_token, locals, history, TypeOK, KindInv,
       SpenderInv, Spends
  <1>6. ASSUME NEW c \in Calls, NEW k, NEW x, NEW ip \in BOOLEAN,
             Fits(k, x), Begin(c, k, x, ip)
        PROVE  SpenderInv'
    BY <1>0, <1>6 DEF Begin, Fits, Goto, issued, history, TypeOK, KindInv,
       SpenderInv, Spends
  <1>7. ASSUME NEW c \in Calls, AuthenticateReset(c) PROVE SpenderInv'
    BY <1>0, <1>7 DEF AuthenticateReset, Goto, issued, locals, history,
       TypeOK, KindInv, SpenderInv, Spends
  <1>8. ASSUME NEW c \in Calls, VerifyTotp(c) PROVE SpenderInv'
    BY <1>0, <1>8 DEF VerifyTotp, Goto, issued, history, TypeOK, KindInv,
       SpenderInv, Spends, ValidInv, Matched
  <1>9. ASSUME NEW c \in Calls, Consume(c) PROVE SpenderInv'
    <2>1. Spends(c) \in Resets \cup Steps
      BY <1>0, <1>9 DEF Consume, Spends, TypeOK, KindInv, ValidInv, Matched
    <2>2. CASE Unspent(c)
      <3>1. /\ pc' = [pc EXCEPT ![c] = "clear"]
            /\ spender' = [spender EXCEPT ![Spends(c)] = c]
            /\ \A d \in Calls : kind'[d] = kind[d] /\ Spends(d)' = Spends(d)
        BY <1>9, <2>2 DEF Consume, Goto, locals, Spends
      <3>2. spender[Spends(c)] = None
        BY <1>0, <1>9, <2>1, <2>2, CredentialsAssumption DEF Consume, Unspent,
           Spends, TypeOK, KindInv, SpenderInv, Steps
      <3>3. \A t \in Resets : (spender'[t] = None) <=> (reset'[t] # "spent")
        BY <1>0, <1>9, <2>1, <2>2, <3>1, CredentialsAssumption DEF Consume, Unspent,
           Spends, TypeOK, KindInv, SpenderInv, Steps
      <3>4. \A s \in Steps : (spender'[s] = None) <=> (s \notin used')
        BY <1>0, <1>9, <2>1, <2>2, <3>1, CredentialsAssumption DEF Consume, Unspent,
           Spends, TypeOK, KindInv, SpenderInv, Steps
      <3>5. \A x \in Resets \cup Steps, d \in Calls :
               spender'[x] = d => pc'[d] \in {"clear", "ok", "failed"}
        BY <1>0, <1>9, <2>1, <3>1 DEF Consume, TypeOK, SpenderInv
      <3>6. ASSUME NEW d \in Calls
            PROVE  /\ kind[d] \in {"reset", "totp"} /\ pc'[d] \in {"clear", "ok"} =>
                        spender'[Spends(d)] = d
                   /\ pc'[d] \in {"again", "replayed"} =>
                        \/ spender'[Spends(d)] \notin {None, d}
                        \/ kind[d] = "reset" /\ spender'[Spends(d)] = None
        BY <1>0, <1>9, <2>1, <3>1, <3>2, CredentialsAssumption DEF Consume, TypeOK,
           SpenderInv
      <3> QED
        BY <3>1, <3>3, <3>4, <3>5, <3>6 DEF SpenderInv
    <2>4. CASE ~Unspent(c)
      BY <1>0, <1>9, <2>1, <2>4 DEF Consume, Unspent, Goto, locals, TypeOK, KindInv,
         SpenderInv, Spends
    <2> QED
      BY <2>2, <2>4
  <1>10. ASSUME NEW c \in Calls, Clear(c) PROVE SpenderInv'
    BY <1>0, <1>10 DEF Clear, Goto, issued, locals, history, TypeOK, KindInv,
       SpenderInv, Spends
  <1>11. ASSUME NEW c \in Calls, Record(c) PROVE SpenderInv'
    BY <1>0, <1>11 DEF Record, KeysOf, Goto, issued, locals, TypeOK, KindInv,
       SpenderInv, Spends
  <1>12. ASSUME NEW c \in Calls, FindToken(c) PROVE SpenderInv'
    BY <1>0, <1>12 DEF FindToken, Goto, issued, locals, history, TypeOK,
       KindInv, SpenderInv, Spends
  <1>13. ASSUME NEW c \in Calls, touch_api_token(c) PROVE SpenderInv'
    BY <1>0, <1>13 DEF touch_api_token, Goto, locals, history, TypeOK,
       KindInv, SpenderInv, Spends
  <1>14. ASSUME NEW c \in Calls, Fail(c) PROVE SpenderInv'
    BY <1>0, <1>14 DEF Fail, Goto, issued, history, TypeOK, KindInv,
       SpenderInv, Spends
  <1>15. CASE UNCHANGED vars
    BY <1>0, <1>15 DEF vars, issued, locals, history, TypeOK, KindInv,
       SpenderInv, Spends
  <1>16. ASSUME NEW c \in Calls, VerifyTotpUnusable(c) PROVE SpenderInv'
    BY <1>0, <1>16 DEF VerifyTotpUnusable, Goto, issued, locals, history, TypeOK,
       KindInv, SpenderInv, Spends
  <1> QED
    BY <1>1, <1>2, <1>3, <1>4, <1>5, <1>6, <1>7, <1>8, <1>9, <1>10, <1>11,
       <1>12, <1>13, <1>14, <1>15, <1>16 DEF Next, Fits

\* Every step keeps ChargeInv.
LEMMA ChargeStep ==
  ASSUME IndInv, [Next]_vars PROVE ChargeInv'
  <1>0. TypeOK /\ KindInv /\ ChargeInv
    BY DEF IndInv
  <1>1. CASE Tick
    BY <1>0, <1>1 DEF Tick, issued, locals, history, TypeOK, KindInv,
       ChargeInv
  <1>2. ASSUME NEW t \in Resets, SignReset(t) PROVE ChargeInv'
    BY <1>0, <1>2 DEF SignReset, locals, history, TypeOK, KindInv, ChargeInv
  <1>3. ASSUME NEW t \in Resets, insert_password_reset_token(t)
        PROVE  ChargeInv'
    BY <1>0, <1>3 DEF insert_password_reset_token, locals, history, TypeOK,
       KindInv, ChargeInv
  <1>4. ASSUME NEW t \in Tokens, issue_token(t) PROVE ChargeInv'
    BY <1>0, <1>4 DEF issue_token, locals, history, TypeOK, KindInv, ChargeInv
  <1>5. ASSUME NEW t \in Tokens, revoke_token(t) PROVE ChargeInv'
    BY <1>0, <1>5 DEF revoke_token, locals, history, TypeOK, KindInv,
       ChargeInv
  <1>6. ASSUME NEW c \in Calls, NEW k, NEW x, NEW ip \in BOOLEAN,
             Fits(k, x), Begin(c, k, x, ip)
        PROVE  ChargeInv'
    BY <1>0, <1>6 DEF Begin, Fits, Goto, issued, history, TypeOK, KindInv,
       ChargeInv
  <1>7. ASSUME NEW c \in Calls, AuthenticateReset(c) PROVE ChargeInv'
    BY <1>0, <1>7 DEF AuthenticateReset, Goto, issued, locals, history,
       TypeOK, KindInv, ChargeInv
  <1>8. ASSUME NEW c \in Calls, VerifyTotp(c) PROVE ChargeInv'
    BY <1>0, <1>8 DEF VerifyTotp, Goto, issued, history, TypeOK, KindInv,
       ChargeInv
  <1>9. ASSUME NEW c \in Calls, Consume(c) PROVE ChargeInv'
    BY <1>0, <1>9 DEF Consume, Unspent, Goto, locals, TypeOK, KindInv,
       ChargeInv
  <1>10. ASSUME NEW c \in Calls, Clear(c) PROVE ChargeInv'
    BY <1>0, <1>10 DEF Clear, Goto, issued, locals, history, TypeOK, KindInv,
       ChargeInv
  <1>11. ASSUME NEW c \in Calls, Record(c) PROVE ChargeInv'
    BY <1>0, <1>11 DEF Record, KeysOf, Goto, issued, locals, TypeOK, KindInv,
       ChargeInv
  <1>12. ASSUME NEW c \in Calls, FindToken(c) PROVE ChargeInv'
    BY <1>0, <1>12 DEF FindToken, Goto, issued, locals, history, TypeOK,
       KindInv, ChargeInv
  <1>13. ASSUME NEW c \in Calls, touch_api_token(c) PROVE ChargeInv'
    BY <1>0, <1>13 DEF touch_api_token, Goto, locals, history, TypeOK,
       KindInv, ChargeInv
  <1>14. ASSUME NEW c \in Calls, Fail(c) PROVE ChargeInv'
    BY <1>0, <1>14 DEF Fail, Goto, issued, history, TypeOK, KindInv, ChargeInv
  <1>15. CASE UNCHANGED vars
    BY <1>0, <1>15 DEF vars, issued, locals, history, TypeOK, KindInv,
       ChargeInv
  <1>16. ASSUME NEW c \in Calls, VerifyTotpUnusable(c) PROVE ChargeInv'
    BY <1>0, <1>16 DEF VerifyTotpUnusable, Goto, issued, locals, history, TypeOK,
       KindInv, ChargeInv
  <1> QED
    BY <1>1, <1>2, <1>3, <1>4, <1>5, <1>6, <1>7, <1>8, <1>9, <1>10, <1>11,
       <1>12, <1>13, <1>14, <1>15, <1>16 DEF Next, Fits

-----------------------------------------------------------------------------
(* Theorems.                                                               *)

\* The initial states satisfy the invariant.
LEMMA InitInv == Init => IndInv
  <1> SUFFICES ASSUME Init PROVE IndInv
    OBVIOUS
  <1>1. TypeOK
    BY CredentialsAssumption DEF Init, TypeOK, Ended, Steps
  <1> QED
    BY <1>1, CredentialsAssumption DEF Init, IndInv, KindInv, ValidInv,
       Matched, SpenderInv, ChargeInv

\* The inductive invariant holds in every reachable state.
LEMMA Invariance == Spec => []IndInv
  <1>1. IndInv /\ [Next]_vars => IndInv'
    BY TypeStep, KindStep, ValidStep, SpenderStep, ChargeStep DEF IndInv
  <1> QED
    BY InitInv, <1>1, PTL DEF Spec

\* Every variable keeps its type.
THEOREM TypeCorrect == Spec => []TypeOK
  BY Invariance, PTL DEF IndInv

\* One call is accepted for a reset token or a TOTP step, however many present
\* it at the same time, and nobody is called a replayer for less
\* (consume_password_reset_token_with_metadata,
\* verify_totp_code_with_replay_store_and_metadata).
THEOREM SingleUse == Spec => []AcceptedOnce
  <1>1. IndInv => AcceptedOnce
    BY DEF IndInv, KindInv, SpenderInv, AcceptedOnce
  <1> QED
    BY Invariance, <1>1, PTL

\* An accepted credential was in force when its call began, whatever expired or
\* was revoked since (authenticate_token, authenticate_password_reset_token,
\* verify_totp_code_step).
THEOREM InForce == Spec => []AcceptedWhileValid
  <1>1. ASSUME IndInv, NEW c \in Calls, pc[c] = "ok", kind[c] \in {"totp", "plain"}
        PROVE  /\ CodeOf(step[c]) = given[c]
               /\ start[c] < Period * (step[c] + Skew + 1)
               /\ start[c] >= Period * (step[c] - Skew)
    <2>1. /\ step[c] \in Window(start[c]) \cap Steps
          /\ CodeOf(step[c]) = given[c]
          /\ start[c] \in Nat
      BY <1>1 DEF IndInv, ValidInv, Matched, TypeOK
    <2>2. /\ step[c] \in Int
          /\ step[c] - Skew <= totp_step(start[c])
          /\ totp_step(start[c]) <= step[c] + Skew
          /\ totp_step(start[c]) \in Nat
      BY <2>1, StepBounds, CredentialsAssumption DEF Window
    <2>3. Period * (step[c] - Skew) <= Period * totp_step(start[c])
      BY <2>2, Multiples, CredentialsAssumption
    <2>4. Period * (totp_step(start[c]) + 1) <= Period * (step[c] + Skew + 1)
      BY <2>2, Multiples, CredentialsAssumption
    <2>5. Period * (totp_step(start[c]) + 1) = Period * totp_step(start[c]) + Period
      BY <2>2, CredentialsAssumption
    <2>6. /\ Period * (step[c] - Skew) \in Int
          /\ Period * (step[c] + Skew + 1) \in Int
          /\ Period * totp_step(start[c]) \in Int
      BY <2>2, CredentialsAssumption
    <2> QED
      BY <2>1, <2>3, <2>4, <2>5, <2>6, StepBounds, CredentialsAssumption
  <1>2. IndInv => AcceptedWhileValid
    BY <1>1 DEF IndInv, KindInv, ValidInv, AcceptedWhileValid
  <1> QED
    BY Invariance, <1>2, PTL

\* Rejections and replays are charged to the keys the code names, and success
\* to nobody (record_rate_limit_attempt in the three consuming calls).
THEOREM Charges == Spec => []RejectionsAreCharged
  <1>1. IndInv => RejectionsAreCharged
    BY DEF IndInv, ChargeInv, RejectionsAreCharged
  <1> QED
    BY Invariance, <1>1, PTL
=============================================================================
