---------------------------- MODULE AccessProofs -----------------------------
(***************************************************************************)
(* Theorems about the decisions of a resource server, for every input the  *)
(* types of the code admit, and about its rotating key set, for every      *)
(* number of keys, every cache time and every timing of the host.          *)
(***************************************************************************)
EXTENDS Access, FiniteSetTheorems, WellFoundedInduction, TLAPS

-----------------------------------------------------------------------------
(* The rotating key set.                                                   *)

Document == [keys : SUBSET Kids, sent : Nat, forced : BOOLEAN]

RotatingJwksState ==
  [keys : SUBSET Kids, loaded_at : Nat, forced_at : Nat \cup {None},
   in_flight : BOOLEAN]

\* The keys were in the issuer's document at the time t or later.
ServedSince(keys, t) ==
  \A k \in keys : withdrawn[k] # None => withdrawn[k] >= t

KeyTypeOK ==
  /\ clock \in Nat
  /\ published \subseteq Kids
  /\ withdrawn \in [Kids -> Nat \cup {None}]
  /\ set \in RotatingJwksState
  /\ fetches \subseteq Document
  /\ accepted \in [kid : Kids, at : Nat] \cup {None}

\* A document is as old as its request, which is not older than FetchTime; a
\* set was served within FetchTime before it was loaded.
KeyInv ==
  /\ KeyTypeOK
  /\ \A k \in published : withdrawn[k] = None
  /\ \A f \in fetches : /\ f.sent <= clock /\ clock <= f.sent + FetchTime
                        /\ ServedSince(f.keys, f.sent)
  /\ set.loaded_at <= clock
  /\ ServedSince(set.keys, set.loaded_at - FetchTime)
  /\ accepted # None =>
       accepted.at <= clock /\ (StalePolicy = "Reject" => CacheTtl > 0)
  /\ WithdrawnKeyDies

\* The first document is what the issuer serves.
LEMMA KeyInvInit == ASSUME KeyInit PROVE KeyInv
  <1>1. (CHOOSE k \in Kids : TRUE) \in Kids
    BY KeySetAssumption
  <1>2. KeyTypeOK
    BY <1>1 DEF KeyInit, KeyTypeOK, RotatingJwksState
  <1>3. set.loaded_at = 0 /\ set.keys = published
    BY DEF KeyInit
  <1> QED
    BY <1>1, <1>2, <1>3, KeySetAssumption
    DEF KeyInit, KeyInv, ServedSince, WithdrawnKeyDies

\* A request for a document carries the keys served at that moment.
LEMMA SentDocument ==
  ASSUME KeyInv, NEW forced \in BOOLEAN, Sent(forced),
         UNCHANGED <<clock, published, withdrawn>>
  PROVE  /\ fetches' \subseteq Document
         /\ \A f \in fetches' : /\ f.sent <= clock /\ clock <= f.sent + FetchTime
                                /\ ServedSince(f.keys, f.sent)
  <1> DEFINE d == [keys |-> published, sent |-> clock, forced |-> forced]
  <1>1. fetches' = fetches \cup {d} /\ clock \in Nat
    BY DEF Sent, KeyInv, KeyTypeOK
  <1>2. d \in Document /\ d.sent = clock /\ d.keys = published
    BY DEF KeyInv, KeyTypeOK, Document
  <1>3. ServedSince(published, clock)
    BY DEF KeyInv, ServedSince
  <1> HIDE DEF d
  <1> QED
    BY <1>1, <1>2, <1>3, KeySetAssumption DEF KeyInv, KeyTypeOK

\* Every step of the issuer, of the host and of the set keeps the invariant.
LEMMA KeyStep == ASSUME KeyInv, KeyNext \/ UNCHANGED keyVars PROVE KeyInv'
  <1>0. /\ KeyTypeOK /\ clock \in Nat /\ CacheTtl \in Nat /\ FetchTime \in Nat
        /\ set \in RotatingJwksState /\ set.loaded_at \in Nat /\ set.keys \subseteq Kids
        /\ None \notin Kids \cup Nat
        /\ withdrawn \in [Kids -> Nat \cup {None}]
        /\ \A f \in fetches : f.sent \in Nat /\ f.keys \subseteq Kids
        /\ accepted # None => accepted.kid \in Kids /\ accepted.at \in Nat
    BY KeySetAssumption DEF KeyInv, KeyTypeOK, RotatingJwksState, Document
  <1>1. CASE UNCHANGED keyVars
    BY <1>1 DEF KeyInv, KeyTypeOK, keyVars, ServedSince, WithdrawnKeyDies
  <1>2. CASE KeyTick
    <2>1. /\ clock' = clock + 1
          /\ UNCHANGED <<published, withdrawn, set, fetches, accepted>>
          /\ \A f \in fetches : clock < f.sent + FetchTime
      BY <1>2 DEF KeyTick
    <2>2. \A f \in fetches : f.sent <= clock + 1 /\ clock + 1 <= f.sent + FetchTime
      BY <1>0, <2>1 DEF KeyInv
    <2>3. set.loaded_at <= clock + 1 /\ (accepted # None => accepted.at <= clock + 1)
      BY <1>0 DEF KeyInv
    <2> QED
      BY <1>0, <2>1, <2>2, <2>3
      DEF KeyInv, KeyTypeOK, ServedSince, WithdrawnKeyDies
  <1>3. CASE Refresh
    <2>1. Sent(FALSE) /\ UNCHANGED <<clock, published, withdrawn, set, accepted>>
      BY <1>3 DEF Refresh
    <2>2. /\ fetches' \subseteq Document
          /\ \A f \in fetches' : /\ f.sent <= clock /\ clock <= f.sent + FetchTime
                                 /\ ServedSince(f.keys, f.sent)
      BY <2>1, SentDocument
    <2> QED
      BY <2>1, <2>2 DEF KeyInv, KeyTypeOK, ServedSince, WithdrawnKeyDies
  <1>4. ASSUME NEW k \in Kids, Publish(k) PROVE KeyInv'
    BY <1>0, <1>4 DEF Publish, KeyInv, KeyTypeOK, ServedSince, WithdrawnKeyDies
  <1>5. ASSUME NEW k \in Kids, Withdraw(k) PROVE KeyInv'
    <2>1. /\ k \in published /\ published' = published \ {k}
          /\ withdrawn' = [withdrawn EXCEPT ![k] = clock]
          /\ UNCHANGED <<clock, set, fetches, accepted>>
      BY <1>5 DEF Withdraw
    <2>2. /\ withdrawn' \in [Kids -> Nat \cup {None}]
          /\ withdrawn'[k] = clock
          /\ \A j \in Kids : j # k => withdrawn'[j] = withdrawn[j]
      BY <1>0, <2>1
    <2>3. \A j \in published' : withdrawn'[j] = None
      BY <2>1, <2>2 DEF KeyInv, KeyTypeOK
    <2>4. ASSUME NEW keys, keys \subseteq Kids, NEW t \in Int, t <= clock,
                 ServedSince(keys, t)
          PROVE  \A j \in keys : withdrawn'[j] # None => withdrawn'[j] >= t
      BY <1>0, <2>2, <2>4 DEF ServedSince
    <2>5. \A f \in fetches :
            \A j \in f.keys : withdrawn'[j] # None => withdrawn'[j] >= f.sent
      BY <1>0, <2>4 DEF KeyInv
    <2>6. \A j \in set.keys :
            withdrawn'[j] # None => withdrawn'[j] >= set.loaded_at - FetchTime
      <3>1. set.loaded_at - FetchTime \in Int /\ set.loaded_at - FetchTime <= clock
        BY <1>0 DEF KeyInv
      <3> QED
        BY <1>0, <2>4, <3>1 DEF KeyInv
    <2>7. WithdrawnKeyDies'
      <3> SUFFICES ASSUME StalePolicy = "Reject", accepted # None,
                          withdrawn'[accepted.kid] # None
                   PROVE  accepted.at < withdrawn'[accepted.kid] + FetchTime + CacheTtl
        BY <2>1 DEF WithdrawnKeyDies
      <3>1. CASE accepted.kid = k
        BY <1>0, <2>2, <3>1 DEF KeyInv
      <3>2. CASE accepted.kid # k
        BY <1>0, <2>2, <3>2 DEF KeyInv, WithdrawnKeyDies
      <3> QED
        BY <3>1, <3>2
    <2> QED
      BY <2>1, <2>2, <2>3, <2>5, <2>6, <2>7 DEF KeyInv, KeyTypeOK, ServedSince
  <1>6. ASSUME NEW k \in Kids, begin_forced_refresh(k) PROVE KeyInv'
    <2>1. /\ Sent(TRUE) /\ UNCHANGED <<clock, published, withdrawn, accepted>>
          /\ set' = [set EXCEPT !.in_flight = TRUE, !.forced_at = clock]
      BY <1>6 DEF begin_forced_refresh
    <2>2. /\ fetches' \subseteq Document
          /\ \A f \in fetches' : /\ f.sent <= clock /\ clock <= f.sent + FetchTime
                                 /\ ServedSince(f.keys, f.sent)
      BY <2>1, SentDocument
    <2>3. /\ set' \in RotatingJwksState
          /\ set'.loaded_at = set.loaded_at /\ set'.keys = set.keys
      BY <1>0, <2>1 DEF RotatingJwksState
    <2> QED
      BY <2>1, <2>2, <2>3 DEF KeyInv, KeyTypeOK, ServedSince, WithdrawnKeyDies
  <1>7. ASSUME NEW k \in Kids, authenticate_access_token(k) PROVE KeyInv'
    <2>1. /\ resolve(set, k, clock) # Refused
          /\ accepted' = [kid |-> k, at |-> clock]
          /\ UNCHANGED <<clock, published, withdrawn, set, fetches>>
      BY <1>7 DEF authenticate_access_token
    <2>2. accepted' \in [kid : Kids, at : Nat] /\ accepted'.kid = k /\ accepted'.at = clock
      BY <1>0, <2>1
    <2>3. k \in set.keys
      BY <1>0, <2>1 DEF resolve, StaticJwksKeySet
    <2>4. StalePolicy = "Reject" => clock - set.loaded_at < CacheTtl
      BY <1>0, <2>1 DEF resolve, is_stale
    <2>5. withdrawn[k] # None => withdrawn[k] \in Nat /\ withdrawn[k] >= set.loaded_at - FetchTime
      BY <1>0, <2>3 DEF KeyInv, ServedSince
    <2>6. StalePolicy = "Reject" =>
            /\ CacheTtl > 0
            /\ withdrawn[k] # None => clock < withdrawn[k] + FetchTime + CacheTtl
      BY <1>0, <2>4, <2>5 DEF KeyInv
    <2> QED
      BY <1>0, <2>1, <2>2, <2>6 DEF KeyInv, KeyTypeOK, ServedSince, WithdrawnKeyDies
  <1>8. ASSUME NEW f \in fetches, replace_jwks(f) PROVE KeyInv'
    <2>1. /\ fetches' = fetches \ {f}
          /\ set' = [set EXCEPT !.keys = f.keys, !.loaded_at = clock, !.in_flight = FALSE]
          /\ UNCHANGED <<clock, published, withdrawn, accepted>>
      BY <1>8 DEF replace_jwks
    <2>2. set' \in RotatingJwksState /\ set'.keys = f.keys /\ set'.loaded_at = clock
      BY <1>0, <1>8, <2>1 DEF RotatingJwksState
    <2>3. ServedSince(f.keys, clock - FetchTime)
      BY <1>0, <1>8 DEF KeyInv, ServedSince
    <2> QED
      BY <1>0, <2>1, <2>2, <2>3 DEF KeyInv, KeyTypeOK, ServedSince, WithdrawnKeyDies
  <1>9. ASSUME NEW f \in fetches, end_forced_refresh(f) PROVE KeyInv'
    <2>1. /\ fetches' = fetches \ {f}
          /\ set' = [set EXCEPT !.in_flight = FALSE]
          /\ UNCHANGED <<clock, published, withdrawn, accepted>>
      BY <1>9 DEF end_forced_refresh
    <2>2. /\ set' \in RotatingJwksState
          /\ set'.keys = set.keys /\ set'.loaded_at = set.loaded_at
      BY <1>0, <2>1 DEF RotatingJwksState
    <2> QED
      BY <2>1, <2>2 DEF KeyInv, KeyTypeOK, ServedSince, WithdrawnKeyDies
  <1>10. ASSUME NEW f \in fetches, DropFetch(f) PROVE KeyInv'
    BY <1>10 DEF DropFetch, KeyInv, KeyTypeOK, ServedSince, WithdrawnKeyDies
  <1> QED
    BY <1>1, <1>2, <1>3, <1>4, <1>5, <1>6, <1>7, <1>8, <1>9, <1>10 DEF KeyNext

\* Under the Reject policy a withdrawn key dies: a document that was on its
\* way when the issuer withdrew the key is at most FetchTime old when
\* replace_jwks stores it, and stale CacheTtl later.
THEOREM KeyDies == Spec => []WithdrawnKeyDies
  <1>1. Init => KeyInv
    BY KeyInvInit DEF Init
  <1>2. KeyInv /\ [Next]_vars => KeyInv'
    BY KeyStep DEF Next, Decide, vars, keyVars
  <1>3. KeyInv => WithdrawnKeyDies
    BY DEF KeyInv
  <1> QED
    BY <1>1, <1>2, <1>3, PTL DEF Spec

-----------------------------------------------------------------------------
(* The decisions.                                                          *)

\* A verdict is the answer to its probe, and probes have the types of the code.
Decided == WellTyped(probe) /\ (verdict # None => verdict = Verdict(probe))

\* Only Decide answers, and once.
LEMMA DecidedAlways == Spec => []Decided
  <1>1. Init => Decided
    BY ProbesAssumption DEF Init, Decided
  <1>2. Decided /\ [Next]_vars => Decided'
    BY DEF Decided, Next, Decide, vars
  <1> QED
    BY <1>1, <1>2, PTL DEF Spec

\* A catalogue that does not know every role, is not the one that was signed
\* or is outside its lifetime expands nothing.
LEMMA CatalogueAnswer ==
  ASSUME Decided PROVE CatalogueFailsClosed
  <1> SUFFICES ASSUME Answered("catalogue") PROVE CatalogueFailsClosed
    BY DEF CatalogueFailsClosed
  <1> DEFINE e == expand_roles(probe.envelope, probe.roles)
             signed == probe.claims.catalogue.roles
             held == {i \in DOMAIN signed : signed[i].id \in probe.roles}
  <1>1. /\ probe.kind = "catalogue" /\ verdict = Verdict(probe) /\ verdict # Refused
    BY DEF Answered, Decided
  <1>2. {probe.now, probe.lifetime, probe.leeway, probe.claims.iat, probe.claims.exp}
          \subseteq Int
    BY <1>1 DEF Decided, WellTyped
  <1>3. /\ binding_valid(probe.claims, probe.envelope, "issuer", "api", probe.now,
                         probe.lifetime, probe.leeway)
        /\ e.ok
        /\ verdict = effective_scopes(probe.direct, e)
    BY <1>1 DEF Verdict
  <1>4. /\ probe.claims.catalogue = probe.envelope
        /\ probe.claims.iat <= probe.now + probe.leeway
        /\ probe.claims.exp > probe.now - probe.leeway
        /\ probe.claims.exp - probe.claims.iat <= probe.lifetime
    BY <1>3 DEF binding_valid
  <1>5. /\ probe.claims.iat - probe.leeway <= probe.now
        /\ probe.now < probe.claims.exp + probe.leeway
        /\ probe.claims.exp <= probe.claims.iat + probe.lifetime
    BY <1>2, <1>4
  <1>6. /\ \A r \in probe.roles : \E i \in DOMAIN signed : signed[i].id = r
        /\ e.scopes = UNION {ToSet(signed[i].scopes) : i \in held}
    BY <1>3, <1>4 DEF expand_roles
  <1>7. probe.roles = {signed[i].id : i \in held}
    BY <1>6
  <1>8. verdict \subseteq probe.direct \cup UNION {ToSet(signed[i].scopes) : i \in held}
    BY <1>3, <1>6 DEF effective_scopes
  <1> QED
    BY <1>5, <1>7, <1>8 DEF CatalogueFailsClosed

\* No scope comes out of binding_valid and expand_roles that was not signed
\* for a role of the user, within the catalogue's lifetime.
THEOREM CatalogueClosed == Spec => []CatalogueFailsClosed
  <1>1. Decided => CatalogueFailsClosed
    BY CatalogueAnswer
  <1> QED
    BY <1>1, DecidedAlways, PTL

\* Whole seconds written as ticks and read back are the same seconds.
LEMMA WholeSeconds ==
  ASSUME NEW x \in Int, NEW s \in Nat \ {0} PROVE (x * s) \div s = x
  OBVIOUS

\* evaluate_at says yes exactly when all its checks pass.
LEMMA EvaluateOk ==
  ASSUME NEW p, NEW user, NEW now, evaluate_at(p, user, now).ok
  PROVE  LET a  == user.assurance
             c  == user.claims
             at == from_unix_timestamp(c.auth_time)
         IN  /\ ~(p.maximum_age < 0) /\ ~(p.clock_skew < 0)
             /\ a # None /\ validate_assurance(a) /\ a.mfa /\ user.mfa
             /\ allowlists_match(p, a)
             /\ c.auth_time # None /\ at \in (-TimeLimit) .. TimeLimit
             /\ at = a.at /\ c.amr = a.methods /\ c.acr = a.acr
             /\ ~(now + p.clock_skew > TimeLimit)
             /\ ~(at > now + p.clock_skew)
             /\ ~(now - p.maximum_age < -TimeLimit)
             /\ ~(at < now - p.maximum_age)
             /\ ~(at + p.maximum_age > TimeLimit)
             /\ evaluate_at(p, user, now).until = at + p.maximum_age
  BY DEF evaluate_at, Deny

\* And conversely.
LEMMA EvaluateYes ==
  ASSUME NEW p, NEW user, NEW now,
         LET a  == user.assurance
             c  == user.claims
             at == from_unix_timestamp(c.auth_time)
         IN  /\ ~(p.maximum_age < 0) /\ ~(p.clock_skew < 0)
             /\ a # None /\ validate_assurance(a) /\ a.mfa /\ user.mfa
             /\ allowlists_match(p, a)
             /\ c.auth_time # None /\ at \in (-TimeLimit) .. TimeLimit
             /\ at = a.at /\ c.amr = a.methods /\ c.acr = a.acr
             /\ ~(now + p.clock_skew > TimeLimit)
             /\ ~(at > now + p.clock_skew)
             /\ ~(now - p.maximum_age < -TimeLimit)
             /\ ~(at < now - p.maximum_age)
             /\ ~(at + p.maximum_age > TimeLimit)
  PROVE  evaluate_at(p, user, now).ok
  BY DEF evaluate_at

\* The instant until which an evaluation is said to hold is the last at which
\* a later evaluation says yes.
LEMMA SatisfiedAnswer ==
  ASSUME Decided PROVE SatisfiedUntilIsExact
  <1> SUFFICES ASSUME Answered("assurance"), verdict.state = "SATISFIED"
               PROVE  SatisfiedUntilIsExact
    BY DEF SatisfiedUntilIsExact
  <1> DEFINE p == probe.policy
             user == probe.user
             now == probe.now
             at == from_unix_timestamp(user.claims.auth_time)
  <1>1. /\ probe.kind = "assurance" /\ verdict = Verdict(probe)
    BY DEF Answered, Decided
  <1>2. /\ now \in Int /\ p.maximum_age \in Int /\ p.clock_skew \in Int
        /\ user # None =>
             /\ user.claims = Claims(user.claims)
             /\ user.claims.auth_time \in Int \cup {None}
             /\ user.assurance # None => user.assurance.at \in Int
        /\ Second \in Nat \ {0} /\ TimeLimit \in Nat
    BY <1>1, AssuranceAssumption DEF Decided, WellTyped, Optional
  <1>3. verdict = evaluate([recent |-> p], "recent", user, now)
    BY <1>1 DEF Verdict
  <1>4. /\ user # None
        /\ evaluate_at(p, user, now).ok
        /\ verdict.until = evaluate_at(p, user, now).until
    <2>1. "recent" \in DOMAIN [recent |-> p] /\ [recent |-> p]["recent"] = p
      OBVIOUS
    <2> DEFINE r == [recent |-> p]
    <2>2. verdict = evaluate(r, "recent", user, now) /\ "recent" \in DOMAIN r
          /\ r["recent"] = p
      BY <1>3, <2>1
    <2> HIDE DEF r, p, user, now
    <2>3. user # None
      BY <2>2 DEF evaluate
    <2>4. evaluate_at(p, user, now).ok
      <3>1. ASSUME ~evaluate_at(p, user, now).ok
            PROVE  verdict.state = graphql_extension_code(evaluate_at(p, user, now).code)
        BY <2>2, <2>3, <3>1 DEF evaluate
      <3> QED
        BY <3>1 DEF graphql_extension_code
    <2> QED
      BY <2>2, <2>3, <2>4 DEF evaluate
  <1> HIDE DEF p, user, now
  <1>5. /\ ~(p.maximum_age < 0) /\ ~(p.clock_skew < 0)
        /\ user.assurance # None /\ validate_assurance(user.assurance)
        /\ user.assurance.mfa /\ user.mfa
        /\ allowlists_match(p, user.assurance)
        /\ user.claims.auth_time # None /\ at \in (-TimeLimit) .. TimeLimit
        /\ at = user.assurance.at
        /\ user.claims.amr = user.assurance.methods
        /\ user.claims.acr = user.assurance.acr
        /\ ~(now + p.clock_skew > TimeLimit)
        /\ ~(at > now + p.clock_skew)
        /\ ~(now - p.maximum_age < -TimeLimit)
        /\ ~(at < now - p.maximum_age)
        /\ ~(at + p.maximum_age > TimeLimit)
        /\ verdict.until = at + p.maximum_age
    BY <1>4, EvaluateOk
  <1>6. from_user(user).mfa_satisfied
    <2>1. user.claims.auth_time \in Int
      BY <1>2, <1>4, <1>5
    <2>2. auth_time(user.assurance) = user.claims.auth_time
      BY <1>2, <1>5, <2>1, WholeSeconds DEF auth_time, from_unix_timestamp
    <2>3. user.claims = ClaimsOf(user.assurance)
      BY <1>2, <1>4, <1>5, <2>2 DEF Claims, ClaimsOf
    <2> QED
      BY <1>4, <1>5, <2>3 DEF from_user
  <1>7. user.assurance.at >= now - p.maximum_age
    BY <1>2, <1>5
  <1>8. ASSUME NEW later \in now .. (TimeLimit - p.clock_skew)
        PROVE  evaluate_at(p, user, later).ok <=> later <= verdict.until
    <2>1. at \in Int
      BY <1>5
    <2>2. ASSUME evaluate_at(p, user, later).ok PROVE later <= verdict.until
      <3>1. ~(at < later - p.maximum_age)
        BY <2>2, EvaluateOk
      <3> QED
        BY <1>2, <1>5, <2>1, <3>1
    <2>3. ASSUME later <= verdict.until PROVE evaluate_at(p, user, later).ok
      <3>1. /\ ~(later + p.clock_skew > TimeLimit)
            /\ ~(at > later + p.clock_skew)
            /\ ~(later - p.maximum_age < -TimeLimit)
            /\ ~(at < later - p.maximum_age)
        BY <1>2, <1>5, <2>1, <2>3
      <3> QED
        BY <1>5, <3>1, EvaluateYes
    <2>4. evaluate_at(p, user, later).ok \in BOOLEAN
      BY DEF evaluate_at, Deny
    <2> QED
      BY <2>2, <2>3, <2>4
  <1> QED
    BY <1>6, <1>7, <1>8 DEF SatisfiedUntilIsExact, p, user, now

\* A satisfied RecentMfaPolicy is about an MFA within the maximum age that the
\* client is shown, and satisfied_until is exact, for every policy and clock.
THEOREM SatisfiedUntil == Spec => []SatisfiedUntilIsExact
  <1>1. Decided => SatisfiedUntilIsExact
    BY SatisfiedAnswer
  <1> QED
    BY <1>1, DecidedAlways, PTL

\* Seconds are rounded down.
LEMMA RoundedDown ==
  ASSUME NEW x \in Int, NEW s \in Nat \ {0}
  PROVE  /\ x \div s \in Int
         /\ (x \div s) * s <= x
         /\ x < (x \div s + 1) * s
  OBVIOUS

\* A signed client JWT is valid at the time it is made, by any clock between
\* the provider's and one that is behind by the skew.
LEMMA SignedJwt ==
  ASSUME NEW j, j.lifetime \in Int, j.skew \in Int, client_jwt_valid(j),
         NEW now \in Int, NEW audience, NEW jti, NEW t, t = sign(j, now, audience, jti)
  PROVE  /\ t.iat * Second <= now - whole_seconds(j.skew) * Second
         /\ t.exp * Second > now
         /\ t.exp - t.iat <= MaxLifetime
         /\ t.iat \in Int /\ t.exp \in Int
  <1>1. Second \in Nat \ {0} /\ MaxLifetime \in Nat
    BY AssuranceAssumption, ProviderAssumption
  <1> DEFINE n == now \div Second
             l == whole_seconds(j.lifetime)
             k == whole_seconds(j.skew)
  <1>2. n \in Int /\ n * Second <= now /\ now < (n + 1) * Second
    BY <1>1, RoundedDown
  <1>3. l \in Int /\ k \in Int
    BY <1>1, RoundedDown DEF whole_seconds
  <1>4. l <= MaxLifetime /\ l - k >= 1
    BY DEF client_jwt_valid
  <1>5. t.iat = n - k /\ t.exp = n - k + l
    BY DEF sign
  <1> HIDE DEF n, l, k
  <1>6. (n - k) * Second = n * Second - k * Second
    BY <1>1, <1>2, <1>3
  <1>7. (n - k + l) * Second >= (n + 1) * Second
    BY <1>1, <1>2, <1>3, <1>4
  <1>8. k * Second \in Int /\ n * Second \in Int
        /\ (n + 1) * Second \in Int /\ (n - k + l) * Second \in Int
    BY <1>1, <1>2, <1>3
  <1>9. t.iat * Second <= now - k * Second
    BY <1>2, <1>5, <1>6, <1>8
  <1>10. t.exp * Second > now
    BY <1>2, <1>5, <1>7, <1>8
  <1>11. t.exp - t.iat <= MaxLifetime
    BY <1>1, <1>2, <1>3, <1>4, <1>5
  <1> QED
    BY <1>2, <1>3, <1>5, <1>9, <1>10, <1>11 DEF k

\* The types of what a token request carries.
LEMMA SignedType ==
  ASSUME NEW j, {j.issuer, j.subject} \subseteq Texts,
         j.audience \in Texts \cup {None},
         NEW now \in Int, j.lifetime \in Int, j.skew \in Int, NEW jti \in BOOLEAN
  PROVE  /\ sign(j, now, "endpoint", jti) \in ClientJwt
         /\ sign(j, now, "endpoint", jti).jti # None <=> jti
  <1>1. /\ Second \in Nat \ {0} /\ None \notin Texts
        /\ {"fresh", "endpoint"} \subseteq Texts
    BY AssuranceAssumption, ProbesAssumption
  <1> DEFINE iat == now \div Second - whole_seconds(j.skew)
             exp == iat + whole_seconds(j.lifetime)
             aud == IF j.audience = None THEN "endpoint" ELSE j.audience
             id  == IF jti THEN "fresh" ELSE None
  <1>2. iat \in Int /\ exp \in Int
    BY <1>1, RoundedDown DEF whole_seconds
  <1>3. aud \in Texts /\ id \in Texts \cup {None} /\ (id # None <=> jti)
    <2>1. aud \in Texts
      BY <1>1
    <2>2. "fresh" \in Texts /\ "fresh" # None
      BY <1>1
    <2>3. CASE jti
      BY <2>1, <2>2, <2>3
    <2>4. CASE ~jti
      BY <2>1, <2>4
    <2> QED
      BY <2>3, <2>4
  <1>4. sign(j, now, "endpoint", jti) =
          [iss |-> j.issuer, sub |-> j.subject, iat |-> iat, aud |-> aud, exp |-> exp,
           jti |-> id]
    BY DEF sign
  <1> HIDE DEF iat, exp, aud, id
  <1> QED
    BY <1>2, <1>3, <1>4 DEF ClientJwt, Optional

\* Every accepted configuration has a credential, and a JWT is usable.
LEMMA ClientAnswer ==
  ASSUME Decided PROVE ClientJwtUsable
  <1> SUFFICES ASSUME probe.kind = "client", verdict # None PROVE ClientJwtUsable
    BY DEF ClientJwtUsable
  <1> DEFINE conf == probe.conf
             jwt == conf.client_jwt
             now == probe.now
             plain_jwt == sign(jwt, now, "endpoint", FALSE)
             assertion_jwt == sign(jwt, now, "endpoint", TRUE)
             nothing == [basic |-> None, client_secret |-> None, assertion |-> None]
  <1>1. /\ now \in Int
        /\ conf.method \in {"ClientSecretPost", "ClientSecretBasic", "PrivateKeyJwt"}
        /\ conf.client_secret \in Texts \cup {None}
        /\ jwt # None => /\ jwt.lifetime \in Int /\ jwt.skew \in Int
                         /\ {jwt.issuer, jwt.subject} \subseteq Texts
                         /\ jwt.audience \in Texts \cup {None}
    BY DEF Decided, WellTyped, Optional
  <1>2. \/ verdict = nothing
        \/ /\ jwt # None => client_jwt_valid(jwt)
           /\ validate_client_authentication(conf.method, conf.client_secret, jwt)
           /\ verdict = client_authentication(conf.method, conf.client_secret, jwt,
                                              "endpoint", now)
    <2>1. verdict = Verdict(probe)
      BY DEF Decided
    <2>2. oauth2_valid(conf) \/ oidc_valid(conf) =>
            validate_client_authentication(conf.method, conf.client_secret, jwt)
      BY DEF oauth2_valid, oidc_valid
    <2> QED
      BY <2>1, <2>2 DEF Verdict
  <1>3. None \in Secret /\ (conf.client_secret \in Secret) /\ None \notin Texts
    BY <1>1, ProbesAssumption DEF Secret, Optional
  <1>4. jwt # None => /\ plain_jwt \in ClientJwt /\ assertion_jwt \in ClientJwt
                      /\ plain_jwt.jti = None /\ assertion_jwt.jti # None
    BY <1>1, SignedType
  <1> HIDE DEF plain_jwt, assertion_jwt
  <1>5. \/ verdict = nothing
        \/ /\ jwt = None
           /\ \/ \E s \in Texts \cup {None} :
                   verdict = [basic |-> None, client_secret |-> s, assertion |-> None]
              \/ \E s \in Texts \cup {None} :
                   verdict = [basic |-> s, client_secret |-> None, assertion |-> None]
        \/ /\ jwt # None /\ client_jwt_valid(jwt)
           /\ \/ verdict = [basic |-> None, client_secret |-> plain_jwt, assertion |-> None]
              \/ verdict = [basic |-> plain_jwt, client_secret |-> None, assertion |-> None]
              \/ verdict = [basic |-> None, client_secret |-> None,
                            assertion |-> assertion_jwt]
    <2> SUFFICES ASSUME verdict # nothing
                 PROVE  \/ /\ jwt = None
                           /\ \/ \E s \in Texts \cup {None} :
                                   verdict = [basic |-> None, client_secret |-> s,
                                              assertion |-> None]
                              \/ \E s \in Texts \cup {None} :
                                   verdict = [basic |-> s, client_secret |-> None,
                                              assertion |-> None]
                        \/ /\ jwt # None /\ client_jwt_valid(jwt)
                           /\ \/ verdict = [basic |-> None, client_secret |-> plain_jwt,
                                            assertion |-> None]
                              \/ verdict = [basic |-> plain_jwt, client_secret |-> None,
                                            assertion |-> None]
                              \/ verdict = [basic |-> None, client_secret |-> None,
                                            assertion |-> assertion_jwt]
      OBVIOUS
    <2>1. CASE jwt = None
      BY <1>1, <1>2, <1>3, <2>1
      DEF client_authentication, validate_client_authentication, plain_jwt
    <2>2. CASE jwt # None
      <3>1. conf.client_secret = None
        BY <1>2, <2>2 DEF validate_client_authentication
      <3>2. plain_jwt # None
        BY <1>4, <2>2, ProbesAssumption
      <3> QED
        BY <1>1, <1>2, <2>2, <3>1, <3>2
        DEF client_authentication, plain_jwt, assertion_jwt
    <2> QED
      BY <2>1, <2>2
  <1>6. verdict # Refused
    <2>1. verdict \in [basic : Secret, client_secret : Secret, assertion : Secret]
      <3>1. \A s \in Texts \cup {None} \cup ClientJwt : s \in Secret
        BY DEF Secret, Optional
      <3> QED
        BY <1>3, <1>4, <1>5, <3>1
    <2> QED
      BY <2>1, ProbesAssumption
  <1>7. ASSUME jwt # None, NEW f \in DOMAIN verdict, verdict[f] # None,
               NEW t, t = verdict[f]
        PROVE  /\ t.iat * Second <= now - whole_seconds(jwt.skew) * Second
               /\ t.exp * Second > now
               /\ t.exp - t.iat <= MaxLifetime
               /\ f = "assertion" <=> t.jti # None
    <2>1. /\ client_jwt_valid(jwt)
          /\ \/ t = plain_jwt /\ f # "assertion"
             \/ t = assertion_jwt /\ f = "assertion"
      BY <1>5, <1>7
    <2>2. CASE t = plain_jwt /\ f # "assertion"
      BY <1>1, <1>4, <1>7, <2>1, <2>2, SignedJwt DEF plain_jwt
    <2>3. CASE t = assertion_jwt /\ f = "assertion"
      BY <1>1, <1>4, <1>7, <2>1, <2>3, SignedJwt DEF assertion_jwt
    <2> QED
      BY <2>1, <2>2, <2>3
  <1> QED
    BY <1>6, <1>7 DEF ClientJwtUsable

\* client_jwt_valid is enough for a JWT that is accepted when it arrives, for
\* every lifetime, skew and time of the clock.
THEOREM JwtUsable == Spec => []ClientJwtUsable
  <1>1. Decided => ClientJwtUsable
    BY ClientAnswer
  <1> QED
    BY <1>1, DecidedAlways, PTL

\* The first of some positions is one of them.
LEMMA FirstOf ==
  ASSUME NEW S, S \subseteq Nat, S # {}
  PROVE  Min(S) \in S /\ \A y \in S : Min(S) <= y
  <1> DEFINE R == OpToRel(<, Nat)
  <1>1. \A a, b \in Nat : a < b => <<a, b>> \in R
    BY DEF OpToRel
  <1>2. IsWellFoundedOn(R, Nat)
    BY NatLessThanWellFounded
  <1> HIDE DEF R
  <1>3. PICK x \in S : \A y \in S : ~(<<y, x>> \in R)
    BY <1>2, WFMin, Zenon
  <1>4. ASSUME NEW y \in S PROVE x <= y
    <2>1. y \in Nat /\ x \in Nat
      OBVIOUS
    <2>2. ~(y < x)
      BY <1>1, <1>3, <2>1
    <2> QED
      BY <2>1, <2>2
  <1>5. \E z \in S : \A y \in S : z <= y
    BY <1>4
  <1> QED
    BY <1>5 DEF Min

\* A mark that is read as true says so.
LEMMA MarkedTrue ==
  ASSUME NEW mark, parse_email_verified(mark) = TRUE
  PROVE  mark # None /\ mark.text = "true"
  <1>1. mark # None
    BY AssuranceAssumption DEF parse_email_verified
  <1>2. mark.text = "true"
    BY AssuranceAssumption DEF parse_email_verified
  <1> QED
    BY <1>1, <1>2

\* An address from the list is the address of an entry marked itself.
LEMMA SelectedIsMarked ==
  ASSUME NEW selection, NEW entries, DOMAIN entries \subseteq Nat
  PROVE  LET email == select_verified_email(selection, entries)
         IN  email # None =>
               \E i \in DOMAIN entries :
                 /\ entries[i].email = email /\ email # ""
                 /\ entries[i].verified.text = "true"
  <1> DEFINE email == select_verified_email(selection, entries)
  <1> SUFFICES ASSUME email # None
               PROVE  \E i \in DOMAIN entries :
                        /\ entries[i].email = email /\ email # ""
                        /\ entries[i].verified.text = "true"
    OBVIOUS
  <1> DEFINE fit == {i \in DOMAIN entries : entry_fits(selection, entries[i])}
             first == Min(fit)
  <1>1. fit \subseteq Nat /\ fit \subseteq DOMAIN entries
    BY DEF IsSequence
  <1>2. fit # {} /\ email = entries[first].email
    BY DEF select_verified_email
  <1>3. first \in fit
    BY <1>1, <1>2, FirstOf
  <1>4. first \in DOMAIN entries /\ entry_fits(selection, entries[first])
    BY <1>3
  <1> HIDE DEF first
  <1>5. parse_email_verified(entries[first].verified) = TRUE /\ entries[first].email # ""
    BY <1>4 DEF entry_fits, pointer_string
  <1>6. entries[first].verified.text = "true"
    BY <1>5, MarkedTrue
  <1> QED
    BY <1>2, <1>4, <1>5, <1>6

\* fetch_profile calls an address verified only on its own mark.
LEMMA ProfileAnswer ==
  ASSUME Decided PROVE VerifiedEmailIsVouched
  <1> SUFFICES ASSUME Answered("profile"), verdict.verified = TRUE
               PROVE  VerifiedEmailIsVouched
    BY DEF VerifiedEmailIsVouched
  <1> DEFINE c == probe.conf
             raw == probe.raw
             email == pointer_string(raw.email)
             marked == CASE c.verification = "Unknown"     -> None
                         [] c.verification = "Pointer"     -> parse_email_verified(raw.verified)
                         [] c.verification = "VerifiesAll" -> TRUE
             verified == IF email = None THEN None ELSE marked
             selected == IF c.list = None \/ verified = TRUE THEN None
                         ELSE select_verified_email(c.list.selection, c.list.entries)
  <1>1. /\ verdict = fetch_profile(c, raw) /\ verdict # Refused
        /\ c.verification \in {"Unknown", "Pointer", "VerifiesAll"}
        /\ c.list # None => IsSequence(c.list.entries)
    BY DEF Answered, Decided, WellTyped, Verdict
  <1>2. \/ selected # None /\ verdict = [email |-> selected, verified |-> TRUE]
        \/ verdict = [email |-> email, verified |-> verified]
    BY <1>1 DEF fetch_profile, Chosen
  <1>3. CASE selected # None /\ verdict = [email |-> selected, verified |-> TRUE]
    <2>1. /\ c.list # None
          /\ selected = select_verified_email(c.list.selection, c.list.entries)
          /\ verdict.email = selected
      BY <1>3
    <2> HIDE DEF selected
    <2>2. PICK i \in DOMAIN c.list.entries :
            /\ c.list.entries[i].email = selected /\ selected # ""
            /\ c.list.entries[i].verified.text = "true"
      <3>1. DOMAIN c.list.entries \subseteq Nat
        BY <1>1, <2>1 DEF IsSequence
      <3> QED
        BY <1>3, <2>1, <3>1, SelectedIsMarked
    <2> QED
      BY <2>1, <2>2 DEF VerifiedEmailIsVouched
  <1>4. CASE verdict = [email |-> email, verified |-> verified]
    <2>1. verified = TRUE /\ verdict.email = email
      BY <1>4
    <2>2. email # None /\ marked = TRUE
      BY <2>1, AssuranceAssumption
    <2>3. email = raw.email /\ raw.email # ""
      BY <2>2 DEF pointer_string
    <2>4. \/ c.verification = "VerifiesAll"
          \/ c.verification = "Pointer" /\ parse_email_verified(raw.verified) = TRUE
      BY <1>1, <2>2, AssuranceAssumption
    <2>5. \/ c.verification = "VerifiesAll"
          \/ /\ c.verification = "Pointer" /\ raw.verified # None
             /\ raw.verified.text = "true"
      BY <2>4, MarkedTrue
    <2> QED
      BY <2>1, <2>3, <2>5 DEF VerifiedEmailIsVouched
  <1> QED
    BY <1>2, <1>3, <1>4

\* No address becomes verified through the mark of another one.
THEOREM EmailVouched == Spec => []VerifiedEmailIsVouched
  <1>1. Decided => VerifiedEmailIsVouched
    BY ProfileAnswer
  <1> QED
    BY <1>1, DecidedAlways, PTL

\* At most one element: all are the same.
LEMMA OnlyOne ==
  ASSUME NEW S, IsFiniteSet(S), Cardinality(S) <= 1, NEW x \in S, NEW y \in S
  PROVE  x = y
  <1> SUFFICES ASSUME x # y PROVE FALSE
    OBVIOUS
  <1>1. /\ IsFiniteSet(S \ {x}) /\ Cardinality(S \ {x}) = Cardinality(S) - 1
        /\ Cardinality(S) \in Nat
    BY FS_RemoveElement, FS_CardinalityType
  <1>2. y \in S \ {x}
    OBVIOUS
  <1>3. Cardinality(S \ {x}) \in Nat /\ Cardinality(S \ {x}) # 0
    BY <1>1, <1>2, FS_CardinalityType, FS_EmptySet
  <1> QED
    BY <1>1, <1>3

\* No value is asked for when no request names the claim.
LEMMA NoValues == validate_values(<<>>) /\ ToSet(<<>>) = {}
  <1>1. ToSet(<<>>) = {}
    BY DEF ToSet
  <1>2. Cardinality({}) = 0
    BY FS_EmptySet
  <1> DEFINE nothing == <<>>
  <1>3. ToSet(nothing) = {} /\ Len(nothing) = 0
    BY <1>1
  <1>4. distinct(nothing) /\ "" \notin ToSet(nothing) /\ Len(nothing) <= MaxValues
    <2> HIDE DEF nothing
    <2>1. distinct(nothing)
      BY <1>2, <1>3 DEF distinct
    <2> QED
      BY <1>3, <2>1, OidcPolicyAssumption
  <1> QED
    BY <1>1, <1>4 DEF validate_values

\* try_from takes a claim's values from its only request.
LEMMA OnlyRequest ==
  ASSUME NEW options, options.claims \in Seq(ToSet(options.claims)), NEW claim,
         Cardinality(Asked(options, claim)) <= 1
  PROVE  /\ Asked(options, claim) = {} <=>
              ~\E r \in ToSet(options.claims) : r.claim = claim
         /\ Asked(options, claim) = {} => ValuesOf(options, claim) = <<>>
         /\ \A r \in ToSet(options.claims) :
              r.claim = claim => ValuesOf(options, claim) = r.values
  <1> DEFINE seq == options.claims
             A == Asked(options, claim)
             first == Min(A)
  <1>1. /\ A = {i \in DOMAIN seq : seq[i].claim = claim}
        /\ DOMAIN seq = 1 .. Len(seq) /\ Len(seq) \in Nat
        /\ ToSet(seq) = {seq[i] : i \in DOMAIN seq}
    BY DEF Asked, ToSet
  <1>2. A = {} <=> ~\E r \in ToSet(seq) : r.claim = claim
    BY <1>1
  <1>3. IsFiniteSet(A) /\ A \subseteq Nat
    <2>1. IsFiniteSet(1 .. Len(seq)) /\ A \subseteq 1 .. Len(seq)
      BY <1>1, FS_Interval
    <2>2. IsFiniteSet(A)
      BY <2>1, FS_Subset
    <2> QED
      BY <1>1, <2>1, <2>2
  <1>4. A = {} => ValuesOf(options, claim) = <<>>
    BY DEF ValuesOf
  <1>5. ASSUME NEW r \in ToSet(seq), r.claim = claim
        PROVE  ValuesOf(options, claim) = r.values
    <2>1. PICK i \in DOMAIN seq : seq[i] = r
      BY <1>1
    <2>2. i \in A
      BY <1>1, <1>5, <2>1
    <2>3. first \in A
      BY <1>3, <2>2, FirstOf
    <2>4. first = i
      BY <1>3, <2>2, <2>3, OnlyOne
    <2>5. ValuesOf(options, claim) = seq[first].values
      BY <2>2 DEF ValuesOf
    <2> QED
      BY <2>1, <2>4, <2>5
  <1> QED
    BY <1>2, <1>4, <1>5

\* The age that max_age bounds, with the truncations of both clocks.
LEMMA AgeBound ==
  ASSUME NEW now \in Int, NEW skew \in Int, NEW age \in Int, NEW at \in Int,
         at >= now \div Second - age - skew \div Second
  PROVE  now < (at + age + 1) * Second + skew
  <1>1. Second \in Nat \ {0}
    BY AssuranceAssumption
  <1> DEFINE n == now \div Second
             k == skew \div Second
  <1>2. n \in Int /\ now < (n + 1) * Second /\ k \in Int /\ k * Second <= skew
    BY <1>1, RoundedDown
  <1>3. n + 1 <= (at + age + 1) + k
    BY <1>2
  <1> HIDE DEF n, k
  <1>4. /\ (n + 1) * Second <= ((at + age + 1) + k) * Second
        /\ ((at + age + 1) + k) * Second = (at + age + 1) * Second + k * Second
    BY <1>1, <1>2, <1>3
  <1>5. /\ (n + 1) * Second \in Int /\ (at + age + 1) * Second \in Int
        /\ k * Second \in Int
    BY <1>1, <1>2
  <1> QED
    BY <1>2, <1>4, <1>5

\* What try_from checks of the options it accepts, and what it makes of them.
LEMMA AcceptedOptions ==
  ASSUME NEW o, try_from(o) # Refused
  PROVE  /\ valid_prompt(o.prompt) /\ validate_values(o.acr_values)
         /\ o.max_age # None => o.max_age \in 0 .. MaxMaxAge
         /\ \A claim \in {"auth_time", "acr", "acrs"} : Cardinality(Asked(o, claim)) <= 1
         /\ Asked(o, "acr") # {} =>
              ValuesOf(o, "acr") # <<>> /\ validate_values(ValuesOf(o, "acr"))
         /\ Asked(o, "acrs") # {} =>
              Len(ValuesOf(o, "acrs")) = 1 /\ validate_values(ValuesOf(o, "acrs"))
         /\ o.acr_values = <<>> \/ ValuesOf(o, "acr") = <<>>
         /\ try_from(o) =
              [version |-> version(ValuesOf(o, "acrs")), prompt |-> o.prompt,
               max_age |-> o.max_age, acr_values |-> o.acr_values,
               auth_time |-> Asked(o, "auth_time") # {},
               acr |-> ValuesOf(o, "acr"), acrs |-> ValuesOf(o, "acrs")]
  BY DEF try_from

\* An ID token that validate_claims lets through is for this client, and
\* from an allowed tenant whose issuer names it or is configured.
LEMMA ClaimsForClient ==
  ASSUME NEW conf, NEW t, NEW now, validate_claims(conf, t, "nonce", now),
         IsFiniteSet(t.aud),
         \A iss \in conf.issuers \cup {conf.discovered} : "tenant" \in DOMAIN iss
  PROVE  /\ t.aud \subseteq {conf.client_id} \cup conf.extra
         /\ conf.kind = "MicrosoftEntra" =>
              /\ conf.tenants # {} => t.tid \in conf.tenants
              /\ \/ t.iss.tenant = t.tid
                 \/ t.iss \in conf.issuers \cup {conf.discovered}
              /\ t.tid = "consumers" => conf.consumers
  <1>1. /\ conf.client_id \in t.aud /\ validate_audiences(conf, t)
        /\ issuer_allowed(conf, t) /\ tenant_allowed(conf, t)
    BY DEF validate_claims
  <1>2. t.aud \subseteq {conf.client_id} \cup conf.extra
    <2>1. CASE Cardinality(t.aud) <= 1
      BY <1>1, <2>1, OnlyOne
    <2> QED
      BY <1>1, <2>1 DEF validate_audiences
  <1>3. t.iss.tenant = t.tid \/ t.iss \in conf.issuers \cup {conf.discovered}
    <2>1. PICK p \in conf.issuers \cup {conf.discovered} :
            issuer_pattern_matches(p, t.iss, t.tid)
      BY <1>1 DEF issuer_allowed
    <2>2. CASE [p EXCEPT !.tenant = t.tid] = t.iss
      BY <2>1, <2>2
    <2> QED
      BY <2>1, <2>2 DEF issuer_pattern_matches
  <1> QED
    BY <1>1, <1>2, <1>3 DEF tenant_allowed

\* The policy a host asked for is the policy that is stored, sent and enforced.
LEMMA SignInAnswer ==
  ASSUME Decided PROVE BoundPolicyEnforced
  <1> SUFFICES ASSUME Answered("sign_in") PROVE BoundPolicyEnforced
    BY DEF BoundPolicyEnforced
  <1> DEFINE o == probe.options
             t == probe.token
             conf == probe.conf
             now == probe.now
             policy == try_from(o)
             asked == ToSet(o.claims)
             acr == ValuesOf(o, "acr")
             acrs == ValuesOf(o, "acrs")
  <1>1. /\ now \in Int /\ conf.skew \in Int
        /\ o.max_age \in Int \cup {None} /\ t.auth_time \in Int \cup {None}
        /\ o.claims \in Seq(ToSet(o.claims))
        /\ \A r \in asked : /\ r.claim \in {"auth_time", "acr", "acrs"}
                            /\ r.values \in Seq(ToSet(r.values))
        /\ IsFiniteSet(t.aud)
        /\ \A iss \in conf.issuers \cup {conf.discovered} : "tenant" \in DOMAIN iss
    BY DEF Answered, Decided, WellTyped, Optional, IsSequence
  <1>2. /\ policy # Refused
        /\ verdict = [stored |-> validate_stored(policy),
                      sent |-> claims_parameter(policy),
                      ok |-> /\ validate_stored(policy)
                             /\ validate_claims(conf, t, "nonce", now)
                             /\ enforce_authorization_policy(conf, policy, t, now)]
    BY DEF Answered, Decided, Verdict
  <1>3. /\ verdict.stored = validate_stored(policy)
        /\ verdict.sent = claims_parameter(policy)
        /\ verdict.ok => /\ validate_claims(conf, t, "nonce", now)
                         /\ enforce_authorization_policy(conf, policy, t, now)
    BY <1>2
  <1>4. /\ valid_prompt(o.prompt) /\ validate_values(o.acr_values)
        /\ o.max_age # None => o.max_age \in 0 .. MaxMaxAge
        /\ \A claim \in {"auth_time", "acr", "acrs"} : Cardinality(Asked(o, claim)) <= 1
        /\ Asked(o, "acr") # {} => acr # <<>> /\ validate_values(acr)
        /\ Asked(o, "acrs") # {} => Len(acrs) = 1 /\ validate_values(acrs)
        /\ o.acr_values = <<>> \/ acr = <<>>
        /\ policy = [version |-> version(acrs), prompt |-> o.prompt,
                     max_age |-> o.max_age, acr_values |-> o.acr_values,
                     auth_time |-> Asked(o, "auth_time") # {}, acr |-> acr, acrs |-> acrs]
    BY <1>2, AcceptedOptions
  <1>5. \A claim \in {"auth_time", "acr", "acrs"} :
          /\ Asked(o, claim) = {} <=> ~\E r \in asked : r.claim = claim
          /\ Asked(o, claim) = {} => ValuesOf(o, claim) = <<>>
          /\ \A r \in asked : r.claim = claim => ValuesOf(o, claim) = r.values
    BY <1>1, <1>4, OnlyRequest
  <1>6. /\ policy.version = version(acrs) /\ policy.prompt = o.prompt
        /\ policy.max_age = o.max_age /\ policy.acr_values = o.acr_values
        /\ policy.auth_time = (Asked(o, "auth_time") # {})
        /\ policy.acr = acr /\ policy.acrs = acrs
    BY <1>4
  <1>7. /\ Asked(o, "acr") # {} <=> acr # <<>>
        /\ Asked(o, "acrs") # {} <=> acrs # <<>>
        /\ validate_values(acr) /\ validate_values(acrs)
    <2>1. Len(acrs) = 1 => acrs # <<>>
      OBVIOUS
    <2> HIDE DEF acr, acrs
    <2>2. /\ Asked(o, "acr") = {} => acr = <<>>
          /\ Asked(o, "acrs") = {} => acrs = <<>>
      BY <1>5 DEF acr, acrs
    <2> QED
      BY <1>4, <2>1, <2>2, NoValues, Zenon
  <1> HIDE DEF policy, acr, acrs, asked
  <1>8. validate_stored(policy)
    BY <1>1, <1>4, <1>6, <1>7, OidcPolicyAssumption DEF validate_stored, version
  <1>9. claims_parameter(policy) = {r.claim : r \in asked}
    <2>1. \A claim \in {"auth_time", "acr", "acrs"} :
            claim \in claims_parameter(policy) <=> Asked(o, claim) # {}
      BY <1>6, <1>7 DEF claims_parameter
    <2>2. claims_parameter(policy) \subseteq {"auth_time", "acr", "acrs"}
      BY DEF claims_parameter
    <2> QED
      BY <1>1, <1>5, <2>1, <2>2
  <1>10. ASSUME verdict.ok, o.max_age # None
         PROVE  now < (t.auth_time + o.max_age + 1) * Second + conf.skew
    <2>1. /\ t.auth_time # None
          /\ t.auth_time >= now \div Second - o.max_age - conf.skew \div Second
      BY <1>3, <1>6, <1>10 DEF enforce_authorization_policy
    <2> QED
      BY <1>1, <1>10, <2>1, AgeBound
  <1>11. ASSUME verdict.ok, NEW r \in asked
         PROVE  CASE r.claim = "auth_time" -> t.auth_time # None
                  [] r.claim = "acr"  -> t.acr \in ToSet(r.values)
                  [] r.claim = "acrs" -> t.acrs # None /\ ToSet(r.values) \subseteq ToSet(t.acrs)
    <2>1. enforce_authorization_policy(conf, policy, t, now)
      BY <1>3, <1>11
    <2>2. CASE r.claim = "auth_time"
      BY <1>5, <1>6, <2>1, <2>2 DEF enforce_authorization_policy
    <2>3. CASE r.claim = "acr"
      <3>1. acr = r.values /\ acr # <<>>
        BY <1>5, <1>7, <2>3 DEF acr
      <3> QED
        BY <1>6, <2>1, <2>3, <3>1 DEF enforce_authorization_policy
    <2>4. CASE r.claim = "acrs"
      <3>1. acrs = r.values /\ acrs # <<>> /\ Len(acrs) = 1
        BY <1>4, <1>5, <1>7, <2>4 DEF acrs
      <3>2. t.acrs # None /\ acrs[1] \in ToSet(t.acrs)
        BY <1>6, <2>1, <3>1 DEF enforce_authorization_policy
      <3>3. ToSet(r.values) = {acrs[1]}
        BY <1>1, <3>1 DEF ToSet
      <3> QED
        BY <2>4, <3>2, <3>3
    <2> QED
      BY <1>1, <2>2, <2>3, <2>4
  <1>12. ASSUME verdict.ok
         PROVE  /\ t.aud \subseteq {conf.client_id} \cup conf.extra
                /\ conf.kind = "MicrosoftEntra" =>
                     /\ conf.tenants # {} => t.tid \in conf.tenants
                     /\ \/ t.iss.tenant = t.tid
                        \/ t.iss \in conf.issuers \cup {conf.discovered}
                     /\ t.tid = "consumers" => conf.consumers
    <2>1. validate_claims(conf, t, "nonce", now)
      BY <1>3, <1>12
    <2> QED
      BY <1>1, <2>1, ClaimsForClient
  <1> QED
    BY <1>3, <1>8, <1>9, <1>10, <1>11, <1>12 DEF BoundPolicyEnforced, asked

\* A sign-in that is accepted is the one the host asked for, for every set
\* of options, every clock skew and every length of a value list.
THEOREM PolicyEnforced == Spec => []BoundPolicyEnforced
  <1>1. Decided => BoundPolicyEnforced
    BY SignInAnswer
  <1> QED
    BY <1>1, DecidedAlways, PTL

-----------------------------------------------------------------------------
(* Scopes.  The positions where a scope is cut, in their order.            *)

Below(S, c) == {y \in S : y < c}

\* A number is found again by how many smaller ones there are.
LEMMA RankIsUnique ==
  ASSUME NEW S \in SUBSET Nat, IsFiniteSet(S), NEW c \in S
  PROVE  LET n == Cardinality(Below(S, c)) + 1
         IN  n \in 1 .. Cardinality(S) /\ Nth(S, n) = c
  <1> DEFINE n == Cardinality(Below(S, c)) + 1
  <1>1. ASSUME NEW x \in S
        PROVE  /\ IsFiniteSet(Below(S, x)) /\ Cardinality(Below(S, x)) \in Nat
               /\ Cardinality(Below(S, x)) < Cardinality(S)
               /\ Cardinality(S) \in Nat
    <2>1. Below(S, x) \in SUBSET S /\ x \notin Below(S, x)
      BY DEF Below
    <2>2. /\ IsFiniteSet(Below(S, x)) /\ Cardinality(Below(S, x)) <= Cardinality(S)
          /\ Cardinality(S) # Cardinality(Below(S, x))
      BY <2>1, FS_Subset, Zenon
    <2> QED
      BY <2>2, FS_CardinalityType
  <1>2. ASSUME NEW x \in S, NEW y \in S, x < y
        PROVE  Cardinality(Below(S, x)) < Cardinality(Below(S, y))
    <2>0. x \in Nat /\ y \in Nat
      OBVIOUS
    <2>1. Below(S, x) \in SUBSET Below(S, y) /\ x \in Below(S, y) /\ x \notin Below(S, x)
      <3>1. ~(x < x) /\ \A z \in S : z < x => z < y
        BY <1>2, <2>0
      <3> QED
        BY <1>2, <3>1, Zenon DEF Below
    <2>2. /\ Cardinality(Below(S, x)) <= Cardinality(Below(S, y))
          /\ Cardinality(Below(S, x)) # Cardinality(Below(S, y))
      BY <1>1, <2>1, FS_Subset, Zenon
    <2> QED
      BY <1>1, <2>2
  <1>3. ASSUME NEW x \in S, Cardinality(Below(S, x)) = Cardinality(Below(S, c))
        PROVE  x = c
    <2>1. ~(x < c) /\ ~(c < x)
      BY <1>1, <1>2, <1>3
    <2> QED
      BY <2>1
  <1>4. n - 1 = Cardinality(Below(S, c)) /\ n \in 1 .. Cardinality(S)
    BY <1>1
  <1> HIDE DEF n
  <1>5. Nth(S, n) = CHOOSE x \in S : Cardinality(Below(S, x)) = Cardinality(Below(S, c))
    BY <1>4 DEF Nth, Below
  <1>6. Nth(S, n) = c
    BY <1>3, <1>5
  <1> QED
    BY <1>4, <1>6 DEF n

\* Every rank is taken.
LEMMA RankIsTaken ==
  ASSUME NEW S \in SUBSET Nat, IsFiniteSet(S), NEW n \in 1 .. Cardinality(S)
  PROVE  Nth(S, n) \in S /\ Cardinality(Below(S, Nth(S, n))) = n - 1
  <1> DEFINE Taken(k) == \E x \in S : Cardinality(Below(S, x)) = k - 1
             Free == {k \in 1 .. Cardinality(S) : ~Taken(k)}
  <1>0. Cardinality(S) \in Nat
    BY FS_CardinalityType
  <1>1. Free = {}
    <2> SUFFICES ASSUME Free # {} PROVE FALSE
      OBVIOUS
    <2> DEFINE k == Min(Free)
    <2>1. k \in Free /\ \A j \in Free : k <= j
      BY <1>0, FirstOf
    <2>2. k \in 1 .. Cardinality(S) /\ ~Taken(k) /\ \A j \in 1 .. (k - 1) : Taken(j)
      <3>1. k \in 1 .. Cardinality(S) /\ ~Taken(k)
        BY <2>1
      <3>2. ASSUME NEW j \in 1 .. (k - 1) PROVE Taken(j)
        <4>1. j \in 1 .. Cardinality(S) /\ ~(k <= j)
          BY <1>0, <3>1, <3>2
        <4> QED
          BY <2>1, <4>1
      <3> QED
        BY <3>1, <3>2
    <2> HIDE DEF k, Free
    \* The numbers a, below which there are k - 1 others.
    <2>3. PICK A \in SUBSET S : /\ Cardinality(A) = k - 1
                                /\ \A x \in S \ A : \A y \in A : y < x
      <3>1. CASE k = 1
        BY <3>1, FS_EmptySet
      <3>2. CASE k # 1
        <4>1. PICK x \in S : Cardinality(Below(S, x)) = k - 2
          <5>1. k - 1 \in 1 .. (k - 1) /\ (k - 1) - 1 = k - 2
            BY <1>0, <2>2, <3>2
          <5> QED
            BY <2>2, <5>1
        <4> DEFINE A == Below(S, x) \cup {x}
        <4>2. /\ A \in SUBSET S /\ x \notin Below(S, x)
              /\ \A u \in S \ A : \A y \in A : y < u
          BY DEF Below
        <4>3. IsFiniteSet(Below(S, x))
          BY FS_Subset DEF Below
        <4>4. Cardinality(A) = (k - 2) + 1
          BY <4>1, <4>2, <4>3, FS_AddElement
        <4>5. Cardinality(A) = k - 1
          BY <1>0, <2>2, <4>4
        <4> QED
          BY <4>2, <4>5
      <3> QED
        BY <3>1, <3>2
    <2>4. S \ A # {}
      <3>1. A # S
        BY <1>0, <2>2, <2>3
      <3> QED
        BY <3>1
    <2> DEFINE m == Min(S \ A)
    <2>5. m \in S \ A /\ \A y \in S \ A : m <= y
      BY <2>4, FirstOf
    <2>6. m \in S /\ Below(S, m) = A
      <3> HIDE DEF m
      <3>1. m \in Nat
        BY <2>5
      <3>2. ASSUME NEW y \in S \ A PROVE ~(y < m)
        <4>1. y \in Nat /\ m <= y
          BY <2>5
        <4> QED
          BY <3>1, <4>1
      <3> QED
        BY <2>3, <2>5, <3>2, Zenon DEF Below
    <2> QED
      BY <2>2, <2>3, <2>6
  <1>2. \E x \in S : Cardinality(Below(S, x)) = n - 1
    BY <1>1
  <1> QED
    BY <1>2 DEF Nth, Below

\* The cuts of a scope are finitely many.
LEMMA CutsOf ==
  ASSUME NEW C, NEW s \in Seq(C), NEW sep
  PROVE  /\ Cuts(s, sep) \in SUBSET Nat /\ IsFiniteSet(Cuts(s, sep))
         /\ Cardinality(Cuts(s, sep)) \in Nat
         /\ 0 \in Cuts(s, sep)
         /\ \A c \in Cuts(s, sep) : c \in 0 .. Len(s)
         /\ \A k \in 1 .. Len(s) : k \in Cuts(s, sep) <=> s[k] = sep
  <1>1. Cuts(s, sep) \in SUBSET Nat /\ \A c \in Cuts(s, sep) : c \in 0 .. Len(s)
    BY DEF Cuts
  <1>2. IsFiniteSet(Cuts(s, sep))
    <2>1. Cuts(s, sep) \in SUBSET (0 .. Len(s)) /\ IsFiniteSet(0 .. Len(s))
      BY <1>1, FS_Interval
    <2> QED
      BY <2>1, FS_Subset
  <1> QED
    BY <1>1, <1>2, FS_CardinalityType DEF Cuts

\* The segment behind the cut c stands before the position e.
EndsAt(s, sep, c, e) ==
  /\ e = Len(s) + 1 \/ s[e] = sep
  /\ \A k \in (c + 1) .. (e - 1) : s[k] # sep
  /\ Len(Segment(s, sep, c)) = e - 1 - c
  /\ \A k \in 1 .. (e - 1 - c) : Segment(s, sep, c)[k] = s[c + k]

\* A segment is what stands between a cut and the next one.
LEMMA SegmentAt ==
  ASSUME NEW C, NEW s \in Seq(C), NEW sep, NEW c \in 0 .. Len(s)
  PROVE  \E e \in (c + 1) .. (Len(s) + 1) : EndsAt(s, sep, c, e)
  <1> DEFINE E == {i \in Cuts(s, sep) : i > c} \cup {Len(s) + 1}
             e == Min(E)
  <1>1. /\ E \subseteq Nat /\ E # {} /\ Len(s) + 1 \in E
        /\ \A i \in E : i \in (c + 1) .. (Len(s) + 1)
        /\ \A i \in (c + 1) .. Len(s) : i \in E <=> s[i] = sep
    BY CutsOf
  <1>2. Segment(s, sep, c) = SubSeq(s, c + 1, e - 1)
    BY DEF Segment
  <1> HIDE DEF E
  <1>3. e \in E /\ \A i \in E : e <= i
    BY <1>1, FirstOf
  <1> HIDE DEF e
  <1>4. e \in (c + 1) .. (Len(s) + 1)
    BY <1>1, <1>3
  <1>5. e = Len(s) + 1 \/ s[e] = sep
    BY <1>1, <1>3, <1>4
  <1>6. \A k \in (c + 1) .. (e - 1) : s[k] # sep
    BY <1>1, <1>3, <1>4
  <1>7. /\ Len(SubSeq(s, c + 1, e - 1)) = e - 1 - c
        /\ \A k \in 1 .. (e - 1 - c) : SubSeq(s, c + 1, e - 1)[k] = s[c + k]
    BY <1>4
  <1> QED
    BY <1>2, <1>4, <1>5, <1>6, <1>7 DEF EndsAt

\* The last of some numbers below a bound.
LEMMA LastBelow ==
  ASSUME NEW S \in SUBSET Nat, NEW k \in Nat, NEW x \in S, x < k
  PROVE  \E q \in S : q < k /\ \A y \in S : y < k => y <= q
  <1> DEFINE T == {m \in 1 .. k : k - m \in S}
  <1>1. x \in Nat /\ k - x \in T /\ T \subseteq Nat
    OBVIOUS
  <1>2. Min(T) \in T /\ \A m \in T : Min(T) <= m
    BY <1>1, FirstOf
  <1>3. PICK m \in T : \A j \in T : m <= j
    BY <1>2
  <1>4. m \in 1 .. k /\ k - m \in S /\ k - m < k
    OBVIOUS
  <1>5. ASSUME NEW y \in S, y < k PROVE y <= k - m
    <2>1. y \in Nat
      OBVIOUS
    <2>2. k - y \in 1 .. k /\ k - (k - y) = y
      BY <1>5, <2>1
    <2>3. m <= k - y
      BY <1>3, <2>2
    <2> QED
      BY <1>4, <2>1, <2>2, <2>3
  <1> QED
    BY <1>4, <1>5

\* The segments of a scope, one after each cut.
LEMMA SegmentsOf ==
  ASSUME NEW C, NEW s \in Seq(C), NEW sep
  PROVE  /\ DOMAIN split(s, sep) = 1 .. Cardinality(Cuts(s, sep))
         /\ Len(split(s, sep)) = Cardinality(Cuts(s, sep))
         /\ \A c \in Cuts(s, sep) :
              LET i == Cardinality(Below(Cuts(s, sep), c)) + 1
              IN  i \in DOMAIN split(s, sep) /\ split(s, sep)[i] = Segment(s, sep, c)
  <1>1. /\ Cuts(s, sep) \in SUBSET Nat /\ IsFiniteSet(Cuts(s, sep))
        /\ Cardinality(Cuts(s, sep)) \in Nat
    BY CutsOf
  <1>2. /\ DOMAIN split(s, sep) = 1 .. Cardinality(Cuts(s, sep))
        /\ Len(split(s, sep)) = Cardinality(Cuts(s, sep))
    BY <1>1 DEF split
  <1>3. ASSUME NEW c \in Cuts(s, sep)
        PROVE  LET i == Cardinality(Below(Cuts(s, sep), c)) + 1
               IN  i \in DOMAIN split(s, sep) /\ split(s, sep)[i] = Segment(s, sep, c)
    <2> DEFINE i == Cardinality(Below(Cuts(s, sep), c)) + 1
    <2>1. i \in 1 .. Cardinality(Cuts(s, sep)) /\ Nth(Cuts(s, sep), i) = c
      BY <1>1, RankIsUnique
    <2> HIDE DEF i
    <2>2. i \in DOMAIN split(s, sep) /\ split(s, sep)[i] = Segment(s, sep, c)
      BY <2>1 DEF split
    <2> QED
      BY <2>2 DEF i
  <1> QED
    BY <1>2, <1>3

\* Two scopes with as many segments, the same up to some position, read the
\* same up to that position.
LEMMA SegmentsAgree ==
  ASSUME NEW C, NEW d \in Seq(C), NEW r \in Seq(C), NEW sep, NEW n \in 0 .. Len(d),
         Cardinality(Cuts(d, sep)) = Cardinality(Cuts(r, sep)),
         \A c \in Cuts(d, sep) :
           c < n => LET i == Cardinality(Below(Cuts(d, sep), c)) + 1
                    IN  split(d, sep)[i] = split(r, sep)[i]
  PROVE  n <= Len(r) /\ \A k \in 1 .. n : d[k] = r[k]
  <1> DEFINE D == Cuts(d, sep)
             R == Cuts(r, sep)
             bad == {k \in 1 .. n : k > Len(r) \/ d[k] # r[k]}
  <1>1. /\ D \in SUBSET Nat /\ IsFiniteSet(D) /\ 0 \in D /\ \A c \in D : c \in 0 .. Len(d)
        /\ \A k \in 1 .. Len(d) : k \in D <=> d[k] = sep
        /\ R \in SUBSET Nat /\ IsFiniteSet(R) /\ 0 \in R /\ \A c \in R : c \in 0 .. Len(r)
        /\ \A k \in 1 .. Len(r) : k \in R <=> r[k] = sep
        /\ Len(d) \in Nat /\ Len(r) \in Nat
    BY CutsOf
  <1>2. ASSUME bad # {} PROVE FALSE
    <2> DEFINE k == Min(bad)
    <2>1. k \in bad /\ \A j \in bad : k <= j
      <3>1. bad \subseteq Nat
        OBVIOUS
      <3> HIDE DEF bad
      <3> QED
        BY <1>2, <3>1, FirstOf
    <2> HIDE DEF k
    <2>2. k \in 1 .. n /\ (k > Len(r) \/ d[k] # r[k]) /\ k \in 1 .. Len(d)
      BY <1>1, <2>1
    <2>3. \A j \in 1 .. (k - 1) : j <= Len(r) /\ d[j] = r[j]
      <3> SUFFICES ASSUME NEW j \in 1 .. (k - 1) PROVE j <= Len(r) /\ d[j] = r[j]
        OBVIOUS
      <3>1. j \in 1 .. n /\ ~(k <= j)
        BY <2>2
      <3> QED
        BY <1>1, <2>1, <3>1
    <2> HIDE DEF bad, D, R
    <2>4. PICK q \in D : q < k /\ \A y \in D : y < k => y <= q
      <3>1. k \in Nat /\ 0 < k
        BY <2>2
      <3> QED
        BY <1>1, <3>1, LastBelow
    <2>5. q \in Nat /\ q \in 0 .. (k - 1) /\ q \in 0 .. Len(d) /\ q \in 0 .. Len(r) /\ q < n
      BY <1>1, <2>2, <2>3, <2>4
    <2>6. \A y \in 0 .. (k - 1) : y \in D <=> y \in R
      BY <1>1, <2>2, <2>3
    <2>7. q \in R /\ Below(D, q) = Below(R, q)
      <3>1. q \in R
        BY <2>4, <2>5, <2>6
      <3>2. \A y \in D \cup R : y < q => y \in 0 .. (k - 1)
        BY <1>1, <2>2, <2>5
      <3> QED
        BY <2>6, <3>1, <3>2 DEF Below
    <2>8. Segment(d, sep, q) = Segment(r, sep, q)
      <3> DEFINE i == Cardinality(Below(D, q)) + 1
      <3>1. split(d, sep)[i] = Segment(d, sep, q)
        BY <2>4, SegmentsOf DEF D
      <3>2. split(r, sep)[i] = Segment(r, sep, q)
        BY <2>7, SegmentsOf DEF R
      <3>3. split(d, sep)[i] = split(r, sep)[i]
        BY <2>4, <2>5 DEF D
      <3> QED
        BY <3>1, <3>2, <3>3
    <2>e. PICK e \in (q + 1) .. (Len(d) + 1) : EndsAt(d, sep, q, e)
      BY <2>5, SegmentAt
    <2>f. PICK f \in (q + 1) .. (Len(r) + 1) : EndsAt(r, sep, q, f)
      BY <2>5, SegmentAt
    <2>9. /\ e = Len(d) + 1 \/ d[e] = sep
          /\ Len(Segment(d, sep, q)) = e - 1 - q
          /\ \A j \in 1 .. (e - 1 - q) : Segment(d, sep, q)[j] = d[q + j]
      BY <2>e DEF EndsAt
    <2>10. /\ f = Len(r) + 1 \/ r[f] = sep
           /\ Len(Segment(r, sep, q)) = f - 1 - q
           /\ \A j \in 1 .. (f - 1 - q) : Segment(r, sep, q)[j] = r[q + j]
      BY <2>f DEF EndsAt
    <2>11. e = f
      BY <1>1, <2>5, <2>8, <2>9, <2>10
    <2>12. k <= e
      <3>1. CASE e = Len(d) + 1
        BY <1>1, <2>2, <3>1
      <3>2. CASE e # Len(d) + 1
        <4>1. e \in 1 .. Len(d) /\ q < e
          BY <1>1, <2>5, <3>2
        <4>2. d[e] = sep
          BY <2>9, <3>2
        <4>3. e \in D /\ ~(e <= q)
          BY <1>1, <2>5, <4>1, <4>2
        <4>4. ~(e < k)
          BY <2>4, <4>3
        <4> QED
          BY <2>2, <4>1, <4>4
      <3> QED
        BY <3>1, <3>2
    <2>13. CASE k < e
      <3>1. k - q \in 1 .. (e - 1 - q) /\ q + (k - q) = k /\ k <= Len(r)
        BY <1>1, <2>2, <2>5, <2>9, <2>10, <2>11, <2>13
      <3>2. d[k] = r[k]
        BY <2>8, <2>9, <2>10, <2>11, <3>1
      <3> QED
        BY <1>1, <2>2, <3>1, <3>2
    <2>14. CASE k = e
      <3>1. d[k] = sep /\ k \in D
        BY <1>1, <2>2, <2>9, <2>14
      <3>2. CASE f = Len(r) + 1
        <4>1. R \in SUBSET D
          <5> SUFFICES ASSUME NEW y \in R PROVE y \in D
            OBVIOUS
          <5>1. y \in 0 .. Len(r) /\ y \in 0 .. (k - 1)
            BY <1>1, <2>11, <2>14, <3>2
          <5> QED
            BY <2>6, <5>1
        <4>2. k \notin R
          BY <1>1, <2>2, <2>11, <2>14, <3>2
        <4>3. Cardinality(D) # Cardinality(R)
          BY <1>1, <3>1, <4>1, <4>2, FS_Subset
        <4> QED
          BY <4>3 DEF D, R
      <3>3. CASE f # Len(r) + 1
        <4>1. f \in 1 .. Len(r) /\ r[f] = sep
          BY <1>1, <2>5, <2>10, <3>3
        <4> QED
          BY <1>1, <2>2, <2>11, <2>14, <3>1, <4>1
      <3> QED
        BY <3>2, <3>3
    <2> QED
      BY <1>1, <2>2, <2>9, <2>12, <2>13, <2>14
  <1>3. \A k \in 1 .. n : ~(k > Len(r)) /\ d[k] = r[k]
    BY <1>2
  <1>4. n <= Len(r)
    BY <1>1, <1>3
  <1> QED
    BY <1>3, <1>4

\* The last segment stands behind the cut q.
LastAt(s, sep, q) ==
  LET n    == Cardinality(Cuts(s, sep))
      last == split(s, sep)[n]
  IN  /\ q \in 0 .. Len(s) /\ n \in DOMAIN split(s, sep)
      /\ \A k \in (q + 1) .. Len(s) : s[k] # sep
      /\ Len(last) = Len(s) - q
      /\ \A k \in 1 .. (Len(s) - q) : last[k] = s[q + k]

\* The last segment of a scope reaches its end.
LEMMA LastSegment ==
  ASSUME NEW C, NEW s \in Seq(C), NEW sep
  PROVE  \E q \in Cuts(s, sep) : LastAt(s, sep, q)
  <1> DEFINE S == Cuts(s, sep)
             n == Cardinality(S)
             last == split(s, sep)[n]
  <1>1. /\ S \in SUBSET Nat /\ IsFiniteSet(S) /\ 0 \in S /\ \A c \in S : c \in 0 .. Len(s)
        /\ \A k \in 1 .. Len(s) : k \in S <=> s[k] = sep
        /\ Len(s) \in Nat /\ n \in Nat
    BY CutsOf
  <1>2. PICK q \in S : \A y \in S : y < Len(s) + 1 => y <= q
    <2>1. Len(s) + 1 \in Nat /\ 0 < Len(s) + 1
      BY <1>1
    <2> HIDE DEF S
    <2> QED
      BY <1>1, <2>1, LastBelow
  <1> HIDE DEF S
  <1>3. q \in 0 .. Len(s) /\ \A y \in S : y <= q
    BY <1>1, <1>2
  <1>4. \A k \in (q + 1) .. Len(s) : s[k] # sep
    <2> SUFFICES ASSUME NEW k \in (q + 1) .. Len(s), k \in S PROVE FALSE
      BY <1>1, <1>3
    <2> QED
      BY <1>1, <1>3
  <1>5. Cardinality(Below(S, q)) + 1 = n
    <2>1. Below(S, q) = S \ {q}
      <3>1. \A y \in S : y < q <=> y # q
        BY <1>1, <1>3
      <3> QED
        BY <3>1, Zenon DEF Below
    <2>2. Cardinality(S \ {q}) = n - 1
      BY <1>1, FS_RemoveElement
    <2> QED
      BY <1>1, <2>1, <2>2
  <1>6. n \in DOMAIN split(s, sep) /\ last = Segment(s, sep, q)
    BY <1>5, SegmentsOf DEF S
  <1>e. PICK e \in (q + 1) .. (Len(s) + 1) : EndsAt(s, sep, q, e)
    BY <1>3, SegmentAt
  <1>7. /\ e = Len(s) + 1 \/ s[e] = sep
        /\ Len(Segment(s, sep, q)) = e - 1 - q
        /\ \A k \in 1 .. (e - 1 - q) : Segment(s, sep, q)[k] = s[q + k]
    BY <1>e DEF EndsAt
  <1>8. e = Len(s) + 1 /\ e - 1 - q = Len(s) - q
    BY <1>1, <1>3, <1>4, <1>7
  <1> QED
    BY <1>3, <1>4, <1>6, <1>7, <1>8 DEF S, LastAt

\* What starts_with and ends_with say, character by character.
LEMMA StartsWith ==
  ASSUME NEW C, NEW s \in Seq(C), NEW t \in Seq(C)
  PROVE  IsPrefix(s, t) <=> Len(s) <= Len(t) /\ \A k \in 1 .. Len(s) : t[k] = s[k]
  <1>1. Len(s) \in Nat /\ Len(t) \in Nat
    OBVIOUS
  <1>2. ASSUME Len(s) <= Len(t)
        PROVE  /\ Len(SubSeq(s, 1, Len(s))) = Len(s) /\ SubSeq(s, 1, Len(s)) \in Seq(C)
               /\ Len(SubSeq(t, 1, Len(s))) = Len(s) /\ SubSeq(t, 1, Len(s)) \in Seq(C)
               /\ \A k \in 1 .. Len(s) : /\ SubSeq(s, 1, Len(s))[k] = s[k]
                                         /\ SubSeq(t, 1, Len(s))[k] = t[k]
    BY <1>1, <1>2
  <1>3. ASSUME Len(s) <= Len(t), \A k \in 1 .. Len(s) : t[k] = s[k]
        PROVE  SubSeq(s, 1, Len(s)) = SubSeq(t, 1, Len(s))
    BY <1>2, <1>3
  <1> QED
    BY <1>2, <1>3 DEF IsPrefix

\* The same for ends_with.
LEMMA EndsWith ==
  ASSUME NEW C, NEW w \in Seq(C), NEW s \in Seq(C)
  PROVE  IsSuffix(w, s) <=>
           Len(w) <= Len(s) /\ \A k \in 1 .. Len(w) : s[Len(s) - Len(w) + k] = w[k]
  <1>1. /\ Len(w) \in Nat /\ Len(s) \in Nat
        /\ Reverse(w) \in Seq(C) /\ Len(Reverse(w)) = Len(w)
        /\ Reverse(s) \in Seq(C) /\ Len(Reverse(s)) = Len(s)
        /\ \A k \in 1 .. Len(w) : Reverse(w)[k] = w[(Len(w) - k) + 1]
        /\ \A k \in 1 .. Len(s) : Reverse(s)[k] = s[(Len(s) - k) + 1]
    BY DEF Reverse
  <1>2. IsSuffix(w, s) <=> Len(w) <= Len(s) /\ \A k \in 1 .. Len(w) : Reverse(s)[k] = Reverse(w)[k]
    BY <1>1, StartsWith DEF IsSuffix
  <1>3. ASSUME Len(w) <= Len(s), \A k \in 1 .. Len(w) : Reverse(s)[k] = Reverse(w)[k],
               NEW k \in 1 .. Len(w)
        PROVE  s[Len(s) - Len(w) + k] = w[k]
    <2> DEFINE j == Len(w) - k + 1
    <2>1. /\ j \in 1 .. Len(w) /\ j \in 1 .. Len(s) /\ (Len(w) - j) + 1 = k
          /\ (Len(s) - j) + 1 = Len(s) - Len(w) + k
      BY <1>1, <1>3
    <2> HIDE DEF j
    <2> QED
      BY <1>1, <1>3, <2>1
  <1>4. ASSUME Len(w) <= Len(s), \A k \in 1 .. Len(w) : s[Len(s) - Len(w) + k] = w[k],
               NEW k \in 1 .. Len(w)
        PROVE  Reverse(s)[k] = Reverse(w)[k]
    <2> DEFINE j == Len(w) - k + 1
    <2>1. /\ j \in 1 .. Len(w) /\ k \in 1 .. Len(s) /\ (Len(w) - k) + 1 = j
          /\ (Len(s) - k) + 1 = Len(s) - Len(w) + j
      BY <1>1, <1>4
    <2> HIDE DEF j
    <2> QED
      BY <1>1, <1>4, <2>1
  <1> QED
    BY <1>2, <1>3, <1>4

\* What stands behind a prefix.
LEMMA RestOf ==
  ASSUME NEW C, NEW r \in Seq(C), NEW n \in 0 .. Len(r)
  PROVE  LET rest == SubSeq(r, n + 1, Len(r))
         IN  (rest # <<>> /\ ~Contains(rest, Sep)) <=>
               (n < Len(r) /\ \A k \in (n + 1) .. Len(r) : r[k] # Sep)
  <1> DEFINE rest == SubSeq(r, n + 1, Len(r))
  <1>0. Len(r) \in Nat /\ n \in Nat
    OBVIOUS
  <1>1. /\ rest \in Seq(C) /\ Len(rest) = Len(r) - n
        /\ \A k \in 1 .. (Len(r) - n) : rest[k] = r[n + k]
    BY <1>0
  <1> HIDE DEF rest
  <1>2. rest # <<>> <=> n < Len(r)
    BY <1>0, <1>1
  <1>3. Contains(rest, Sep) <=> \E k \in 1 .. (Len(r) - n) : r[n + k] = Sep
    BY <1>1 DEF Contains
  <1>4. ASSUME NEW k \in 1 .. (Len(r) - n), r[n + k] = Sep
        PROVE  \E j \in (n + 1) .. Len(r) : r[j] = Sep
    <2>1. n + k \in (n + 1) .. Len(r)
      BY <1>0
    <2> QED
      BY <1>4, <2>1
  <1>5. ASSUME NEW k \in (n + 1) .. Len(r), r[k] = Sep
        PROVE  \E j \in 1 .. (Len(r) - n) : r[n + j] = Sep
    <2>1. k - n \in 1 .. (Len(r) - n) /\ n + (k - n) = k
      BY <1>0
    <2> QED
      BY <1>5, <2>1
  <1> QED
    BY <1>2, <1>3, <1>4, <1>5 DEF rest

\* The first n characters of g, and behind them anything or one segment.
Continues(o, g, r, n) ==
  /\ n <= Len(r) /\ \A k \in 1 .. n : r[k] = g[k]
  /\ o.multi \/ (n < Len(r) /\ \A k \in (n + 1) .. Len(r) : r[k] # Sep)

\* A trailing wildcard, character by character.
LEMMA TrailingMatch ==
  ASSUME NEW C, NEW o, o.wildcard \in Seq(C), NEW g \in Seq(C), NEW r \in Seq(C),
         Len(o.wildcard) <= Len(g)
  PROVE  trailing_matches(o, g, r) <=> Continues(o, g, r, Len(g) - Len(o.wildcard))
  <1> DEFINE w == o.wildcard
             n == Len(g) - Len(w)
             prefix == SubSeq(g, 1, n)
             rest   == SubSeq(r, n + 1, Len(r))
             Within == \A k \in (n + 1) .. Len(r) : r[k] # Sep
  <1>0. Len(g) \in Nat /\ Len(r) \in Nat /\ n \in Nat /\ n <= Len(g)
    OBVIOUS
  <1>n. n = Len(g) - Len(o.wildcard)
    OBVIOUS
  <1> HIDE DEF n, w
  <1>1. /\ prefix \in Seq(C) /\ Len(prefix) = n /\ \A k \in 1 .. n : prefix[k] = g[k]
    BY <1>0
  <1> HIDE DEF prefix
  <1>2. trailing_matches(o, g, r) <=>
          /\ IsPrefix(prefix, r)
          /\ o.multi \/ (rest # <<>> /\ ~Contains(rest, Sep))
    BY <1>1, <1>n, Zenon DEF trailing_matches, prefix
  <1>3. IsPrefix(prefix, r) <=> Len(prefix) <= Len(r) /\ \A k \in 1 .. Len(prefix) : r[k] = prefix[k]
    BY <1>1, StartsWith
  <1>4. IsPrefix(prefix, r) <=> n <= Len(r) /\ \A k \in 1 .. n : r[k] = g[k]
    BY <1>1, <1>3
  <1>5. n <= Len(r) => ((rest # <<>> /\ ~Contains(rest, Sep)) <=> n < Len(r) /\ Within)
    <2>1. n <= Len(r) => n \in 0 .. Len(r)
      BY <1>0
    <2> QED
      BY <2>1, RestOf
  <1> HIDE DEF rest, Within
  <1> QED
    BY <1>2, <1>4, <1>5, <1>n, Zenon DEF Within, Continues

\* segments_match, for a wildcard w.
MatchSegments(w, g, r) ==
  /\ Len(split(g, Sep)) = Len(split(r, Sep))
  /\ \A i \in DOMAIN split(g, Sep) :
       split(g, Sep)[i] = w \/ split(g, Sep)[i] = split(r, Sep)[i]

\* A literal prefix of the granted scope survives a match by segments.
LEMMA PrefixKept ==
  ASSUME NEW C, NEW w \in Seq(C), w # <<>>,
         NEW d \in Seq(C), NEW r \in Seq(C), MatchSegments(w, d, r),
         NEW n \in 0 .. Len(d), \A k \in 1 .. n : d[k] \notin ToSet(w)
  PROVE  n <= Len(r) /\ \A k \in 1 .. n : d[k] = r[k]
  <1> DEFINE D == split(d, Sep)
             R == split(r, Sep)
             Cd == Cuts(d, Sep)
  <1>1. Len(D) = Len(R) /\ \A i \in DOMAIN D : D[i] = w \/ D[i] = R[i]
    BY DEF MatchSegments
  <1>2. /\ Len(D) = Cardinality(Cd) /\ Len(R) = Cardinality(Cuts(r, Sep))
        /\ \A c \in Cd : LET i == Cardinality(Below(Cd, c)) + 1
                         IN  i \in DOMAIN D /\ D[i] = Segment(d, Sep, c)
    BY SegmentsOf
  <1>3. ASSUME NEW c \in Cd, c < n PROVE Segment(d, Sep, c) # w
    <2>1. c \in 0 .. Len(d) /\ c + 1 \in 1 .. n
      BY <1>3, CutsOf
    <2>e. PICK e \in (c + 1) .. (Len(d) + 1) : EndsAt(d, Sep, c, e)
      BY <2>1, SegmentAt
    <2>2. /\ Len(Segment(d, Sep, c)) = e - 1 - c
          /\ \A k \in 1 .. (e - 1 - c) : Segment(d, Sep, c)[k] = d[c + k]
      BY <2>e DEF EndsAt
    <2> SUFFICES ASSUME Segment(d, Sep, c) = w PROVE FALSE
      OBVIOUS
    <2>3. Len(w) \in Nat /\ Len(w) # 0 /\ Len(w) = e - 1 - c
      BY <2>2
    <2>4. 1 \in 1 .. Len(w) /\ w[1] = d[c + 1]
      BY <2>2, <2>3
    <2>5. d[c + 1] \in ToSet(w)
      BY <2>4 DEF ToSet
    <2> QED
      BY <2>1, <2>5
  <1> HIDE DEF D, R, Cd
  <1>4. \A c \in Cd : c < n => LET i == Cardinality(Below(Cd, c)) + 1 IN D[i] = R[i]
    BY <1>1, <1>2, <1>3
  <1>5. Cardinality(Cuts(d, Sep)) = Cardinality(Cuts(r, Sep))
    BY <1>1, <1>2 DEF Cd
  <1>6. \A c \in Cuts(d, Sep) :
          c < n => LET i == Cardinality(Below(Cuts(d, Sep), c)) + 1
                   IN  split(d, Sep)[i] = split(r, Sep)[i]
    BY <1>4 DEF D, R, Cd
  <1> QED
    BY <1>5, <1>6, SegmentsAgree

\* Behind the prefix such a match keeps the one segment that is there.
LEMMA LastKept ==
  ASSUME NEW C, NEW w \in Seq(C),
         NEW d \in Seq(C), NEW r \in Seq(C), MatchSegments(w, d, r), ~IsSuffix(w, d),
         NEW n \in Nat, n < Len(d), \A k \in (n + 1) .. Len(d) : d[k] # Sep,
         n <= Len(r), \A k \in 1 .. n : d[k] = r[k]
  PROVE  n < Len(r) /\ \A k \in (n + 1) .. Len(r) : r[k] # Sep
  <1> DEFINE D == split(d, Sep)
             R == split(r, Sep)
             Cd == Cuts(d, Sep)
             Cr == Cuts(r, Sep)
             m == Cardinality(Cd)
  <1>1. Len(D) = Len(R) /\ \A i \in DOMAIN D : D[i] = w \/ D[i] = R[i]
    BY DEF MatchSegments
  <1>2. m = Cardinality(Cr)
    BY <1>1, SegmentsOf
  <1>3. /\ Cd \in SUBSET Nat /\ IsFiniteSet(Cd) /\ 0 \in Cd /\ \A c \in Cd : c \in 0 .. Len(d)
        /\ \A k \in 1 .. Len(d) : k \in Cd <=> d[k] = Sep
        /\ Cr \in SUBSET Nat /\ IsFiniteSet(Cr) /\ 0 \in Cr /\ \A c \in Cr : c \in 0 .. Len(r)
        /\ \A k \in 1 .. Len(r) : k \in Cr <=> r[k] = Sep
        /\ Len(d) \in Nat /\ Len(r) \in Nat /\ Len(w) \in Nat
    BY CutsOf
  <1> HIDE DEF Cd, Cr
  <1>4. ASSUME NEW c \in Cd PROVE c \in 0 .. n
    BY <1>3
  <1>5. Cd \in SUBSET Cr
    <2> SUFFICES ASSUME NEW c \in Cd PROVE c \in Cr
      OBVIOUS
    <2>1. c \in 0 .. n
      BY <1>4
    <2>2. CASE c = 0
      BY <1>3, <2>2
    <2>3. CASE c # 0
      <3>1. c \in 1 .. n /\ c \in 1 .. Len(d) /\ c \in 1 .. Len(r)
        BY <1>3, <2>1, <2>3
      <3> QED
        BY <1>3, <3>1
    <2> QED
      BY <2>2, <2>3
  <1>6. Cr = Cd
    BY <1>2, <1>3, <1>5, FS_Subset
  <1>7. \A k \in (n + 1) .. Len(r) : r[k] # Sep
    <2> SUFFICES ASSUME NEW k \in (n + 1) .. Len(r), r[k] = Sep PROVE FALSE
      OBVIOUS
    <2>1. k \in Cr /\ k \notin 0 .. n
      BY <1>3
    <2> QED
      BY <1>4, <1>6, <2>1
  <1>8. PICK q \in Cd : LastAt(d, Sep, q)
    BY LastSegment DEF Cd
  <1>9. PICK p \in Cr : LastAt(r, Sep, p)
    BY LastSegment DEF Cr
  <1>10. /\ q \in 0 .. Len(d) /\ m \in DOMAIN D
         /\ \A k \in (q + 1) .. Len(d) : d[k] # Sep
         /\ Len(D[m]) = Len(d) - q
         /\ \A k \in 1 .. (Len(d) - q) : D[m][k] = d[q + k]
         /\ p \in 0 .. Len(r)
         /\ \A k \in (p + 1) .. Len(r) : r[k] # Sep
         /\ Len(R[m]) = Len(r) - p
    BY <1>2, <1>8, <1>9 DEF LastAt, Cd, Cr
  <1>11. D[m] = R[m]
    <2> SUFFICES ASSUME D[m] = w PROVE FALSE
      BY <1>1, <1>10
    <2>1. Len(w) = Len(d) - q /\ Len(w) <= Len(d) /\ Len(d) - Len(w) = q
      BY <1>3, <1>10
    <2>2. \A k \in 1 .. Len(w) : d[q + k] = w[k]
      BY <1>10, <2>1
    <2> HIDE DEF D, R, m
    <2>3. IsSuffix(w, d)
      BY <2>1, <2>2, EndsWith
    <2> QED
      BY <2>3
  <1> HIDE DEF D, R, m
  \* The last cut is the same in both.
  <1>12. p = q
    <2>1. p \in Cd /\ q \in Cr
      BY <1>6
    <2>2. ~(p < q)
      <3> SUFFICES ASSUME p < q PROVE FALSE
        OBVIOUS
      <3>1. q \in (p + 1) .. Len(r) /\ q \in 1 .. Len(r)
        BY <1>3, <1>10, <2>1
      <3> QED
        BY <1>3, <1>10, <2>1, <3>1
    <2>3. ~(q < p)
      <3> SUFFICES ASSUME q < p PROVE FALSE
        OBVIOUS
      <3>1. p \in (q + 1) .. Len(d) /\ p \in 1 .. Len(d)
        BY <1>3, <1>10, <2>1
      <3> QED
        BY <1>3, <1>10, <2>1, <3>1
    <2> QED
      BY <1>10, <2>2, <2>3
  <1>13. Len(r) = Len(d)
    BY <1>3, <1>10, <1>11, <1>12
  <1> QED
    BY <1>7, <1>13

\* Segments without the separator: a wildcard that holds one is no segment,
\* and a match by segments is then an equality.
LEMMA SegmentsEqual ==
  ASSUME NEW C, NEW w \in Seq(C),
         NEW j \in 1 .. Len(w), w[j] = Sep,
         NEW p \in Seq(C), NEW d \in Seq(C), MatchSegments(w, p, d)
  PROVE  p = d
  <1> DEFINE P == split(p, Sep)
             D == split(d, Sep)
  <1>1. Len(P) = Len(D) /\ \A i \in DOMAIN P : P[i] = w \/ P[i] = D[i]
    BY DEF MatchSegments
  <1>2. /\ DOMAIN P = 1 .. Cardinality(Cuts(p, Sep)) /\ Len(P) = Cardinality(Cuts(p, Sep))
        /\ DOMAIN D = 1 .. Cardinality(Cuts(d, Sep)) /\ Len(D) = Cardinality(Cuts(d, Sep))
    BY SegmentsOf
  <1>n. Cardinality(Cuts(p, Sep)) = Cardinality(Cuts(d, Sep))
    BY <1>1, <1>2
  <1>3. ASSUME NEW i \in DOMAIN P PROVE P[i] # w
    <2>1. i \in 1 .. Cardinality(Cuts(p, Sep))
      BY <1>2
    <2> DEFINE c == Nth(Cuts(p, Sep), i)
    <2>2. c \in Cuts(p, Sep)
      BY <2>1, CutsOf, RankIsTaken
    <2>3. P[i] = Segment(p, Sep, c)
      BY <2>1 DEF split
    <2> HIDE DEF c, P
    <2>4. c \in 0 .. Len(p)
      BY <2>2, CutsOf
    <2>e. PICK e \in (c + 1) .. (Len(p) + 1) : EndsAt(p, Sep, c, e)
      BY <2>4, SegmentAt
    <2>5. /\ \A k \in (c + 1) .. (e - 1) : p[k] # Sep
          /\ Len(Segment(p, Sep, c)) = e - 1 - c
          /\ \A k \in 1 .. (e - 1 - c) : Segment(p, Sep, c)[k] = p[c + k]
      BY <2>e DEF EndsAt
    <2> SUFFICES ASSUME P[i] = w PROVE FALSE
      OBVIOUS
    <2>6. Len(w) = e - 1 - c /\ c + j \in (c + 1) .. (e - 1) /\ w[j] = p[c + j]
      BY <2>3, <2>4, <2>5
    <2> QED
      BY <2>5, <2>6
  <1>4. \A i \in DOMAIN P : P[i] = D[i]
    BY <1>1, <1>3
  <1>5. Len(p) <= Len(d) /\ \A k \in 1 .. Len(p) : p[k] = d[k]
    <2>1. Len(p) \in 0 .. Len(p)
      OBVIOUS
    <2>2. \A c \in Cuts(p, Sep) :
            c < Len(p) => LET i == Cardinality(Below(Cuts(p, Sep), c)) + 1
                          IN  split(p, Sep)[i] = split(d, Sep)[i]
      BY <1>4, SegmentsOf
    <2> QED
      BY <1>n, <2>1, <2>2, SegmentsAgree
  <1>6. Len(d) <= Len(p)
    <2>1. Len(d) \in 0 .. Len(d)
      OBVIOUS
    <2>2. \A c \in Cuts(d, Sep) :
            c < Len(d) => LET i == Cardinality(Below(Cuts(d, Sep), c)) + 1
                          IN  split(d, Sep)[i] = split(p, Sep)[i]
      BY <1>2, <1>4, <1>n, SegmentsOf
    <2> QED
      BY <1>n, <2>1, <2>2, SegmentsAgree
  <1> HIDE DEF P, D
  <1>7. Len(p) = Len(d)
    BY <1>5, <1>6
  <1> QED
    BY <1>5, <1>7

\* Scopes with the same last segment have the same endings without a separator.
LEMMA SameEnding ==
  ASSUME NEW C, NEW w \in Seq(C), NEW p \in Seq(C), NEW d \in Seq(C),
         NEW q \in Nat, NEW x \in Nat, LastAt(p, Sep, q), LastAt(d, Sep, x),
         split(p, Sep)[Cardinality(Cuts(p, Sep))] = split(d, Sep)[Cardinality(Cuts(d, Sep))],
         x \in Cuts(d, Sep), IsSuffix(w, d), \A j \in 1 .. Len(w) : w[j] # Sep
  PROVE  IsSuffix(w, p)
  <1>1. /\ Len(p) \in Nat /\ Len(d) \in Nat /\ Len(w) \in Nat
        /\ q \in 0 .. Len(p) /\ x \in 0 .. Len(d) /\ Len(p) - q = Len(d) - x
    <2>1. /\ q \in 0 .. Len(p) /\ x \in 0 .. Len(d)
          /\ Len(split(p, Sep)[Cardinality(Cuts(p, Sep))]) = Len(p) - q
          /\ Len(split(d, Sep)[Cardinality(Cuts(d, Sep))]) = Len(d) - x
      BY DEF LastAt
    <2>2. Len(p) - q = Len(d) - x
      BY <2>1
    <2>3. Len(p) \in Nat /\ Len(d) \in Nat /\ Len(w) \in Nat
      OBVIOUS
    <2> QED
      BY <2>1, <2>2, <2>3
  <1>2. Len(w) <= Len(d) /\ \A k \in 1 .. Len(w) : d[Len(d) - Len(w) + k] = w[k]
    BY EndsWith
  <1>3. x <= Len(d) - Len(w)
    <2> SUFFICES ASSUME x > Len(d) - Len(w) PROVE FALSE
      BY <1>1
    <2>1. x \in 1 .. Len(d) /\ x - (Len(d) - Len(w)) \in 1 .. Len(w)
      BY <1>1, <1>2
    <2>2. Len(d) - Len(w) + (x - (Len(d) - Len(w))) = x
      BY <1>1
    <2>3. d[x] = Sep
      BY <2>1, CutsOf
    <2> QED
      BY <1>2, <2>1, <2>2, <2>3
  <1>4. Len(w) <= Len(p)
    BY <1>1, <1>2, <1>3
  <1>5. ASSUME NEW k \in 1 .. Len(w) PROVE p[Len(p) - Len(w) + k] = w[k]
    <2> DEFINE i == Len(d) - Len(w) + k - x
    <2>1. i \in 1 .. (Len(d) - x) /\ i \in 1 .. (Len(p) - q)
      BY <1>1, <1>2, <1>3
    <2>2. x + i = Len(d) - Len(w) + k /\ q + i = Len(p) - Len(w) + k
      BY <1>1
    <2> HIDE DEF i
    <2>3. p[q + i] = d[x + i]
      BY <2>1 DEF LastAt
    <2> QED
      BY <1>2, <2>2, <2>3
  <1> QED
    BY <1>4, <1>5, EndsWith

\* What matches a scope with a trailing wildcard by segments ends with the
\* wildcard itself.
LEMMA TrailingKept ==
  ASSUME NEW C, NEW w \in Seq(C), NEW p \in Seq(C), NEW d \in Seq(C),
         MatchSegments(w, p, d), IsSuffix(w, d)
  PROVE  IsSuffix(w, p)
  <1> DEFINE P == split(p, Sep)
             D == split(d, Sep)
             m == Cardinality(Cuts(p, Sep))
  <1>1. CASE \E j \in 1 .. Len(w) : w[j] = Sep
    BY <1>1, SegmentsEqual
  <1>2. CASE \A j \in 1 .. Len(w) : w[j] # Sep
    <2>1. Len(P) = Len(D) /\ \A i \in DOMAIN P : P[i] = w \/ P[i] = D[i]
      BY DEF MatchSegments
    <2>2. m = Cardinality(Cuts(d, Sep))
      BY <2>1, SegmentsOf
    <2>3. PICK q \in Nat : LastAt(p, Sep, q)
      BY LastSegment, CutsOf
    <2>4. PICK x \in Nat : LastAt(d, Sep, x) /\ x \in Cuts(d, Sep)
      BY LastSegment, CutsOf
    <2>5. /\ q \in 0 .. Len(p) /\ m \in DOMAIN P /\ Len(P[m]) = Len(p) - q
          /\ \A k \in 1 .. (Len(p) - q) : P[m][k] = p[q + k]
      BY <2>3 DEF LastAt
    <2>6. CASE P[m] = w
      <3>1. Len(w) \in Nat /\ Len(p) \in Nat
        OBVIOUS
      <3> HIDE DEF P, m
      <3>2. Len(w) = Len(p) - q /\ Len(w) <= Len(p) /\ Len(p) - Len(w) = q
        BY <2>5, <2>6, <3>1
      <3>3. \A k \in 1 .. Len(w) : p[Len(p) - Len(w) + k] = w[k]
        BY <2>5, <2>6, <3>2
      <3> QED
        BY <3>2, <3>3, EndsWith
    <2>7. CASE P[m] = D[m]
      BY <1>2, <2>2, <2>3, <2>4, <2>7, SameEnding
    <2> QED
      BY <2>1, <2>5, <2>6, <2>7
  <1> QED
    BY <1>1, <1>2

\* matches_hierarchy, case by case.
LEMMA Hierarchy ==
  ASSUME NEW o, NEW g, NEW r, g # r, <<>> \notin {g, r, o.wildcard}
  PROVE  /\ g = o.wildcard => (matches_hierarchy(o, g, r) <=> o.universal)
         /\ g # o.wildcard /\ IsSuffix(o.wildcard, g) =>
              (matches_hierarchy(o, g, r) <=> trailing_matches(o, g, r))
         /\ g # o.wildcard /\ ~IsSuffix(o.wildcard, g) =>
              (matches_hierarchy(o, g, r) <=> MatchSegments(o.wildcard, g, r))
  <1>1. CASE g = o.wildcard
    BY <1>1 DEF matches_hierarchy
  <1>2. CASE g # o.wildcard /\ IsSuffix(o.wildcard, g)
    BY <1>2 DEF matches_hierarchy
  <1>3. CASE g # o.wildcard /\ ~IsSuffix(o.wildcard, g)
    BY <1>3 DEF matches_hierarchy, segments_match, MatchSegments
  <1> QED
    BY <1>1, <1>2, <1>3, Zenon

\* The prefix before a trailing wildcard is not empty.
LEMMA TrailingLength ==
  ASSUME NEW C, NEW w \in Seq(C), NEW g \in Seq(C), g # w, IsSuffix(w, g)
  PROVE  Len(g) - Len(w) \in Nat \ {0}
  <1>1. /\ Len(w) \in Nat /\ Len(g) \in Nat /\ Len(w) <= Len(g)
        /\ \A k \in 1 .. Len(w) : g[Len(g) - Len(w) + k] = w[k]
    BY EndsWith
  <1>2. ASSUME Len(g) = Len(w) PROVE FALSE
    <2>1. \A k \in 1 .. Len(w) : Len(g) - Len(w) + k = k
      BY <1>1, <1>2
    <2>2. \A k \in 1 .. Len(w) : g[k] = w[k]
      BY <1>1, <2>1
    <2> QED
      BY <1>2, <2>2
  <1> QED
    BY <1>1, <1>2

\* Two matches in a row are one match, when the first scope holds no wildcard
\* before its trailing one.
LEMMA HierarchyTransitive ==
  ASSUME NEW C, NEW o, NEW w \in Seq(C), w = o.wildcard,
         NEW p \in Seq(C), NEW d \in Seq(C), NEW r \in Seq(C),
         LiteralPrefix(o, p), matches_hierarchy(o, p, d), matches_hierarchy(o, d, r)
  PROVE  matches_hierarchy(o, p, r)
  <1>1. CASE p = d \/ d = r \/ p = r
    <2>1. p = r => matches_hierarchy(o, p, r)
      BY DEF matches_hierarchy
    <2> QED
      BY <1>1, <2>1
  <1>2. CASE p # d /\ d # r /\ p # r
    <2>1. <<>> \notin {p, d, r, w}
      BY <1>2 DEF matches_hierarchy
    <2>2. CASE p = w
      BY <1>2, <2>1, <2>2, Hierarchy
    <2>3. CASE p # w /\ IsSuffix(w, p)
      <3> DEFINE n == Len(p) - Len(w)
      <3>1. n \in Nat /\ n # 0 /\ Len(w) \in Nat /\ Len(p) \in Nat
        BY <2>3, TrailingLength
      <3>2. \A k \in 1 .. n : p[k] \notin ToSet(w)
        BY <2>3 DEF LiteralPrefix
      <3> HIDE DEF n
      <3>t. \A x \in Seq(C) : trailing_matches(o, p, x) <=> Continues(o, p, x, n)
        <4>1. Len(o.wildcard) <= Len(p) /\ o.wildcard \in Seq(C)
          BY <2>3, EndsWith
        <4> QED
          BY <4>1, TrailingMatch DEF n
      <3>c. Continues(o, p, d, n)
        BY <1>2, <2>1, <2>3, <3>t, Hierarchy
      <3>3. /\ n <= Len(d) /\ \A k \in 1 .. n : d[k] = p[k]
            /\ o.multi \/ (n < Len(d) /\ \A k \in (n + 1) .. Len(d) : d[k] # Sep)
        BY <3>c DEF Continues
      <3>4. \A k \in 1 .. n : d[k] \notin ToSet(w)
        BY <3>2, <3>3
      <3>5. /\ n <= Len(r) /\ \A k \in 1 .. n : r[k] = d[k]
            /\ o.multi \/ (n < Len(r) /\ \A k \in (n + 1) .. Len(r) : r[k] # Sep)
        <4>1. CASE d = w
          <5>1. 1 \in 1 .. n /\ 1 \in DOMAIN w
            BY <3>1, <3>3, <4>1
          <5> QED
            BY <3>4, <4>1, <5>1 DEF ToSet
        <4>2. CASE d # w /\ IsSuffix(w, d)
          <5> DEFINE m == Len(d) - Len(w)
          <5>1. m \in Nat /\ m # 0 /\ Len(d) \in Nat /\ Len(r) \in Nat /\ m <= Len(d)
            BY <3>1, <4>2, TrailingLength
          <5>2. trailing_matches(o, d, r)
            BY <1>2, <2>1, <4>2, Hierarchy
          <5>3. \A k \in 1 .. Len(w) : d[m + k] = w[k]
            BY <4>2, EndsWith
          <5>w. w[1] \in ToSet(w) /\ 1 \in 1 .. Len(w) /\ m + 1 \in Nat
            BY <2>1, <3>1, <5>1 DEF ToSet
          <5> HIDE DEF m
          <5>c. Continues(o, d, r, m)
            <6>1. Len(o.wildcard) <= Len(d) /\ o.wildcard \in Seq(C)
              BY <4>2, EndsWith
            <6> QED
              BY <5>2, <6>1, TrailingMatch DEF m
          <5>4. /\ m <= Len(r) /\ \A k \in 1 .. m : r[k] = d[k]
                /\ o.multi \/ (m < Len(r) /\ \A k \in (m + 1) .. Len(r) : r[k] # Sep)
            BY <5>c DEF Continues
          <5>5. n <= m
            <6> SUFFICES ASSUME m + 1 \in 1 .. n PROVE FALSE
              BY <3>1, <5>1
            <6> QED
              BY <3>4, <5>3, <5>w
          <5>6. \A k \in (n + 1) .. Len(r) : k \in (n + 1) .. m \/ k \in (m + 1) .. Len(r)
            BY <3>1, <5>1
          <5>7. \A k \in 1 .. m : k <= Len(d)
            BY <5>1
          <5>8. n <= Len(r) /\ \A k \in 1 .. n : r[k] = d[k]
            BY <3>1, <5>1, <5>4, <5>5
          <5>9. CASE ~o.multi
            <6>1. ASSUME NEW k \in (n + 1) .. m PROVE r[k] # Sep
              <7>1. k \in 1 .. m /\ k \in (n + 1) .. Len(d)
                BY <3>1, <5>1
              <7> QED
                BY <3>3, <5>4, <5>9, <7>1
            <6>2. n < Len(r)
              BY <3>1, <5>1, <5>4, <5>5, <5>9
            <6> QED
              BY <5>4, <5>6, <5>8, <5>9, <6>1, <6>2
          <5> QED
            BY <5>8, <5>9
        <4>3. CASE d # w /\ ~IsSuffix(w, d)
          <5>1. MatchSegments(w, d, r)
            BY <1>2, <2>1, <4>3, Hierarchy
          <5>2. n \in 0 .. Len(d) /\ w # <<>>
            BY <2>1, <3>1, <3>3
          <5>3. n <= Len(r) /\ \A k \in 1 .. n : d[k] = r[k]
            BY <3>4, <5>1, <5>2, PrefixKept
          <5>4. CASE ~o.multi
            <6>1. n < Len(d) /\ \A k \in (n + 1) .. Len(d) : d[k] # Sep
              BY <3>3, <5>4
            <6>2. n < Len(r) /\ \A k \in (n + 1) .. Len(r) : r[k] # Sep
              <7>1. n \in Nat /\ ~IsSuffix(w, d)
                BY <3>1, <4>3
              <7> QED
                BY <5>1, <5>3, <6>1, <7>1, LastKept
            <6> QED
              BY <5>3, <6>2
          <5> QED
            BY <5>3, <5>4
        <4> QED
          BY <4>1, <4>2, <4>3
      <3>6. \A k \in 1 .. n : r[k] = p[k]
        BY <3>3, <3>5
      <3>7. trailing_matches(o, p, r)
        BY <3>5, <3>6, <3>t DEF Continues
      <3> QED
        BY <1>2, <2>1, <2>3, <3>7, Hierarchy
    <2>4. CASE p # w /\ ~IsSuffix(w, p)
      <3>1. MatchSegments(w, p, d)
        BY <1>2, <2>1, <2>4, Hierarchy
      <3>2. ~IsSuffix(w, d)
        BY <2>4, <3>1, TrailingKept
      <3>3. d # w
        <4>1. IsSuffix(w, w)
          <5>1. Len(w) \in Nat /\ \A k \in 1 .. Len(w) : Len(w) - Len(w) + k = k
            OBVIOUS
          <5> QED
            BY <5>1, EndsWith
        <4> QED
          BY <3>2, <4>1
      <3>4. MatchSegments(w, d, r)
        BY <1>2, <2>1, <3>2, <3>3, Hierarchy
      <3>5. MatchSegments(w, p, r)
        <4>1. /\ Len(split(p, Sep)) = Len(split(d, Sep))
              /\ Len(split(d, Sep)) = Len(split(r, Sep))
              /\ \A i \in DOMAIN split(p, Sep) :
                   split(p, Sep)[i] = w \/ split(p, Sep)[i] = split(d, Sep)[i]
              /\ \A i \in DOMAIN split(d, Sep) :
                   split(d, Sep)[i] = w \/ split(d, Sep)[i] = split(r, Sep)[i]
          BY <3>1, <3>4 DEF MatchSegments
        <4>2. DOMAIN split(p, Sep) = DOMAIN split(d, Sep)
          BY <4>1, SegmentsOf
        <4> QED
          BY <4>1, <4>2 DEF MatchSegments
      <3> QED
        BY <1>2, <2>1, <2>4, <3>5, Hierarchy
    <2> QED
      BY <2>2, <2>3, <2>4
  <1> QED
    BY <1>1, <1>2

\* What a delegated scope satisfies, the session that may delegate it
\* satisfies, super-scopes and exact-only requirements included, unless it is
\* one of those that amplify.
LEMMA MatchesTransitive ==
  ASSUME NEW C, NEW o, o.wildcard \in Seq(C), NEW session, session \subseteq Seq(C),
         NEW d \in Seq(C), NEW r \in Seq(C), ~Amplifies(o, session, d),
         has_scope(o, session, d), matches(o, d, r)
  PROVE  has_scope(o, session, r)
  <1>1. PICK p \in session : matches(o, p, d)
    BY DEF has_scope
  <1>2. CASE d = r
    BY <1>1, <1>2 DEF has_scope
  <1>3. CASE d # r /\ d \in o.super
    <2>1. PICK q \in session : q \in o.super
      BY <1>3 DEF Amplifies
    <2>2. is_exact_only_requirement(o, r) => o.superExact
      BY <1>3 DEF matches
    <2>3. matches(o, q, r)
      BY <2>1, <2>2 DEF matches
    <2> QED
      BY <2>3 DEF has_scope
  <1>4. CASE d # r /\ d \notin o.super
    <2>1. ~is_exact_only_requirement(o, r) /\ matches_hierarchy(o, d, r)
      BY <1>4 DEF matches
    <2>2. CASE p = d
      BY <2>2 DEF has_scope
    <2>3. CASE p \in o.super
      BY <2>1, <2>3 DEF has_scope, matches
    <2>4. CASE p # d /\ p \notin o.super
      <3>1. matches_hierarchy(o, p, d)
        BY <1>1, <2>4 DEF matches
      <3>2. LiteralPrefix(o, p)
        BY <2>4, <3>1 DEF Amplifies
      <3>3. p \in Seq(C)
        OBVIOUS
      <3>4. matches_hierarchy(o, p, r)
        BY <2>1, <3>1, <3>2, <3>3, HierarchyTransitive
      <3>5. matches(o, p, r)
        BY <2>1, <3>4 DEF matches
      <3> QED
        BY <3>5 DEF has_scope
    <2> QED
      BY <2>2, <2>3, <2>4
  <1> QED
    BY <1>2, <1>3, <1>4

\* The matcher of a host that injects none grants what is there, literally.
LEMMA ExactMatch ==
  ASSUME NEW g, NEW r, matches(ExactScopeMatch, g, r) PROVE g = r
  <1>1. /\ ExactScopeMatch.wildcard = <<>> /\ ExactScopeMatch.super = {}
        /\ ExactScopeMatch.exactOnly = {} /\ ExactScopeMatch.patterns = {}
    BY DEF ExactScopeMatch
  <1>2. ~is_exact_only_requirement(ExactScopeMatch, r)
    BY <1>1 DEF is_exact_only_requirement
  <1>3. matches_hierarchy(ExactScopeMatch, g, r) => g = r
    BY <1>1 DEF matches_hierarchy
  <1> QED
    BY <1>1, <1>2, <1>3 DEF matches

\* What a delegate's scopes satisfy, with the matcher or without, the
\* session's satisfy with it, unless one that amplifies satisfies it.
LEMMA ScopeNotAmplified ==
  ASSUME NEW C, NEW o, o.wildcard \in Seq(C),
         NEW session, session \subseteq Seq(C), NEW request, request \subseteq Seq(C),
         has_all_scopes(o, session, request),
         NEW m, m = o \/ m = ExactScopeMatch, NEW r \in Seq(C), has_scope(m, request, r),
         \A d \in request : ~(Amplifies(o, session, d) /\ matches(o, d, r))
  PROVE  has_scope(o, session, r)
  <1>1. PICK d \in request : matches(m, d, r)
    BY DEF has_scope
  <1>2. has_scope(o, session, d) /\ d \in Seq(C)
    BY DEF has_all_scopes
  <1>3. CASE m = o
    <2>1. ~Amplifies(o, session, d) /\ matches(o, d, r)
      BY <1>1, <1>3
    <2> QED
      BY <1>2, <2>1, MatchesTransitive
  <1>4. CASE m = ExactScopeMatch
    <2>1. d = r
      BY <1>1, <1>4, ExactMatch
    <2> QED
      BY <1>2, <2>1
  <1> QED
    BY <1>3, <1>4

\* A guard that lets the delegate through lets the session through, unless a
\* scope that amplifies met what the session does not.
LEMMA ScopeAnswer ==
  ASSUME Decided PROVE NoAmplification
  <1> DEFINE o == probe.o
             parent == probe.parent
             request == probe.request
             ctx == inject_http_auth(probe.by, request, o)
             mine == inject_http_auth("service", parent, o)
             m == matcher_from_ctx(ctx)
             Blamed(d, r) == /\ Amplifies(o, parent.scopes, d)
                             /\ matches(o, d, r) /\ ~has_scope(o, parent.scopes, r)
             need == probe.required \cup {probe.scope}
  <1> SUFFICES ASSUME Answered("scope"),
                      \A d \in request.scopes : \A r \in need : ~Blamed(d, r)
               PROVE  \A g \in DOMAIN verdict :
                        verdict[g] = "Ok" => Guards(mine, probe)[g] = "Ok"
    BY DEF NoAmplification, OwnGuards
  <1>1. probe.kind = "scope" /\ verdict = Verdict(probe) /\ verdict # Refused
    BY DEF Answered, Decided
  <1>2. /\ parent.scopes \subseteq Seq(Chars) /\ request.scopes \subseteq Seq(Chars)
        /\ probe.required \subseteq Seq(Chars) /\ probe.scope \in Seq(Chars)
        /\ o.wildcard \in Seq(Chars)
        /\ o # NoData /\ parent # NoData /\ request # NoData
    BY <1>1 DEF Decided, WellTyped
  <1>3. /\ delegable(o, parent, request)
        /\ verdict = Guards(ctx, probe)
    BY <1>1 DEF Verdict
  <1>4. /\ request.roles \subseteq parent.roles
        /\ has_all_scopes(o, parent.scopes, request.scopes)
    BY <1>3 DEF delegable
  <1>5. /\ ctx.user = request /\ principal_from_ctx_opt(ctx) = request
        /\ mine.user = parent /\ principal_from_ctx_opt(mine) = parent
        /\ matcher_from_ctx(mine) = o /\ matcher_from_ctx(ctx) = m
        /\ (m = o \/ m = ExactScopeMatch)
    BY <1>2 DEF inject_http_auth, principal_from_ctx_opt, matcher_from_ctx
  <1> HIDE DEF o, parent, request, ctx, mine, m
  <1>6. ASSUME NEW r \in need, has_scope(m, request.scopes, r)
        PROVE  has_scope(o, parent.scopes, r)
    <2> SUFFICES ASSUME ~has_scope(o, parent.scopes, r) PROVE FALSE
      OBVIOUS
    <2>1. \A d \in request.scopes : ~(Amplifies(o, parent.scopes, d) /\ matches(o, d, r))
      OBVIOUS
    <2>2. r \in Seq(Chars)
      BY <1>2
    <2> HIDE DEF need, Blamed
    <2> QED
      BY <1>2, <1>4, <1>5, <1>6, <2>1, <2>2, ScopeNotAmplified
  <1>7. /\ has_any_scope(m, request.scopes, probe.required) =>
             has_any_scope(o, parent.scopes, probe.required)
        /\ has_all_scopes(m, request.scopes, probe.required) =>
             has_all_scopes(o, parent.scopes, probe.required)
    BY <1>2, <1>6 DEF has_any_scope, has_all_scopes
  <1>8. /\ RequireAuth(mine) = "Ok" /\ RequirePrincipal(mine) = "Ok"
        /\ RequireAnyRole(ctx, probe.roles) = "Ok" => RequireAnyRole(mine, probe.roles) = "Ok"
        /\ RequireAllRoles(ctx, probe.roles) = "Ok" => RequireAllRoles(mine, probe.roles) = "Ok"
    BY <1>2, <1>4, <1>5 DEF RequireAuth, RequirePrincipal, RequireAnyRole, RequireAllRoles,
                            Answer, parent, request
  <1>9. /\ RequireScope(ctx, probe.scope) = "Ok" => RequireScope(mine, probe.scope) = "Ok"
        /\ RequireAnyScope(ctx, probe.required) = "Ok" =>
             RequireAnyScope(mine, probe.required) = "Ok"
        /\ RequireAllScopes(ctx, probe.required) = "Ok" =>
             RequireAllScopes(mine, probe.required) = "Ok"
    BY <1>2, <1>5, <1>6, <1>7 DEF RequireScope, RequireAnyScope, RequireAllScopes, Answer
  <1>10. /\ RequirePrincipalScope(ctx, probe.scope) = "Ok" =>
              RequirePrincipalScope(mine, probe.scope) = "Ok"
         /\ RequireAnyPrincipalScope(ctx, probe.required) = "Ok" =>
              RequireAnyPrincipalScope(mine, probe.required) = "Ok"
         /\ RequireAllPrincipalScopes(ctx, probe.required) = "Ok" =>
              RequireAllPrincipalScopes(mine, probe.required) = "Ok"
    BY <1>2, <1>5, <1>6, <1>7
       DEF RequirePrincipalScope, RequireAnyPrincipalScope, RequireAllPrincipalScopes, Answer
  <1> QED
    BY <1>3, <1>8, <1>9, <1>10 DEF Guards

\* A delegated token opens nothing that its session does not open, for every
\* matcher, every scope of any length and every guard, but by the two kinds of
\* scopes that validate_session_bound_current_authority lets through and that
\* open more.
THEOREM NotAmplified == Spec => []NoAmplification
  <1>1. Decided => NoAmplification
    BY ScopeAnswer
  <1> QED
    BY <1>1, DecidedAlways, PTL

-----------------------------------------------------------------------------
(* Scopes in a token: what is read is what was written.                    *)

\* Removing repetitions keeps every element.
LEMMA DedupeKeeps ==
  ASSUME NEW T, NEW seq \in Seq(T)
  PROVE  dedupe_stable(seq) \in Seq(T) /\ ToSet(dedupe_stable(seq)) = ToSet(seq)
  <1> DEFINE first == {i \in DOMAIN seq : \A j \in 1 .. (i - 1) : seq[j] # seq[i]}
             d == dedupe_stable(seq)
  <1>1. DOMAIN seq = 1 .. Len(seq) /\ Len(seq) \in Nat
    OBVIOUS
  <1>2. first \in SUBSET Nat /\ first \in SUBSET (1 .. Len(seq))
    BY <1>1
  <1>3. IsFiniteSet(first) /\ Cardinality(first) \in Nat
    <2>1. IsFiniteSet(1 .. Len(seq))
      BY <1>1, FS_Interval
    <2> QED
      BY <1>2, <2>1, FS_Subset, FS_CardinalityType
  <1>4. d = [n \in 1 .. Cardinality(first) |-> seq[Nth(first, n)]]
    BY DEF dedupe_stable
  <1>5. \A i \in first : i \in DOMAIN seq
    OBVIOUS
  <1>6. ASSUME NEW i \in DOMAIN seq PROVE \E f \in first : seq[f] = seq[i]
    <2> DEFINE S == {j \in DOMAIN seq : seq[j] = seq[i]}
               f == Min(S)
    <2>1. f \in S /\ \A y \in S : f <= y
      <3>1. S \subseteq Nat /\ i \in S
        BY <1>1
      <3> HIDE DEF S
      <3> QED
        BY <3>1, FirstOf
    <2> HIDE DEF f
    <2>2. f \in DOMAIN seq /\ seq[f] = seq[i] /\ f \in Nat
      BY <1>1, <2>1
    <2>3. ASSUME NEW j \in 1 .. (f - 1) PROVE seq[j] # seq[f]
      <3>1. j \in DOMAIN seq /\ ~(f <= j)
        BY <1>1, <2>2
      <3> QED
        BY <2>1, <2>2, <3>1
    <2> QED
      BY <2>2, <2>3
  <1> HIDE DEF first, d
  <1>7. \A n \in 1 .. Cardinality(first) : Nth(first, n) \in first /\ Nth(first, n) \in DOMAIN seq
    BY <1>2, <1>3, <1>5, RankIsTaken
  <1>8. \A n \in 1 .. Cardinality(first) : seq[Nth(first, n)] \in T
    BY <1>1, <1>7
  <1>9. d \in Seq(T) /\ DOMAIN d = 1 .. Cardinality(first)
    BY <1>3, <1>4, <1>8
  <1>10. ASSUME NEW f \in first PROVE \E n \in DOMAIN d : d[n] = seq[f]
    <2> DEFINE n == Cardinality(Below(first, f)) + 1
    <2>1. n \in 1 .. Cardinality(first) /\ Nth(first, n) = f
      BY <1>2, <1>3, RankIsUnique
    <2> HIDE DEF n
    <2> QED
      BY <1>4, <1>9, <2>1
  <1>11. ToSet(d) \subseteq ToSet(seq)
    BY <1>4, <1>7, <1>9 DEF ToSet
  <1>12. ToSet(seq) \subseteq ToSet(d)
    BY <1>6, <1>10 DEF ToSet
  <1> QED
    BY <1>9, <1>11, <1>12 DEF d

\* The segments of a text are what stands behind its cuts.
LEMMA SegmentSet ==
  ASSUME NEW C, NEW s \in Seq(C), NEW sep
  PROVE  /\ ToSet(split(s, sep)) = {Segment(s, sep, c) : c \in Cuts(s, sep)}
         /\ Cardinality(Cuts(s, sep)) \in Nat
  <1> DEFINE D == Cuts(s, sep)
  <1>1. D \in SUBSET Nat /\ IsFiniteSet(D) /\ Cardinality(D) \in Nat
    BY CutsOf
  <1>2. DOMAIN split(s, sep) = 1 .. Cardinality(D)
    BY SegmentsOf
  <1>3. ASSUME NEW n \in 1 .. Cardinality(D)
        PROVE  Nth(D, n) \in D /\ split(s, sep)[n] = Segment(s, sep, Nth(D, n))
    BY <1>1, RankIsTaken DEF split
  <1>4. ASSUME NEW c \in D PROVE \E i \in DOMAIN split(s, sep) : split(s, sep)[i] = Segment(s, sep, c)
    BY SegmentsOf
  <1> HIDE DEF D
  <1>5. ToSet(split(s, sep)) = {Segment(s, sep, c) : c \in D}
    BY <1>2, <1>3, <1>4 DEF ToSet
  <1> QED
    BY <1>1, <1>5 DEF D

\* A segment is a text of its own.
LEMMA SegmentType ==
  ASSUME NEW C, NEW s \in Seq(C), NEW sep, NEW c \in 0 .. Len(s)
  PROVE  Segment(s, sep, c) \in Seq(C)
  <1> DEFINE E == {i \in Cuts(s, sep) : i > c} \cup {Len(s) + 1}
             m == Min(E)
  <1>1. E \subseteq Nat /\ Len(s) + 1 \in E /\ \A i \in E : i \in (c + 1) .. (Len(s) + 1)
    BY CutsOf
  <1>2. Segment(s, sep, c) = SubSeq(s, c + 1, m - 1)
    BY DEF Segment
  <1> HIDE DEF E
  <1>3. m \in (c + 1) .. (Len(s) + 1)
    BY <1>1, FirstOf
  <1> HIDE DEF m
  <1> QED
    BY <1>2, <1>3

\* The text b stands in s, between the positions c and e.
StandsIn(s, b, c, e) ==
  Len(b) = e - 1 - c /\ \A k \in 1 .. (e - 1 - c) : b[k] = s[c + k]

\* Where a segment ends decides it.
LEMMA SegmentIs ==
  ASSUME NEW C, NEW s \in Seq(C), NEW sep, NEW c \in 0 .. Len(s), NEW e \in Nat,
         EndsAt(s, sep, c, e), NEW b \in Seq(C), StandsIn(s, b, c, e)
  PROVE  Segment(s, sep, c) = b
  <1>1. Segment(s, sep, c) \in Seq(C)
    BY SegmentType
  <1>2. /\ Len(Segment(s, sep, c)) = e - 1 - c
        /\ \A k \in 1 .. (e - 1 - c) : Segment(s, sep, c)[k] = s[c + k]
    BY DEF EndsAt
  <1>3. Len(Segment(s, sep, c)) = Len(b)
    BY <1>2 DEF StandsIn
  <1>4. \A k \in 1 .. Len(b) : Segment(s, sep, c)[k] = b[k]
    BY <1>2 DEF StandsIn
  <1> QED
    BY <1>1, <1>3, <1>4

\* A text without the separator is its only segment.
LEMMA SplitOne ==
  ASSUME NEW C, NEW b \in Seq(C), NEW sep, \A k \in 1 .. Len(b) : b[k] # sep
  PROVE  ToSet(split(b, sep)) = {b}
  <1>1. Cuts(b, sep) = {0}
    BY DEF Cuts
  <1>2. 0 \in 0 .. Len(b) /\ Len(b) \in Nat
    OBVIOUS
  <1>3. PICK e \in (0 + 1) .. (Len(b) + 1) : EndsAt(b, sep, 0, e)
    BY <1>2, SegmentAt
  <1>4. e = Len(b) + 1
    BY <1>2, <1>3 DEF EndsAt
  <1>5. e \in Nat /\ StandsIn(b, b, 0, e)
    BY <1>2, <1>4 DEF StandsIn
  <1>6. Segment(b, sep, 0) = b
    BY <1>2, <1>3, <1>5, SegmentIs
  <1> QED
    BY <1>1, <1>6, SegmentSet

\* One more text behind a separator is one more segment.
LEMMA SplitAppend ==
  ASSUME NEW C, NEW a \in Seq(C), NEW b \in Seq(C), NEW sep \in C,
         \A k \in 1 .. Len(b) : b[k] # sep
  PROVE  LET x == a \o <<sep>> \o b
         IN  x \in Seq(C) /\ ToSet(split(x, sep)) = ToSet(split(a, sep)) \cup {b}
  <1> DEFINE x == a \o <<sep>> \o b
             n == Len(a) + 1
  <1>1. /\ x \in Seq(C) /\ Len(a) \in Nat /\ Len(b) \in Nat /\ n \in Nat
        /\ Len(x) = n + Len(b)
    OBVIOUS
  <1>2. \A k \in 1 .. Len(a) : x[k] = a[k]
    OBVIOUS
  <1>3. x[n] = sep
    OBVIOUS
  <1>4. \A k \in 1 .. Len(b) : x[n + k] = b[k]
    OBVIOUS
  <1> HIDE DEF x
  <1>5. \A k \in (n + 1) .. Len(x) : x[k] # sep
    <2> SUFFICES ASSUME NEW k \in (n + 1) .. Len(x) PROVE x[k] # sep
      OBVIOUS
    <2>1. k - n \in 1 .. Len(b) /\ n + (k - n) = k
      BY <1>1
    <2> QED
      BY <1>4, <2>1
  <1>6. Cuts(x, sep) = Cuts(a, sep) \cup {n}
    <2>1. \A k \in 1 .. Len(x) : k \in 1 .. Len(a) \/ k = n \/ k \in (n + 1) .. Len(x)
      BY <1>1
    <2>2. n \in 1 .. Len(x) /\ \A k \in 1 .. Len(a) : k \in 1 .. Len(x)
      BY <1>1
    <2>3. DOMAIN x = 1 .. Len(x) /\ DOMAIN a = 1 .. Len(a)
      BY <1>1
    <2> HIDE DEF n
    <2> QED
      BY <1>2, <1>3, <1>5, <2>1, <2>2, <2>3 DEF Cuts
  <1>7. Segment(x, sep, n) = b
    <2>1. n \in 0 .. Len(x)
      BY <1>1
    <2>2. PICK e \in (n + 1) .. (Len(x) + 1) : EndsAt(x, sep, n, e)
      BY <1>1, <2>1, SegmentAt
    <2>3. e = Len(x) + 1
      <3>1. e = Len(x) + 1 \/ x[e] = sep
        BY <2>2 DEF EndsAt
      <3>2. e # Len(x) + 1 => e \in (n + 1) .. Len(x)
        BY <1>1
      <3> QED
        BY <1>5, <3>1, <3>2
    <2>4. e \in Nat /\ StandsIn(x, b, n, e)
      BY <1>1, <1>4, <2>3 DEF StandsIn
    <2> HIDE DEF n
    <2> QED
      BY <1>1, <2>1, <2>2, <2>4, SegmentIs
  <1>8. ASSUME NEW c \in Cuts(a, sep) PROVE Segment(x, sep, c) = Segment(a, sep, c)
    <2>1. c \in 0 .. Len(a) /\ c \in 0 .. Len(x)
      BY <1>1, CutsOf
    <2>2. PICK e \in (c + 1) .. (Len(a) + 1) : EndsAt(a, sep, c, e)
      BY <2>1, SegmentAt
    <2>3. PICK f \in (c + 1) .. (Len(x) + 1) : EndsAt(x, sep, c, f)
      BY <1>1, <2>1, SegmentAt
    <2>4. e \in Nat /\ f \in Nat /\ e <= n
      BY <1>1, <2>1
    <2>5. ~(e < f)
      <3> SUFFICES ASSUME e < f PROVE FALSE
        OBVIOUS
      <3>1. e \in (c + 1) .. (f - 1)
        BY <2>1, <2>4
      <3>2. x[e] # sep
        BY <2>3, <3>1 DEF EndsAt
      <3>3. e = n \/ (e \in 1 .. Len(a) /\ a[e] = sep)
        BY <1>1, <2>1, <2>2, <2>4 DEF EndsAt
      <3> QED
        BY <1>2, <1>3, <3>2, <3>3
    <2>6. ~(f < e)
      <3> SUFFICES ASSUME f < e PROVE FALSE
        OBVIOUS
      <3>1. f \in (c + 1) .. (e - 1) /\ f \in 1 .. Len(a) /\ f # Len(x) + 1
        BY <1>1, <2>1, <2>4
      <3>2. a[f] # sep
        BY <2>2, <3>1 DEF EndsAt
      <3>3. x[f] = sep
        BY <2>3, <3>1 DEF EndsAt
      <3> QED
        BY <1>2, <3>1, <3>2, <3>3
    <2>7. e = f
      BY <2>4, <2>5, <2>6
    <2>8. /\ Len(Segment(a, sep, c)) = e - 1 - c
          /\ \A k \in 1 .. (e - 1 - c) : Segment(a, sep, c)[k] = a[c + k]
      BY <2>2 DEF EndsAt
    <2>9. \A k \in 1 .. (e - 1 - c) : Segment(a, sep, c)[k] = x[c + k]
      <3>1. \A k \in 1 .. (e - 1 - c) : c + k \in 1 .. Len(a)
        BY <1>1, <2>1, <2>4
      <3> QED
        BY <1>2, <2>8, <3>1
    <2>10. Segment(a, sep, c) \in Seq(C)
      BY <2>1, SegmentType
    <2>11. EndsAt(x, sep, c, e)
      BY <2>3, <2>7
    <2>12. StandsIn(x, Segment(a, sep, c), c, e)
      BY <2>8, <2>9 DEF StandsIn
    <2> HIDE DEF n
    <2> QED
      BY <1>1, <2>1, <2>4, <2>10, <2>11, <2>12, SegmentIs
  <1> HIDE DEF n
  <1>9. ToSet(split(x, sep)) = ToSet(split(a, sep)) \cup {b}
    BY <1>1, <1>6, <1>7, <1>8, SegmentSet
  <1> QED
    BY <1>1, <1>9 DEF x

\* What join computes, one scope after the other.
Joins(scopes, f, n) ==
  f = [k \in 1 .. n |-> IF k = 1 THEN scopes[1] ELSE f[k - 1] \o <<Space>> \o scopes[k]]

\* The texts join goes through exist.
LEMMA JoinExists ==
  ASSUME NEW T, NEW scopes \in Seq(T), NEW n \in 1 .. Len(scopes)
  PROVE  \E f : Joins(scopes, f, n)
  <1> DEFINE bad == {k \in 1 .. n : ~\E f : Joins(scopes, f, k)}
             k == Min(bad)
  <1>0. n \in Nat
    OBVIOUS
  <1> SUFFICES ASSUME ~\E f : Joins(scopes, f, n) PROVE FALSE
    OBVIOUS
  <1>1. k \in bad /\ \A j \in bad : k <= j
    <2>1. bad \subseteq Nat /\ n \in bad
      BY <1>0
    <2> HIDE DEF bad
    <2> QED
      BY <2>1, FirstOf
  <1> HIDE DEF k
  <1>2. k \in 1 .. n /\ ~\E f : Joins(scopes, f, k)
    BY <1>1
  <1>3. CASE k = 1
    <2> DEFINE f == [j \in 1 .. 1 |-> scopes[1]]
    <2>1. Joins(scopes, f, 1)
      BY DEF Joins
    <2> QED
      BY <1>2, <1>3, <2>1
  <1>4. CASE k # 1
    <2>1. k - 1 \in 1 .. n /\ ~(k <= k - 1)
      BY <1>0, <1>2, <1>4
    <2>2. PICK f : Joins(scopes, f, k - 1)
      BY <1>1, <2>1
    <2> DEFINE g == [j \in 1 .. k |-> IF j < k THEN f[j] ELSE f[k - 1] \o <<Space>> \o scopes[k]]
    <2>3. \A j \in 1 .. (k - 1) :
            f[j] = IF j = 1 THEN scopes[1] ELSE f[j - 1] \o <<Space>> \o scopes[j]
      BY <2>2 DEF Joins
    <2>4. ASSUME NEW j \in 1 .. k
          PROVE  g[j] = IF j = 1 THEN scopes[1] ELSE g[j - 1] \o <<Space>> \o scopes[j]
      <3>1. CASE j = k
        <4>1. j # 1 /\ j - 1 = k - 1 /\ k - 1 \in 1 .. k /\ k - 1 < k /\ ~(k < k)
          BY <1>0, <1>2, <1>4, <3>1
        <4>2. g[k - 1] = f[k - 1]
          BY <4>1
        <4>3. g[k] = f[k - 1] \o <<Space>> \o scopes[k]
          BY <3>1, <4>1
        <4> HIDE DEF g
        <4> QED
          BY <3>1, <4>1, <4>2, <4>3
      <3>2. CASE j # k
        <4>1. j \in 1 .. (k - 1) /\ j < k /\ g[j] = f[j]
          BY <1>0, <1>2, <3>2
        <4>2. j # 1 => g[j - 1] = f[j - 1]
          BY <1>0, <1>2, <4>1
        <4> HIDE DEF g
        <4> QED
          BY <2>3, <4>1, <4>2
      <3> QED
        BY <3>1, <3>2
    <2>5. g = [j \in 1 .. k |-> g[j]]
      OBVIOUS
    <2> HIDE DEF g
    <2>6. Joins(scopes, g, k)
      BY <2>4, <2>5, Zenon DEF Joins
    <2> QED
      BY <1>2, <2>6
  <1> QED
    BY <1>3, <1>4

\* Scopes without a space are read back one by one from their joined text.
LEMMA SplitJoin ==
  ASSUME NEW C, Space \in C, NEW scopes \in Seq(Seq(C)), scopes # <<>>,
         \A i \in DOMAIN scopes : \A k \in 1 .. Len(scopes[i]) : scopes[i][k] # Space
  PROVE  join(scopes) \in Seq(C) /\ ToSet(split(join(scopes), Space)) = ToSet(scopes)
  <1> DEFINE n == Len(scopes)
             upto == CHOOSE f : Joins(scopes, f, n)
  <1>1. n \in Nat /\ n \in 1 .. n /\ DOMAIN scopes = 1 .. n
    OBVIOUS
  <1>2. join(scopes) = upto[n]
    BY DEF join, Joins
  <1>3. Joins(scopes, upto, n)
    BY <1>1, JoinExists
  <1> HIDE DEF upto, n
  <1>4. \A k \in 1 .. n :
          upto[k] = IF k = 1 THEN scopes[1] ELSE upto[k - 1] \o <<Space>> \o scopes[k]
    BY <1>3 DEF Joins
  <1> DEFINE Read(k) == /\ upto[k] \in Seq(C)
                        /\ ToSet(split(upto[k], Space)) = {scopes[i] : i \in 1 .. k}
             bad == {k \in 1 .. n : ~Read(k)}
  <1>5. bad = {}
    <2> SUFFICES ASSUME bad # {} PROVE FALSE
      OBVIOUS
    <2> DEFINE k == Min(bad)
    <2>1. k \in bad /\ \A j \in bad : k <= j
      <3>1. bad \subseteq Nat
        BY <1>1
      <3> HIDE DEF bad
      <3> QED
        BY <3>1, FirstOf
    <2> HIDE DEF k
    <2>2. k \in 1 .. n /\ ~Read(k)
      BY <2>1
    <2>3. scopes[k] \in Seq(C) /\ \A j \in 1 .. Len(scopes[k]) : scopes[k][j] # Space
      BY <1>1, <2>2 DEF n
    <2>4. CASE k = 1
      <3>1. upto[k] = scopes[k] /\ {scopes[i] : i \in 1 .. k} = {scopes[k]}
        BY <1>4, <2>2, <2>4
      <3>2. ToSet(split(scopes[k], Space)) = {scopes[k]}
        BY <2>3, SplitOne
      <3> QED
        BY <2>2, <2>3, <3>1, <3>2
    <2>5. CASE k # 1
      <3>1. k - 1 \in 1 .. n /\ ~(k <= k - 1)
        BY <1>1, <2>2, <2>5
      <3>2. Read(k - 1)
        BY <2>1, <3>1
      <3>3. upto[k] = upto[k - 1] \o <<Space>> \o scopes[k]
        BY <1>4, <2>2, <2>5
      <3>4. /\ upto[k] \in Seq(C)
            /\ ToSet(split(upto[k], Space)) = ToSet(split(upto[k - 1], Space)) \cup {scopes[k]}
        <4> DEFINE before == upto[k - 1]
                   last == scopes[k]
        <4>1. /\ before \in Seq(C) /\ last \in Seq(C)
              /\ \A j \in 1 .. Len(last) : last[j] # Space
          BY <2>3, <3>2
        <4> HIDE DEF before, last
        <4>2. LET x == before \o <<Space>> \o last
              IN  x \in Seq(C) /\ ToSet(split(x, Space)) = ToSet(split(before, Space)) \cup {last}
          BY <4>1, SplitAppend
        <4> QED
          BY <3>3, <4>2 DEF before, last
      <3>5. 1 .. k = (1 .. (k - 1)) \cup {k}
        BY <1>1, <2>2, <2>5
      <3> QED
        BY <2>2, <3>2, <3>4, <3>5
    <2> QED
      BY <2>4, <2>5
  <1>6. Read(n)
    BY <1>1, <1>5
  <1> QED
    BY <1>1, <1>2, <1>6 DEF ToSet

\* What an issuer asks of the scopes it writes.
LEMMA WritableScopes ==
  ASSUME NEW scopes, valid_scope_set(scopes)
  PROVE  \A i \in DOMAIN scopes : \A k \in 1 .. Len(scopes[i]) : scopes[i][k] # Space
  <1>1. \A i \in DOMAIN scopes : ~Contains(scopes[i], Space)
    BY DEF valid_scope_set
  <1> QED
    BY <1>1 DEF Contains

\* The claim called name is in t exactly when it is in u, with the same value.
Shared(t, u, name) ==
  /\ name \in DOMAIN t <=> name \in DOMAIN u
  /\ name \in DOMAIN u => t[name] = u[name]

\* A reader of the scopes finds the ones the issuer wrote, in either format.
LEMMA ScopesReadBack ==
  ASSUME NEW scopes \in Seq(Seq(Chars)), NEW format, NEW legacy, NEW t, NEW written,
         written = issued_scope_claims(scopes, format), written # Refused,
         Shared(t, written, "scope"), Shared(t, written, "scopes"),
         parse_access_token_scopes(t, legacy) # Refused
  PROVE  ToSet(parse_access_token_scopes(t, legacy)) = ToSet(scopes)
  <1> DEFINE standard == IF "scope" \in DOMAIN t
                         THEN parse_standard_scope(t["scope"]) ELSE None
             old == IF "scopes" \notin DOMAIN t THEN None
                    ELSE IF legacy = "Reject" THEN Refused
                    ELSE parse_legacy_scopes(t["scopes"])
             read == parse_access_token_scopes(t, legacy)
  <1>1. /\ standard # Refused /\ old # Refused
        /\ (standard = None \/ old = None) =>
             read = IF standard # None THEN standard ELSE IF old # None THEN old ELSE <<>>
    <2>1. read = IF Refused \in {standard, old} THEN Refused
                 ELSE IF None \notin {standard, old} /\ ToSet(standard) # ToSet(old)
                 THEN Refused
                 ELSE IF standard # None THEN standard
                 ELSE IF old # None THEN old ELSE <<>>
      BY DEF parse_access_token_scopes
    <2> HIDE DEF standard, old, read
    <2>2. read # Refused
      BY DEF read
    <2> QED
      BY <2>1, <2>2
  <1>2. /\ valid_scope_set(scopes)
        /\ format = "LegacyArray" => written = [scopes |-> scopes]
        /\ format # "LegacyArray" /\ scopes = <<>> => written = <<>>
        /\ format # "LegacyArray" /\ scopes # <<>> => written = [scope |-> join(scopes)]
    BY DEF issued_scope_claims
  <1>3. None \notin Seq(Seq(Chars)) /\ Space \in Chars
    BY ProbesAssumption
  <1>4. CASE format = "LegacyArray"
    <2>1. "scope" \notin DOMAIN t /\ "scopes" \in DOMAIN t /\ t["scopes"] = scopes
      BY <1>2, <1>4 DEF Shared
    <2>2. standard = None /\ old = dedupe_stable(scopes)
      BY <1>1, <2>1 DEF parse_legacy_scopes
    <2>3. dedupe_stable(scopes) \in Seq(Seq(Chars)) /\ ToSet(dedupe_stable(scopes)) = ToSet(scopes)
      BY DedupeKeeps
    <2> HIDE DEF standard, old, read
    <2>4. read = old
      BY <1>1, <1>3, <2>2, <2>3
    <2> QED
      BY <2>2, <2>3, <2>4 DEF read
  <1>5. CASE format # "LegacyArray" /\ scopes = <<>>
    <2>1. "scope" \notin DOMAIN t /\ "scopes" \notin DOMAIN t
      BY <1>2, <1>5 DEF Shared
    <2>2. standard = None /\ old = None
      BY <2>1
    <2> HIDE DEF standard, old, read
    <2>3. read = scopes
      BY <1>1, <1>5, <2>2
    <2> QED
      BY <2>3 DEF read
  <1>6. CASE format # "LegacyArray" /\ scopes # <<>>
    <2> DEFINE texts == split(join(scopes), Space)
    <2>1. "scopes" \notin DOMAIN t /\ "scope" \in DOMAIN t /\ t["scope"] = join(scopes)
      BY <1>2, <1>6 DEF Shared
    <2>2. standard = dedupe_stable(texts) /\ old = None
      BY <1>1, <2>1 DEF parse_standard_scope
    <2>3. join(scopes) \in Seq(Chars) /\ ToSet(texts) = ToSet(scopes)
      BY <1>2, <1>3, <1>6, WritableScopes, SplitJoin
    <2>4. texts \in Seq(ToSet(scopes))
      <3>1. DOMAIN texts = 1 .. Cardinality(Cuts(join(scopes), Space))
        BY <2>3, SegmentsOf
      <3>2. Cardinality(Cuts(join(scopes), Space)) \in Nat
        BY <2>3, CutsOf
      <3>3. texts = [n \in 1 .. Cardinality(Cuts(join(scopes), Space)) |-> texts[n]]
        BY <3>2 DEF split
      <3> HIDE DEF texts
      <3>4. \A n \in 1 .. Cardinality(Cuts(join(scopes), Space)) : texts[n] \in ToSet(scopes)
        BY <2>3, <3>1 DEF ToSet
      <3> QED
        BY <3>2, <3>3, <3>4
    <2>5. ToSet(scopes) \subseteq Seq(Chars)
      BY DEF ToSet
    <2> HIDE DEF texts
    <2>6. texts \in Seq(Seq(Chars))
      BY <2>4, <2>5
    <2>7. dedupe_stable(texts) \in Seq(Seq(Chars)) /\ ToSet(dedupe_stable(texts)) = ToSet(texts)
      BY <2>6, DedupeKeeps
    <2> HIDE DEF standard, old, read
    <2>8. read = standard
      BY <1>1, <1>3, <2>2, <2>7
    <2> QED
      BY <2>2, <2>3, <2>7, <2>8 DEF read
  <1> QED
    BY <1>4, <1>5, <1>6

-----------------------------------------------------------------------------
(* Tokens: what each issuer signs and who accepts it.                      *)

Says(t, claim, value) == claim \in DOMAIN t /\ t[claim] = value

\* Flattening two sets of claims keeps those of the first and, under the
\* other names, those of the second.
LEMMA MergeClaims ==
  ASSUME NEW t, NEW u
  PROVE  /\ DOMAIN Merge(t, u) = DOMAIN t \cup DOMAIN u
         /\ \A claim, value : Says(t, claim, value) => Says(Merge(t, u), claim, value)
         /\ \A claim, value : claim \notin DOMAIN t /\ Says(u, claim, value) =>
                                Says(Merge(t, u), claim, value)
         /\ \A claim : claim \notin DOMAIN u => Shared(Merge(t, u), t, claim)
  BY DEF Merge, Says, Shared

\* The claims every token carries.
Carries(t, typ, purpose, aud, exp) ==
  /\ Says(t, "typ", typ) /\ Says(t, "purpose", purpose)
  /\ Says(t, "aud", aud) /\ Says(t, "exp", exp \div Second)

Fixed == {"typ", "purpose", "aud", "exp"}

\* Claims that name none of these leave them as they were sealed.
LEMMA SealedCarries ==
  ASSUME NEW u, DOMAIN u \cap Fixed = {},
         NEW typ, NEW purpose, NEW sub, NEW aud, NEW now, NEW exp
  PROVE  Carries(Merge(u, Sealed(typ, purpose, sub, aud, now, exp)), typ, purpose, aud, exp)
  <1> DEFINE s == Sealed(typ, purpose, sub, aud, now, exp)
  <1>1. /\ Says(s, "typ", typ) /\ Says(s, "purpose", purpose)
        /\ Says(s, "aud", aud) /\ Says(s, "exp", exp \div Second)
    BY DEF Sealed, Says
  <1>2. "typ" \notin DOMAIN u /\ "purpose" \notin DOMAIN u
        /\ "aud" \notin DOMAIN u /\ "exp" \notin DOMAIN u
    BY DEF Fixed
  <1> HIDE DEF s
  <1>3. Carries(Merge(u, s), typ, purpose, aud, exp)
    BY <1>1, <1>2, MergeClaims DEF Carries
  <1> QED
    BY <1>3 DEF s

\* The claims of an access token: its kind, its audience, its expiry, the
\* grant it stands for and the scopes as they were written.
IsAccess(t, scopes, format, grant_kind, aud, exp) ==
  /\ Carries(t, "access", "access_token", aud, exp)
  /\ Says(t, "grant_kind", grant_kind)
  /\ issued_scope_claims(scopes, format) # Refused
  /\ Shared(t, issued_scope_claims(scopes, format), "scope")
  /\ Shared(t, issued_scope_claims(scopes, format), "scopes")

\* No claim of the host hides one of these.
LEMMA AccessToken ==
  ASSUME NEW r, NEW grant_kind, NEW extra, NEW aud, NEW c, NEW now, NEW exp, NEW t,
         t = access_token(r, grant_kind, extra, aud, c, now, exp), t # Refused,
         DOMAIN extra \cap (Fixed \cup {"scope", "scopes"}) = {}
  PROVE  IsAccess(t, r.scopes, c.format, grant_kind, aud, exp)
  <1> DEFINE scope == issued_scope_claims(r.scopes, c.format)
             own == [sid |-> "session", roles |-> r.roles, jti |-> "fresh",
                     grant_kind |-> grant_kind]
             seal == Sealed("access", "access_token", r.sub, aud, now, exp)
             left == Merge(scope, own)
             right == Merge(extra, seal)
  <1>1. scope # Refused /\ t = Merge(left, right)
    BY DEF access_token
  <1>2. DOMAIN scope \subseteq {"scope", "scopes"}
    BY <1>1 DEF issued_scope_claims
  <1>3. DOMAIN own = {"sid", "roles", "jti", "grant_kind"} /\ own["grant_kind"] = grant_kind
    OBVIOUS
  <1>4. DOMAIN seal = {"typ", "purpose", "sub", "iss", "aud", "iat", "exp"}
    BY DEF Sealed
  <1>5. Carries(right, "access", "access_token", aud, exp)
    BY SealedCarries
  <1> HIDE DEF scope, own, seal
  <1>6. /\ DOMAIN left = DOMAIN scope \cup DOMAIN own
        /\ DOMAIN right = DOMAIN extra \cup DOMAIN seal
    BY MergeClaims
  <1>7. Shared(left, scope, "scope") /\ Shared(left, scope, "scopes")
    BY <1>3, MergeClaims
  <1>8. Says(left, "grant_kind", grant_kind)
    <2>1. Says(own, "grant_kind", grant_kind) /\ "grant_kind" \notin DOMAIN scope
      BY <1>2, <1>3 DEF Says
    <2> QED
      BY <2>1, MergeClaims
  <1> HIDE DEF left, right
  <1>9. /\ "typ" \notin DOMAIN left /\ "purpose" \notin DOMAIN left
        /\ "aud" \notin DOMAIN left /\ "exp" \notin DOMAIN left
        /\ "scope" \notin DOMAIN right /\ "scopes" \notin DOMAIN right
    BY <1>2, <1>3, <1>4, <1>6
  <1>10. Carries(Merge(left, right), "access", "access_token", aud, exp)
    BY <1>5, <1>9, MergeClaims DEF Carries
  <1>11. Says(Merge(left, right), "grant_kind", grant_kind)
    BY <1>8, MergeClaims
  <1>12. Shared(t, left, "scope") /\ Shared(t, left, "scopes")
    <2>1. /\ Shared(Merge(left, right), left, "scope")
          /\ Shared(Merge(left, right), left, "scopes")
      BY <1>9, MergeClaims
    <2> QED
      BY <1>1, <2>1
  <1>13. Shared(t, scope, "scope") /\ Shared(t, scope, "scopes")
    BY <1>7, <1>12 DEF Shared
  <1> QED
    BY <1>1, <1>10, <1>11, <1>13 DEF scope, IsAccess

\* An issuer that has an expiry gives it the lifetime it was asked for.
LEMMA Expiry ==
  ASSUME NEW now, NEW ttl, checked_jwt_expiry(now, ttl) # Refused
  PROVE  checked_jwt_expiry(now, ttl) = now + ttl
  BY DEF checked_jwt_expiry

\* What an access token was issued for.
Grant(issue_kind) ==
  CASE issue_kind = "session" -> "UserSession"
    [] issue_kind = "sessionless" -> "Sessionless"
    [] OTHER -> "SessionBoundDelegation"

Lifetime(r, c) == IF r.issue = "session" THEN c.ttl ELSE Ttl(r, c)

\* The token t is an access token with the authority r asks for, and for
\* no longer.
Grants(t, r, c, now) ==
  \E scopes \in Seq(Seq(Chars)) : \E exp \in Int :
    /\ IsAccess(t, scopes, c.format, Grant(r.issue),
                IF r.issue = "fixed" THEN c.fixed ELSE c.audience, exp)
    /\ ToSet(scopes) = ToSet(r.scopes)
    /\ exp <= now + Lifetime(r, c)

\* Every issuer of access tokens signs what it was asked for.
LEMMA IssuedAccess ==
  ASSUME NEW r, NEW c, NEW now \in Int, NEW t, t = issue(r, c, now), t # Refused,
         c.ttl \in Int, c.max_del \in Int, r.ttl \in Optional(Int),
         "scopes" \in DOMAIN r, r.scopes \in Seq(Seq(Chars)),
         r.issue \in {"session", "sessionless", "delegation", "fixed"}
  PROVE  Grants(t, r, c, now) /\ (r.issue = "fixed" => c.fixed # None)
  <1>1. Ttl(r, c) \in Int /\ None \notin Int
    BY AssuranceAssumption DEF Ttl, Optional
  <1>2. /\ DOMAIN <<>> \cap (Fixed \cup {"scope", "scopes"}) = {}
        /\ validate_access_token_ttl_and_claims(r, c) =>
             DOMAIN r.custom \cap (Fixed \cup {"scope", "scopes"}) = {}
    BY DEF validate_access_token_ttl_and_claims, Fixed, RESERVED_ACCESS_TOKEN_CLAIMS,
           RESERVED_PURPOSE_TOKEN_CLAIMS
  <1>3. CASE r.issue = "session"
    <2> DEFINE exp == checked_jwt_expiry(now, c.ttl)
    <2>1. t = issue_session(r, c, now)
      BY <1>3 DEF issue
    <2>2. exp # Refused /\ t = access_token(r, "UserSession", <<>>, c.audience, c, now, exp)
      BY <2>1 DEF issue_session
    <2>3. exp = now + c.ttl /\ exp \in Int
      BY <2>2, Expiry
    <2> HIDE DEF exp
    <2>4. IsAccess(t, r.scopes, c.format, "UserSession", c.audience, exp)
      BY <1>2, <2>2, AccessToken
    <2>5. Grant(r.issue) = "UserSession" /\ Lifetime(r, c) = c.ttl /\ r.issue # "fixed"
      BY <1>3 DEF Grant, Lifetime
    <2> QED
      BY <2>3, <2>4, <2>5 DEF Grants
  <1>4. CASE r.issue = "sessionless"
    <2> DEFINE exp == checked_jwt_expiry(now, Ttl(r, c))
               q == [r EXCEPT !.scopes = dedupe_stable(@)]
    <2>1. t = issue_access_token_only(r, c, now)
      BY <1>4 DEF issue
    <2>2. /\ exp # Refused /\ validate_access_token_ttl_and_claims(r, c)
          /\ t = access_token(q, "Sessionless", r.custom, c.audience, c, now, exp)
      BY <2>1 DEF issue_access_token_only
    <2>3. exp = now + Ttl(r, c) /\ exp \in Int
      BY <1>1, <2>2, Expiry
    <2>4. q.scopes = dedupe_stable(r.scopes)
      OBVIOUS
    <2> HIDE DEF exp, q
    <2>5. IsAccess(t, q.scopes, c.format, "Sessionless", c.audience, exp)
      BY <1>2, <2>2, AccessToken
    <2>6. Grant(r.issue) = "Sessionless" /\ Lifetime(r, c) = Ttl(r, c) /\ r.issue # "fixed"
      BY <1>4 DEF Grant, Lifetime
    <2>7. q.scopes \in Seq(Seq(Chars)) /\ ToSet(q.scopes) = ToSet(r.scopes)
      BY <2>4, DedupeKeeps
    <2> QED
      BY <1>1, <2>3, <2>5, <2>6, <2>7 DEF Grants
  <1>5. CASE r.issue \in {"delegation", "fixed"}
    <2> DEFINE exp == now + IF Ttl(r, c) < c.max_del THEN Ttl(r, c) ELSE c.max_del
               aud == IF r.issue = "fixed" THEN c.fixed ELSE c.audience
               bound == [b \in Bindings \cup {"session_version"} |-> "bound"]
               extra == Merge(r.custom, bound)
    <2>1. t = issue_delegation(r, aud, c, now)
      <3>1. CASE r.issue = "fixed"
        BY <3>1 DEF issue
      <3>2. CASE r.issue = "delegation"
        BY <3>2 DEF issue
      <3> QED
        BY <1>5, <3>1, <3>2
    <2> HIDE DEF aud
    <2>2. /\ validate_access_token_ttl_and_claims(r, c) /\ aud # None
          /\ t = access_token(r, "SessionBoundDelegation", extra, aud, c, now, exp)
      BY <2>1 DEF issue_delegation
    <2>3. exp \in Int /\ exp <= now + Ttl(r, c)
      BY <1>1
    <2>4. DOMAIN extra \cap (Fixed \cup {"scope", "scopes"}) = {}
      <3>1. DOMAIN bound = Bindings \cup {"session_version"}
        OBVIOUS
      <3> HIDE DEF bound
      <3>2. DOMAIN extra = DOMAIN r.custom \cup Bindings \cup {"session_version"}
        BY <3>1 DEF Merge
      <3> HIDE DEF extra
      <3>3. (Bindings \cup {"session_version"}) \cap (Fixed \cup {"scope", "scopes"}) = {}
        BY DEF Bindings, Fixed
      <3> QED
        BY <1>2, <2>2, <3>2, <3>3
    <2> HIDE DEF exp, extra
    <2>5. IsAccess(t, r.scopes, c.format, "SessionBoundDelegation", aud, exp)
      BY <2>2, <2>4, AccessToken
    <2>6. Grant(r.issue) = "SessionBoundDelegation" /\ Lifetime(r, c) = Ttl(r, c)
      BY <1>5 DEF Grant, Lifetime
    <2>7. Grants(t, r, c, now)
      BY <2>3, <2>5, <2>6 DEF Grants, aud
    <2> QED
      BY <2>2, <2>7 DEF aud
  <1> QED
    BY <1>3, <1>4, <1>5

\* A purpose token and a reset token say what they are.
LEMMA IssuedPurpose ==
  ASSUME NEW r, NEW c, NEW now, NEW t, t = issue(r, c, now), t # Refused
  PROVE  /\ r.issue = "purpose" =>
              /\ Says(t, "typ", "purpose") /\ Says(t, "purpose", r.purpose)
              /\ Says(t, "aud", r.aud)
         /\ r.issue = "reset" => Says(t, "typ", "password_reset")
         /\ r.issue \in {"purpose", "reset"} => Says(t, "exp", (now + r.ttl) \div Second)
  <1> DEFINE exp == checked_jwt_expiry(now, r.ttl)
  <1>1. CASE r.issue = "purpose"
    <2> DEFINE host == Merge(r.custom, [scopes |-> r.scopes, sid |-> "session"])
               seal == Sealed("purpose", r.purpose, r.sub, r.aud, now, exp)
    <2>1. t = issue_purpose_token(r, c, now)
      BY <1>1 DEF issue
    <2>2. /\ validate_purpose_token_issue_request(r) /\ t = Merge(host, seal)
          /\ exp # Refused
      BY <2>1 DEF issue_purpose_token
    <2>e. exp = now + r.ttl
      BY <2>2, Expiry
    <2>3. DOMAIN host \cap Fixed = {}
      <3>1. DOMAIN r.custom \cap RESERVED_PURPOSE_TOKEN_CLAIMS = {}
        BY <2>2 DEF validate_purpose_token_issue_request
      <3>2. DOMAIN host = DOMAIN r.custom \cup {"scopes", "sid"}
        BY DEF Merge
      <3> HIDE DEF host
      <3> QED
        BY <3>1, <3>2 DEF Fixed, RESERVED_PURPOSE_TOKEN_CLAIMS
    <2> HIDE DEF host, exp
    <2>4. Carries(Merge(host, seal), "purpose", r.purpose, r.aud, exp)
      BY <2>3, SealedCarries
    <2> HIDE DEF seal
    <2> QED
      BY <1>1, <2>2, <2>4, <2>e DEF Carries
  <1>2. CASE r.issue = "reset"
    <2> DEFINE own == [jti |-> "fresh"]
               seal == Sealed("password_reset", "password_reset", r.sub, c.audience, now, exp)
    <2>1. t = issue_password_reset_token(r, c, now)
      BY <1>2 DEF issue
    <2>2. t = Merge(own, seal) /\ exp # Refused
      BY <2>1 DEF issue_password_reset_token
    <2>e. exp = now + r.ttl
      BY <2>2, Expiry
    <2>3. DOMAIN own \cap Fixed = {}
      BY DEF Fixed
    <2> HIDE DEF own, exp
    <2>4. Carries(Merge(own, seal), "password_reset", "password_reset", c.audience, exp)
      BY <2>3, SealedCarries
    <2> HIDE DEF seal
    <2> QED
      BY <1>2, <2>2, <2>4, <2>e DEF Carries
  <1> QED
    BY <1>1, <1>2

\* A token that has not expired on a reader's clock is inside its lifetime.
LEMMA NotExpired ==
  ASSUME NEW now \in Int, NEW exp \in Int, NEW leeway \in Int, NEW limit \in Int,
         exp <= limit, exp \div Second + leeway > now \div Second
  PROVE  now < limit + leeway * Second
  <1> DEFINE e == exp \div Second
             n == now \div Second
  <1>1. Second \in Nat \ {0}
    BY AssuranceAssumption
  <1>2. e \in Int /\ e * Second <= exp
    BY <1>1, RoundedDown
  <1>3. n \in Int /\ now < (n + 1) * Second
    BY <1>1, RoundedDown
  <1>4. e + leeway > n
    OBVIOUS
  <1> HIDE DEF e, n
  <1>5. n + 1 <= e + leeway
    BY <1>2, <1>3, <1>4
  <1>6. (n + 1) * Second <= (e + leeway) * Second
    <2>1. \A a, b \in Int : a <= b => a * Second <= b * Second
      BY <1>1, SMT
    <2> QED
      BY <1>2, <1>3, <1>5, <2>1
  <1>7. (e + leeway) * Second = e * Second + leeway * Second
    BY <1>1, <1>2
  <1> QED
    BY <1>1, <1>2, <1>3, <1>6, <1>7

\* Who reads which token: by its type and its audience.
LEMMA ReadBy ==
  ASSUME NEW t, NEW v, NEW now, decode_access_token_claims(t, v, now)
  PROVE  /\ t["aud"] \in v.audiences
         /\ t["exp"] + v.leeway > now \div Second
         /\ "typ" \in DOMAIN t => t["typ"] \in {None, "access"}
         /\ parse_access_token_scopes(t, v.legacy) # Refused
  BY DEF decode_access_token_claims, validate_time_claims, validate_type_and_purpose, Get

\* A decode configuration finds in an access token what was granted.
LEMMA AccessRead ==
  ASSUME NEW r, NEW c, NEW issued \in Int, NEW t, NEW v, NEW now \in Int,
         Grants(t, r, c, issued), Lifetime(r, c) \in Int, v.leeway \in Int,
         decode_access_token_claims(t, v, now)
  PROVE  /\ (IF r.issue = "fixed" THEN c.fixed ELSE c.audience) \in v.audiences
         /\ now < issued + Lifetime(r, c) + v.leeway * Second
         /\ ToSet(parse_access_token_scopes(t, v.legacy)) = ToSet(r.scopes)
         /\ Says(t, "grant_kind", Grant(r.issue))
  <1> DEFINE aud == IF r.issue = "fixed" THEN c.fixed ELSE c.audience
             limit == issued + Lifetime(r, c)
  <1>1. PICK scopes \in Seq(Seq(Chars)) : \E exp \in Int :
          /\ IsAccess(t, scopes, c.format, Grant(r.issue), aud, exp)
          /\ ToSet(scopes) = ToSet(r.scopes) /\ exp <= limit
    BY DEF Grants
  <1>2. PICK exp \in Int :
          /\ IsAccess(t, scopes, c.format, Grant(r.issue), aud, exp)
          /\ ToSet(scopes) = ToSet(r.scopes) /\ exp <= limit
    BY <1>1
  <1> HIDE DEF aud
  <1>3. /\ t["aud"] = aud /\ t["exp"] = exp \div Second /\ Says(t, "grant_kind", Grant(r.issue))
        /\ issued_scope_claims(scopes, c.format) # Refused
        /\ Shared(t, issued_scope_claims(scopes, c.format), "scope")
        /\ Shared(t, issued_scope_claims(scopes, c.format), "scopes")
    BY <1>2 DEF IsAccess, Carries, Says
  <1>4. /\ aud \in v.audiences /\ exp \div Second + v.leeway > now \div Second
        /\ parse_access_token_scopes(t, v.legacy) # Refused
    BY <1>3, ReadBy
  <1>5. limit \in Int /\ exp <= limit
    BY <1>2
  <1> HIDE DEF limit
  <1>6. now < limit + v.leeway * Second
    BY <1>4, <1>5, NotExpired
  <1>7. ToSet(parse_access_token_scopes(t, v.legacy)) = ToSet(scopes)
    BY <1>3, <1>4, ScopesReadBack
  <1> QED
    BY <1>2, <1>3, <1>4, <1>6, <1>7 DEF aud, limit

\* Every reader accepts only what its own issuer signed.
LEMMA TokenAnswer ==
  ASSUME Decided, Answered("token") PROVE AcceptedAsIssued
  <1> DEFINE r == probe.request
             c == probe.config
             issued == probe.issued
             now == probe.now
             val == probe.validator
             b == [val EXCEPT !.legacy = c.legacy]
             v == validator_decode(b)
             t == issue(r, c, issued)
             Access4 == {"session", "sessionless", "delegation", "fixed"}
  <1>1. probe.kind = "token" /\ verdict = Verdict(probe) /\ verdict # Refused
    BY DEF Answered, Decided
  <1>2. /\ now \in Int /\ issued \in Int /\ val.leeway \in Int
        /\ c.ttl \in Int /\ c.max_del \in Int
        /\ r.issue \in Issues /\ r.ttl \in Optional(Int)
        /\ r.scopes \in Seq(Seq(Chars)) /\ "scopes" \in DOMAIN r
        /\ "leeway" \in DOMAIN val
        /\ r.issue \in {"purpose", "reset"} => r.ttl # None
    BY <1>1 DEF Decided, WellTyped
  <1>3. /\ config_valid(c) /\ fixed_valid(c) /\ t # Refused
        /\ verdict =
             [token |-> t,
              access |-> decode_access_token_claims(t, service_decode(c), now),
              fixed |-> c.fixed # None
                        /\ decode_access_token_claims(t, fixed_decode(c), now),
              remote |-> v # Refused /\ decode_access_token_claims(t, v, now),
              purpose |-> authenticate_purpose_token(t, probe.expected, now),
              reset |-> authenticate_password_reset_token(t, c, now)]
    BY <1>1 DEF Verdict
  <1>4. Lifetime(r, c) \in Int /\ (r.issue # "session" => Lifetime(r, c) = Ttl(r, c))
        /\ (r.issue = "session" => Lifetime(r, c) = c.ttl)
    BY <1>2, AssuranceAssumption DEF Lifetime, Ttl, Optional
  <1> HIDE DEF r, c, issued, now, val, b, v, t
  <1>5. r.issue \in Access4 =>
          /\ Grants(t, r, c, issued) /\ Says(t, "typ", "access")
          /\ r.issue = "fixed" => c.fixed # None
    <2> SUFFICES ASSUME r.issue \in Access4
                 PROVE  /\ Grants(t, r, c, issued) /\ Says(t, "typ", "access")
                        /\ r.issue = "fixed" => c.fixed # None
      OBVIOUS
    <2>1. Grants(t, r, c, issued) /\ (r.issue = "fixed" => c.fixed # None)
      BY <1>2, <1>3, IssuedAccess DEF t
    <2>2. Says(t, "typ", "access")
      BY <2>1 DEF Grants, IsAccess, Carries
    <2> QED
      BY <2>1, <2>2
  <1>6. /\ r.issue = "purpose" =>
             /\ Says(t, "typ", "purpose") /\ Says(t, "purpose", r.purpose)
             /\ Says(t, "aud", r.aud)
        /\ r.issue = "reset" => Says(t, "typ", "password_reset")
        /\ r.issue \in {"purpose", "reset"} =>
             Says(t, "exp", (issued + r.ttl) \div Second)
    BY <1>3, IssuedPurpose DEF t
  <1>7. r.issue \in Access4 \/ r.issue = "purpose" \/ r.issue = "reset"
    BY <1>2 DEF Issues
  <1>8. c.fixed # None => c.fixed # c.audience
    BY <1>3 DEF fixed_valid, eq_ignore_case
  \* Whatever is read as an access token is one.
  <1>9. ASSUME NEW w, decode_access_token_claims(t, w, now) PROVE r.issue \in Access4
    <2>1. "typ" \in DOMAIN t => t["typ"] \in {None, "access"}
      BY <1>9, ReadBy
    <2>2. None # "purpose" /\ None # "password_reset"
      BY ProbesAssumption
    <2> QED
      BY <1>6, <1>7, <2>1, <2>2 DEF Says
  <1>10. ASSUME verdict.access
         PROVE  /\ r.issue \in {"session", "sessionless", "delegation"}
                /\ ToSet(parse_access_token_scopes(t, c.legacy)) = ToSet(r.scopes)
                /\ now < issued + Lifetime(r, c)
                /\ require_session_management_eligible(t) => r.issue = "session"
    <2> DEFINE w == service_decode(c)
    <2>1. decode_access_token_claims(t, w, now)
      BY <1>3, <1>10
    <2>2. w.audiences = {c.audience} /\ w.leeway = 0 /\ w.legacy = c.legacy
      BY DEF service_decode
    <2> HIDE DEF w
    <2>3. r.issue \in Access4
      BY <1>9, <2>1
    <2>4. /\ (IF r.issue = "fixed" THEN c.fixed ELSE c.audience) \in w.audiences
          /\ now < issued + Lifetime(r, c) + w.leeway * Second
          /\ ToSet(parse_access_token_scopes(t, w.legacy)) = ToSet(r.scopes)
          /\ Says(t, "grant_kind", Grant(r.issue))
      <3>1. w.leeway \in Int
        BY <2>2
      <3> QED
        BY <1>2, <1>4, <1>5, <2>1, <2>3, <3>1, AccessRead
    <2>5. r.issue # "fixed"
      BY <1>5, <1>8, <2>2, <2>3, <2>4
    <2>6. 0 * Second = 0 /\ issued + Lifetime(r, c) + 0 = issued + Lifetime(r, c)
      BY <1>2, <1>4, AssuranceAssumption
    <2>7. ASSUME require_session_management_eligible(t) PROVE r.issue = "session"
      <3>1. Grant(r.issue) \in {None, "UserSession"}
        BY <2>4, <2>7 DEF require_session_management_eligible, Get, Says
      <3>2. None # "Sessionless" /\ None # "SessionBoundDelegation"
        BY ProbesAssumption
      <3> QED
        BY <3>1, <3>2 DEF Grant
    <2> QED
      BY <2>2, <2>3, <2>4, <2>5, <2>6, <2>7
  <1>11. ASSUME verdict.remote
         PROVE  r.issue \in Access4 /\ now < issued + Lifetime(r, c) + val.leeway * Second
    <2>1. v # Refused /\ decode_access_token_claims(t, v, now)
      BY <1>3, <1>11
    <2>2. v.leeway = val.leeway
      <3>1. b.leeway = val.leeway
        BY <1>2 DEF b
      <3>2. v.leeway = b.leeway
        BY <2>1 DEF v, validator_decode
      <3> QED
        BY <3>1, <3>2
    <2>3. r.issue \in Access4
      BY <1>9, <2>1
    <2> QED
      BY <1>2, <1>4, <1>5, <2>1, <2>2, <2>3, AccessRead
  <1>12. ASSUME verdict.fixed PROVE r.issue = "fixed" /\ now < issued + Lifetime(r, c)
    <2> DEFINE w == fixed_decode(c)
    <2>1. c.fixed # None /\ decode_access_token_claims(t, w, now)
      BY <1>3, <1>12
    <2>2. w.audiences = {c.fixed} /\ w.leeway = 0
      BY DEF fixed_decode, service_decode
    <2> HIDE DEF w
    <2>3. r.issue \in Access4 /\ w.leeway \in Int
      BY <1>9, <2>1, <2>2
    <2>4. /\ (IF r.issue = "fixed" THEN c.fixed ELSE c.audience) \in w.audiences
          /\ now < issued + Lifetime(r, c) + w.leeway * Second
      BY <1>2, <1>4, <1>5, <2>1, <2>3, AccessRead
    <2>5. 0 * Second = 0 /\ issued + Lifetime(r, c) + 0 = issued + Lifetime(r, c)
      BY <1>2, <1>4, AssuranceAssumption
    <2>6. r.issue = "fixed"
      BY <1>8, <2>1, <2>2, <2>4
    <2> QED
      BY <2>2, <2>4, <2>5, <2>6
  \* The readers of the other kinds compare whole seconds too.
  <1>e. ASSUME r.issue \in {"purpose", "reset"}
        PROVE  /\ t["exp"] > now \div Second => now < issued + Lifetime(r, c)
               /\ t["exp"] * Second > now => now < issued + Lifetime(r, c)
    <2> DEFINE limit == issued + r.ttl
    <2>1. r.ttl \in Int /\ Lifetime(r, c) = r.ttl
      BY <1>2, <1>4, <1>e DEF Optional, Ttl
    <2>2. limit \in Int /\ t["exp"] = limit \div Second
      BY <1>2, <1>6, <1>e, <2>1 DEF Says
    <2> HIDE DEF limit
    <2>3. Second \in Nat \ {0} /\ limit + 0 * Second = limit
      BY <2>2, AssuranceAssumption
    <2>4. limit \div Second \in Int /\ (limit \div Second) * Second <= limit
      BY <2>2, <2>3, RoundedDown
    <2>5. ASSUME limit \div Second > now \div Second PROVE now < limit
      <3>1. limit \div Second + 0 > now \div Second
        BY <2>4, <2>5
      <3>2. now < limit + 0 * Second
        BY <1>2, <2>2, <3>1, NotExpired
      <3> QED
        BY <2>3, <3>2
    <2>6. ASSUME (limit \div Second) * Second > now PROVE now < limit
      BY <1>2, <2>2, <2>3, <2>4, <2>6
    <2> QED
      BY <2>1, <2>2, <2>5, <2>6 DEF limit
  <1>13. ASSUME verdict.purpose
         PROVE  /\ r.issue = "purpose" /\ r.purpose = probe.expected.purpose
                /\ r.aud = probe.expected.aud
                /\ now < issued + Lifetime(r, c)
    <2>1. authenticate_purpose_token(t, probe.expected, now)
      BY <1>3, <1>13
    <2>2. /\ t["typ"] = "purpose" /\ t["purpose"] = probe.expected.purpose
          /\ t["aud"] = probe.expected.aud /\ t["exp"] > now \div Second
      BY <2>1 DEF authenticate_purpose_token
    <2>3. r.issue = "purpose"
      BY <1>5, <1>6, <1>7, <2>2 DEF Says
    <2> QED
      BY <1>6, <1>e, <2>2, <2>3 DEF Says
  <1>14. ASSUME verdict.reset PROVE r.issue = "reset" /\ now < issued + Lifetime(r, c)
    <2>1. authenticate_password_reset_token(t, c, now)
      BY <1>3, <1>14
    <2>2. /\ "typ" \in DOMAIN t => t["typ"] \in {None, "password_reset"}
          /\ t["exp"] * Second > now
      BY <2>1 DEF authenticate_password_reset_token, Get
    <2>3. r.issue = "reset"
      BY <1>5, <1>6, <1>7, <2>2, ProbesAssumption DEF Says
    <2> QED
      BY <1>e, <2>2, <2>3
  <1>15. verdict.token = t /\ probe.kind # "header"
    BY <1>1, <1>3
  <1> QED
    BY <1>4, <1>10, <1>11, <1>12, <1>13, <1>14, <1>15
       DEF AcceptedAsIssued, Answered, r, c, issued, now, val

\* A validator verifies an algorithm it allows, with a key of its family and
\* under the key id it was built for.
LEMMA HeaderAnswer ==
  ASSUME Decided, Answered("header") PROVE AcceptedAsIssued
  <1> DEFINE v == build(probe.builder)
             key == resolver(v, probe.header.kid)
  <1>1. probe.kind = "header" /\ verdict = Verdict(probe) /\ verdict # Refused
    BY DEF Answered, Decided
  <1>2. {"key_id", "algs"} \subseteq DOMAIN probe.builder
    BY <1>1 DEF Decided, WellTyped
  <1>3. v # Refused /\ verdict = decode_config_for_token(v, probe.header)
    BY <1>1 DEF Verdict
  <1>4. v.key_id = probe.builder.key_id
    BY <1>2, <1>3 DEF build
  <1>a. /\ probe.builder.algs # {} => v.algs = probe.builder.algs
        /\ "HS256" \in v.algs => probe.builder.accept_hs256
    BY <1>2, <1>3 DEF build, build_key_resolver
  <1> HIDE DEF v
  <1>5. /\ verdict = key /\ probe.header.alg \in v.algs /\ signature_fits(key, v.algs)
        /\ v.key_id # None => probe.header.kid = v.key_id
    BY <1>1, <1>3 DEF decode_config_for_token
  <1> HIDE DEF key
  <1>6. Family(verdict.alg) = Family(probe.header.alg)
    BY <1>5 DEF signature_fits
  <1> QED
    BY <1>1, <1>4, <1>5, <1>6, <1>a DEF AcceptedAsIssued, Answered

\* A token opens what it was issued for and nothing else, for every
\* configuration, every custom claim and every list of scopes.
THEOREM AcceptedAlways == Spec => []AcceptedAsIssued
  <1>1. Decided => AcceptedAsIssued
    <2>1. CASE Answered("token") \/ Answered("header")
      BY <2>1, TokenAnswer, HeaderAnswer
    <2>2. CASE ~(Answered("token") \/ Answered("header"))
      BY <2>2 DEF AcceptedAsIssued
    <2> QED
      BY <2>1, <2>2
  <1> QED
    BY <1>1, DecidedAlways, PTL
=============================================================================
