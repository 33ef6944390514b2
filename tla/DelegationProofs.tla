-------------------------- MODULE DelegationProofs --------------------------
(***************************************************************************)
(* Theorems about delegated tokens, their re-checks and the connections    *)
(* opened with them, for any grants, lifetimes, policies and clock         *)
(* resolution, and any number of changes by the host.                      *)
(***************************************************************************)
EXTENDS Delegation, WellFoundedInduction, TLAPS

\* A record under which the session could grant the request until e.
Grantor(s, e) ==
    /\ ~s.revoked /\ s.version = version /\ want \subseteq s.grants
    /\ e <= effective_expires_at(s)

\* What the issuing call has established, by a record it may have read.
TokenInv ==
    /\ Issuing => session \in seen
    /\ pc \in {"enable", "prepared", "resolve"} => version \in Nat
    /\ pc \in {"resolve", "enabled", "sign", "issued"} =>
         (path = "facade" <=> fixed)
    /\ pc \in {"enabled", "sign", "issued"} => \E s \in seen : Grantor(s, expiry)
    /\ pc \in {"sign", "issued"} /\ path = "facade" => \E s \in seen : ~s.disabled

\* What the re-check has established.
RecheckInv ==
    /\ Rechecking => session \in watched
    /\ check # "idle" => pc = "accepted"
    /\ check \in {"status", "current", "allowed"} => now < expiry
    /\ check = "allowed" => \E s \in watched :
         /\ ~s.revoked /\ ~s.disabled /\ s.version = version
         /\ result = want \cap s.grants

\* When the connection was checked last, or opened.
Checked == IF last = None THEN started ELSE last

\* An open connection has not passed its expiry, and is due for a check within
\* the interval; no check since the revocation has left it open.
ConnectionInv ==
    /\ session.revoked <=> revoked_at # None
    /\ conn = "none" => last = None
    /\ conn = "open" =>
         /\ pc = "accepted" /\ policy \in Policies
         /\ started <= clock /\ Checked <= clock
    /\ conn = "open" /\ policy.failure_mode = "FailClosed" =>
         /\ clock <= expiry /\ deadline <= expiry
         /\ last = clock => clock < expiry
         /\ deadline <= Checked \/ deadline <= Checked + policy.min_interval
         /\ revoked_at # None =>
              /\ last # None => last <= revoked_at
              /\ \E t \in {revoked_at, started}, d \in {1, policy.min_interval} :
                   clock <= t + d

IndInv == TypeOK /\ TokenInv /\ RecheckInv /\ ConnectionInv

-----------------------------------------------------------------------------
(* Minima, times and deadlines.                                            *)

\* A non-empty set of natural numbers has a least element, which Min finds.
LEMMA MinOfNaturals ==
  ASSUME NEW S \in SUBSET Nat, S # {}
  PROVE  Min(S) \in S /\ \A y \in S : Min(S) <= y
  <1> DEFINE Less == {p \in Nat \X Nat : p[1] < p[2]}
  <1>1. IsWellFoundedOn(Less, Nat)
    BY NatLessThanWellFounded DEF OpToRel
  <1>2. PICK x \in S : \A y \in S : ~(<<y, x>> \in Less)
    BY <1>1, WFMin
  <1>3. ASSUME NEW y \in S, y < x PROVE FALSE
    <2>1. <<y, x>> \in Nat \X Nat /\ <<y, x>>[1] = y /\ <<y, x>>[2] = x
      OBVIOUS
    <2>2. <<y, x>> \in Less
      BY <1>3, <2>1
    <2> QED
      BY <1>2, <2>2
  <1>4. \A y \in S : x <= y
    BY <1>3
  <1> QED
    BY <1>4 DEF Min

\* The larger and the smaller of two integers.
LEMMA OfTwo ==
  ASSUME NEW a \in Int, NEW b \in Int, NEW S, S = {a, b}
  PROVE  /\ Max(S) \in {a, b} /\ a <= Max(S) /\ b <= Max(S)
         /\ Min(S) \in {a, b} /\ Min(S) <= a /\ Min(S) <= b
  <1>1. \E x \in S : \A y \in S : x >= y
    OBVIOUS
  <1>2. \E x \in S : \A y \in S : x <= y
    OBVIOUS
  <1> QED
    BY <1>1, <1>2 DEF Max, Min

\* Every record has an expiry.
LEMMA EffectiveExpiry ==
  ASSUME NEW s \in Sessions PROVE effective_expires_at(s) \in Nat
  <1>1. {s.idle_expires_at, Absolute} \in SUBSET Nat
    BY DelegationAssumption DEF Sessions
  <1> QED
    BY <1>1, MinOfNaturals DEF effective_expires_at

\* Whole seconds are not more than the time they are cut from.
LEMMA WholeSeconds ==
  ASSUME NEW t \in Nat
  PROVE  /\ Seconds(t) \in Nat
         /\ Second * Seconds(t) \in Nat
         /\ Second * Seconds(t) <= t
  BY DelegationAssumption DEF Seconds

\* A token's expiry is not after the session's.
LEMMA TokenExpiry ==
  ASSUME clock \in Nat, expiry \in Nat, NEW ttl \in Ttls
  PROVE  /\ Second * Seconds(Expires(ttl)) \in Nat
         /\ Second * Seconds(Expires(ttl)) <= expiry
  <1>1. {clock + ttl, clock + MaxTtl, expiry} \in SUBSET Nat
    BY DelegationAssumption
  <1>2. Expires(ttl) \in Nat /\ Expires(ttl) <= expiry
    BY <1>1, MinOfNaturals DEF Expires
  <1> QED
    BY <1>2, WholeSeconds

\* The share of a lifetime is a time.
LEMMA FractionIsTime ==
  ASSUME NEW p \in Policies, p.lifetime_percent # None, NEW r \in Nat
  PROVE  Fraction(p, r) \in Nat
  <1> DEFINE percent == Max({1, Min({p.lifetime_percent, 100})})
  <1>1. PICK l \in Int : l = p.lifetime_percent
    <2>1. p.lifetime_percent \in Int \cup {None}
      BY DelegationAssumption
    <2> QED
      BY <2>1
  <1>2. percent \in Nat
    <2> DEFINE least == Min({l, 100})
    <2>1. least \in Int
      <3>1. \A S : S = {l, 100} => Min(S) \in {l, 100}
        BY OfTwo
      <3> QED
        BY <3>1
    <2> HIDE DEF least
    <2>2. 1 \in Int
      OBVIOUS
    <2>3. \A S : S = {1, least} => Max(S) \in {1, least} /\ 1 <= Max(S)
      BY <2>1, <2>2, OfTwo, Zenon
    <2>4. Max({1, least}) \in Nat
      BY <2>1, <2>3
    <2> QED
      BY <1>1, <2>4, Zenon DEF least
  <1> HIDE DEF percent
  <1>3. r * percent \in Nat
    BY <1>2
  <1>4. (r * percent + 99) \div 100 \in Nat
    BY <1>3
  <1>5. Max({1, (r * percent + 99) \div 100}) \in Nat
    <2> DEFINE q == (r * percent + 99) \div 100
    <2> HIDE DEF q
    <2>1. q \in Nat /\ q \in Int /\ 1 \in Int
      BY <1>4 DEF q
    <2>2. \A S : S = {1, q} => Max(S) \in {1, q}
      BY <2>1, OfTwo, Zenon
    <2>3. Max({1, q}) \in Nat
      BY <2>1, <2>2
    <2> QED
      BY <2>3, Zenon DEF q
  <1> QED
    BY <1>5, DelegationAssumption DEF Fraction, percent

\* The deadline is neither after the expiry nor later than the interval, and no
\* more than the present for a policy that has none.
LEMMA Deadline ==
  ASSUME expiry \in Nat, NEW p \in Policies, NEW t \in Nat, NEW start \in Nat
  PROVE  /\ next_deadline(p, t, start) \in Nat
         /\ t < expiry => next_deadline(p, t, start) <= expiry
         /\ \/ next_deadline(p, t, start) <= t
            \/ next_deadline(p, t, start) <= t + p.min_interval
  <1>0. p.min_interval \in Int /\ p.max_connection_ttl \in Int \cup {None}
    BY DelegationAssumption
  <1>1. CASE \/ p.min_interval <= 0 \/ p.lifetime_percent = None
             \/ p.max_connection_ttl # None /\ p.max_connection_ttl <= 0
    BY <1>1 DEF next_deadline
  <1>2. CASE ~(\/ p.min_interval <= 0 \/ p.lifetime_percent = None
               \/ p.max_connection_ttl # None /\ p.max_connection_ttl <= 0)
    <2> DEFINE byToken == IF expiry - t > 0
                          THEN {t + Fraction(p, Seconds(expiry - t)), expiry} ELSE {t}
               byAge == IF p.max_connection_ttl = None THEN {}
                        ELSE {start + p.max_connection_ttl}
               times == {t + p.min_interval} \cup byToken \cup byAge
    <2>1. byToken \in SUBSET Nat
      BY <1>2, WholeSeconds, FractionIsTime
    <2>2. byAge \in SUBSET Nat
      BY <1>0, <1>2
    <2>3. t + p.min_interval \in Nat
      BY <1>0, <1>2
    <2>4. t < expiry => expiry \in byToken
      OBVIOUS
    <2>5. next_deadline(p, t, start) = Min(times)
      BY <1>2 DEF next_deadline
    <2> HIDE DEF byToken, byAge
    <2>6. times \in SUBSET Nat /\ times # {}
      BY <2>1, <2>2, <2>3
    <2> QED
      BY <2>3, <2>4, <2>5, <2>6, MinOfNaturals
  <1> QED
    BY <1>1, <1>2

-----------------------------------------------------------------------------
(* The host's changes.                                                     *)

\* The host leaves everything but the record, and what the histories say of it.
LEMMA HostFacts ==
  ASSUME TypeOK, Revoke \/ Host
  PROVE  /\ session' \in Sessions /\ changes' \in Nat
         /\ seen' = IF Issuing THEN seen \cup {session'} ELSE seen
         /\ watched' = IF Rechecking THEN watched \cup {session'} ELSE watched
         /\ UNCHANGED <<clock, pc, want, fixed, path, version, expiry, check, now,
                        result, connection>>
  <1>1. PICK s \in Sessions : HostChanges(s)
    <2>1. CASE Revoke
      <3>1. [session EXCEPT !.revoked = TRUE] \in Sessions
        BY DEF TypeOK, Sessions
      <3> QED
        BY <2>1, <3>1 DEF Revoke
    <2>2. CASE Host
      <3>1. session.version < MaxVersion =>
              [session EXCEPT !.version = @ + 1] \in Sessions
        BY DEF TypeOK, Sessions
      <3>2. \A g \in SUBSET Grants : [session EXCEPT !.grants = g] \in Sessions
        BY DEF TypeOK, Sessions
      <3>3. [session EXCEPT !.disabled = ~@] \in Sessions
        BY DEF TypeOK, Sessions
      <3>4. [session EXCEPT !.idle_expires_at = clock + IdleTtl] \in Sessions
        BY DelegationAssumption DEF TypeOK, Sessions
      <3> QED
        BY <2>2, <3>1, <3>2, <3>3, <3>4 DEF Host
    <2> QED
      BY <2>1, <2>2
  <1> QED
    BY <1>1 DEF HostChanges, TypeOK

\* Only a revocation revokes.
LEMMA HostRevokes ==
  ASSUME TypeOK
  PROVE  /\ Revoke => session'.revoked /\ revoked_at' = clock
         /\ Host => (session'.revoked <=> session.revoked) /\ revoked_at' = revoked_at
  <1>1. ASSUME Revoke PROVE session'.revoked /\ revoked_at' = clock
    BY <1>1 DEF Revoke, HostChanges, TypeOK, Sessions
  <1>2. ASSUME Host
        PROVE  (session'.revoked <=> session.revoked) /\ revoked_at' = revoked_at
    BY <1>2 DEF Host, HostChanges, TypeOK, Sessions
  <1> QED
    BY <1>1, <1>2

-----------------------------------------------------------------------------
(* Each part of the invariant is kept by each action.                      *)

\* A refusal leaves nothing that the invariant speaks of.
LEMMA Refused ==
  ASSUME IndInv, Refuse, unchanged_but_request, pc # "accepted" PROVE IndInv'
  <1>0. TypeOK /\ TokenInv /\ RecheckInv /\ ConnectionInv
    BY DEF IndInv
  <1>1. TypeOK'
    BY <1>0 DEF Refuse, unchanged_but_request, recheck, connection, TypeOK
  <1>2. TokenInv'
    BY <1>0 DEF Refuse, unchanged_but_request, TokenInv, Issuing
  <1>3. RecheckInv'
    BY <1>0 DEF Refuse, unchanged_but_request, recheck, RecheckInv, Rechecking
  <1>4. ConnectionInv'
    BY <1>0 DEF Refuse, unchanged_but_request, connection, ConnectionInv, Checked
  <1> QED
    BY <1>1, <1>2, <1>3, <1>4 DEF IndInv

\* Every step keeps the types.
LEMMA TypeStep ==
  ASSUME IndInv, [Next]_vars PROVE TypeOK'
  <1>0. TypeOK /\ ConnectionInv
    BY DEF IndInv
  <1>1. CASE Revoke
    BY <1>0, <1>1, HostFacts, HostRevokes DEF connection, TypeOK
  <1>2. CASE Host
    BY <1>0, <1>2, HostFacts, HostRevokes DEF connection, TypeOK
  <1>3. CASE Tick
    BY <1>0, <1>3 DEF Tick, request, recheck, connection, TypeOK
  <1>4. ASSUME NEW w \in SUBSET Grants, NEW f \in BOOLEAN, NEW v, Prepare(w, f, v)
        PROVE  TypeOK'
    <2>1. CASE Resolves(v) /\ HasAuthority(w)
      BY <1>0, <1>4, <2>1 DEF Prepare, unchanged_but_request, recheck,
         connection, Goto, TypeOK, Sessions
    <2>2. CASE ~(Resolves(v) /\ HasAuthority(w))
      BY <1>4, <2>2, Refused DEF Prepare, IndInv
    <2> QED
      BY <2>1, <2>2
  <1>5. CASE PrepareEnabled
    <2>1. CASE ~session.disabled
      BY <1>0, <1>5, <2>1 DEF PrepareEnabled, unchanged_but_request, recheck,
         connection, Goto, TypeOK
    <2>2. CASE ~(~session.disabled)
      BY <1>5, <2>2, Refused DEF PrepareEnabled, IndInv
    <2> QED
      BY <2>1, <2>2
  <1>6. ASSUME NEW p \in {"owner", "facade"}, Issue(p) PROVE TypeOK'
    <2>1. CASE RightPath(p)
      BY <1>0, <1>6, <2>1 DEF Issue, RightPath, unchanged_but_request, recheck,
         connection, Goto, TypeOK, Sessions
    <2>2. CASE ~(RightPath(p))
      BY <1>6, <2>2, Refused DEF Issue, IndInv
    <2> QED
      BY <2>1, <2>2
  <1>7. CASE IssueResolve
    <2>1. CASE Resolves(version) /\ HasAuthority(want)
      BY <1>0, <1>7, <2>1, EffectiveExpiry DEF IssueResolve, Resolves,
         HasAuthority, unchanged_but_request, recheck, connection, Goto, TypeOK
    <2>2. CASE ~(Resolves(version) /\ HasAuthority(want))
      BY <1>7, <2>2, Refused DEF IssueResolve, IndInv
    <2> QED
      BY <2>1, <2>2
  <1>8. CASE IssueEnabled
    <2>1. CASE ~session.disabled
      BY <1>0, <1>8, <2>1 DEF IssueEnabled, unchanged_but_request, recheck,
         connection, Goto, TypeOK
    <2>2. CASE ~(~session.disabled)
      BY <1>8, <2>2, Refused DEF IssueEnabled, IndInv
    <2> QED
      BY <2>1, <2>2
  <1>9. ASSUME NEW ttl \in Ttls, Sign(ttl) PROVE TypeOK'
    <2>1. CASE Seconds(Expires(ttl)) > Seconds(clock)
      BY <1>0, <1>9, <2>1, TokenExpiry DEF Sign, unchanged_but_request, recheck,
         connection, Goto, TypeOK
    <2>2. CASE ~(Seconds(Expires(ttl)) > Seconds(clock))
      BY <1>9, <2>2, Refused DEF Sign, IndInv
    <2> QED
      BY <2>1, <2>2
  <1>10. CASE Abort
    BY <1>10, Refused DEF Abort, IndInv
  <1>11. CASE Accept
    BY <1>0, <1>11 DEF Accept, unchanged_but_request, recheck, connection,
       Goto, TypeOK
  <1>12. CASE Revalidate
    BY <1>0, <1>12 DEF Revalidate, unchanged_but_check, request, connection,
       TypeOK
  <1>13. CASE CheckStatus
    BY <1>0, <1>13 DEF CheckStatus, unchanged_but_check, request, connection,
       TypeOK
  <1>14. CASE Narrow
    BY <1>0, <1>14 DEF Narrow, Matches, unchanged_but_check, request,
       connection, TypeOK
  <1>15. CASE Reset
    BY <1>0, <1>15 DEF Reset, unchanged_but_check, request, connection, TypeOK
  <1>16. ASSUME NEW p \in Policies, Open(p) PROVE TypeOK'
    BY <1>0, <1>16, Deadline DEF Open, unchanged_but_connection, request,
       recheck, TypeOK
  <1>17. ASSUME NEW r \in {Status, "error"}, CheckConnection(r) PROVE TypeOK'
    <2>1. CASE conn' = "closed" /\ policy' = None /\ last' = None /\ deadline' = 0
      BY <1>0, <1>17, <2>1
      DEF CheckConnection, unchanged_but_connection, request, recheck,
         TypeOK
    <2>2. CASE /\ last' = clock
               /\ deadline' = next_deadline(policy, clock, started)
               /\ UNCHANGED <<conn, policy>>
      <3>1. deadline' \in Nat
        BY <1>0, <1>17, <2>2, Deadline DEF CheckConnection, TypeOK, ConnectionInv
      <3> QED
        BY <1>0, <1>17, <2>2, <3>1
        DEF CheckConnection, unchanged_but_connection, request,
           recheck, TypeOK
    <2> QED
      BY <1>17, <2>1, <2>2 DEF CheckConnection
  <1>18. CASE UNCHANGED vars
    BY <1>0, <1>18 DEF vars, request, recheck, connection, TypeOK
  <1> QED
    BY <1>1, <1>2, <1>3, <1>4, <1>5, <1>6, <1>7, <1>8, <1>9, <1>10, <1>11,
       <1>12, <1>13, <1>14, <1>15, <1>16, <1>17, <1>18 DEF Next

\* Every step keeps TokenInv.
LEMMA TokenStep ==
  ASSUME IndInv, [Next]_vars PROVE TokenInv'
  <1>0. TypeOK /\ TokenInv
    BY DEF IndInv
  <1>1. CASE Revoke
    BY <1>0, <1>1, HostFacts, HostRevokes DEF connection, TypeOK, TokenInv,
       Grantor, Issuing
  <1>2. CASE Host
    BY <1>0, <1>2, HostFacts, HostRevokes DEF connection, TypeOK, TokenInv,
       Grantor, Issuing
  <1>3. CASE Tick
    BY <1>0, <1>3 DEF Tick, request, recheck, connection, TypeOK, TokenInv,
       Grantor, Issuing
  <1>4. ASSUME NEW w \in SUBSET Grants, NEW f \in BOOLEAN, NEW v, Prepare(w, f, v)
        PROVE  TokenInv'
    <2>1. CASE Resolves(v) /\ HasAuthority(w)
      BY <1>0, <1>4, <2>1 DEF Prepare, unchanged_but_request, recheck,
         connection, Goto, TypeOK, TokenInv, Grantor, Issuing, Sessions
    <2>2. CASE ~(Resolves(v) /\ HasAuthority(w))
      BY <1>4, <2>2, Refused DEF Prepare, IndInv
    <2> QED
      BY <2>1, <2>2
  <1>5. CASE PrepareEnabled
    <2>1. CASE ~session.disabled
      BY <1>0, <1>5, <2>1 DEF PrepareEnabled, unchanged_but_request, recheck,
         connection, Goto, TypeOK, TokenInv, Grantor, Issuing
    <2>2. CASE ~(~session.disabled)
      BY <1>5, <2>2, Refused DEF PrepareEnabled, IndInv
    <2> QED
      BY <2>1, <2>2
  <1>6. ASSUME NEW p \in {"owner", "facade"}, Issue(p) PROVE TokenInv'
    <2>1. CASE RightPath(p)
      BY <1>0, <1>6, <2>1 DEF Issue, RightPath, unchanged_but_request, recheck,
         connection, Goto, TypeOK, TokenInv, Grantor, Issuing
    <2>2. CASE ~(RightPath(p))
      BY <1>6, <2>2, Refused DEF Issue, IndInv
    <2> QED
      BY <2>1, <2>2
  <1>7. CASE IssueResolve
    <2>1. CASE Resolves(version) /\ HasAuthority(want)
      <3>1. expiry' <= effective_expires_at(session)
        BY <1>0, <1>7, <2>1, EffectiveExpiry DEF IssueResolve, TypeOK
      <3>2. Grantor(session, expiry)' /\ session \in seen
        BY <1>0, <1>7, <2>1, <3>1, DelegationAssumption
        DEF IssueResolve, Resolves, HasAuthority, Grantor, TypeOK,
           TokenInv, Issuing, unchanged_but_request
      <3> QED
        BY <1>0, <1>7, <2>1, <3>2
        DEF IssueResolve, unchanged_but_request, Goto, TokenInv,
           Issuing
    <2>2. CASE ~(Resolves(version) /\ HasAuthority(want))
      BY <1>7, <2>2, Refused DEF IssueResolve, IndInv
    <2> QED
      BY <2>1, <2>2
  <1>8. CASE IssueEnabled
    <2>1. CASE ~session.disabled
      BY <1>0, <1>8, <2>1 DEF IssueEnabled, unchanged_but_request, recheck,
         connection, Goto, TypeOK, TokenInv, Grantor, Issuing
    <2>2. CASE ~(~session.disabled)
      BY <1>8, <2>2, Refused DEF IssueEnabled, IndInv
    <2> QED
      BY <2>1, <2>2
  <1>9. ASSUME NEW ttl \in Ttls, Sign(ttl) PROVE TokenInv'
    <2>1. CASE Seconds(Expires(ttl)) > Seconds(clock)
      BY <1>0, <1>9, <2>1, TokenExpiry, EffectiveExpiry DEF Sign,
         unchanged_but_request, recheck, connection, Goto, TypeOK, TokenInv,
         Grantor, Issuing
    <2>2. CASE ~(Seconds(Expires(ttl)) > Seconds(clock))
      BY <1>9, <2>2, Refused DEF Sign, IndInv
    <2> QED
      BY <2>1, <2>2
  <1>10. CASE Abort
    BY <1>10, Refused DEF Abort, IndInv
  <1>11. CASE Accept
    BY <1>0, <1>11 DEF Accept, unchanged_but_request, recheck, connection,
       Goto, TypeOK, TokenInv, Grantor, Issuing
  <1>12. CASE Revalidate
    BY <1>0, <1>12 DEF Revalidate, unchanged_but_check, request, connection,
       TypeOK, TokenInv, Grantor, Issuing
  <1>13. CASE CheckStatus
    BY <1>0, <1>13 DEF CheckStatus, unchanged_but_check, request, connection,
       TypeOK, TokenInv, Grantor, Issuing
  <1>14. CASE Narrow
    BY <1>0, <1>14 DEF Narrow, Matches, unchanged_but_check, request,
       connection, TypeOK, TokenInv, Grantor, Issuing
  <1>15. CASE Reset
    BY <1>0, <1>15 DEF Reset, unchanged_but_check, request, connection,
       TypeOK, TokenInv, Grantor, Issuing
  <1>16. ASSUME NEW p \in Policies, Open(p) PROVE TokenInv'
    BY <1>0, <1>16 DEF Open, unchanged_but_connection, request, recheck,
       TypeOK, TokenInv, Grantor, Issuing
  <1>17. ASSUME NEW r \in {Status, "error"}, CheckConnection(r)
         PROVE  TokenInv'
    BY <1>0, <1>17 DEF CheckConnection, map_checker_result,
       unchanged_but_connection, request, recheck, TypeOK, TokenInv, Grantor,
       Issuing
  <1>18. CASE UNCHANGED vars
    BY <1>0, <1>18 DEF vars, request, recheck, connection, TypeOK, TokenInv,
       Grantor, Issuing
  <1> QED
    BY <1>1, <1>2, <1>3, <1>4, <1>5, <1>6, <1>7, <1>8, <1>9, <1>10, <1>11,
       <1>12, <1>13, <1>14, <1>15, <1>16, <1>17, <1>18 DEF Next

\* Every step keeps RecheckInv.
LEMMA RecheckStep ==
  ASSUME IndInv, [Next]_vars PROVE RecheckInv'
  <1>0. TypeOK /\ RecheckInv
    BY DEF IndInv
  <1>1. CASE Revoke
    BY <1>0, <1>1, HostFacts, HostRevokes DEF connection, TypeOK, RecheckInv,
       Rechecking
  <1>2. CASE Host
    BY <1>0, <1>2, HostFacts, HostRevokes DEF connection, TypeOK, RecheckInv,
       Rechecking
  <1>3. CASE Tick
    BY <1>0, <1>3 DEF Tick, request, recheck, connection, TypeOK, RecheckInv,
       Rechecking
  <1>4. ASSUME NEW w \in SUBSET Grants, NEW f \in BOOLEAN, NEW v, Prepare(w, f, v)
        PROVE  RecheckInv'
    <2>1. CASE Resolves(v) /\ HasAuthority(w)
      BY <1>0, <1>4, <2>1 DEF Prepare, unchanged_but_request, recheck,
         connection, Goto, TypeOK, RecheckInv, Rechecking
    <2>2. CASE ~(Resolves(v) /\ HasAuthority(w))
      BY <1>4, <2>2, Refused DEF Prepare, IndInv
    <2> QED
      BY <2>1, <2>2
  <1>5. CASE PrepareEnabled
    <2>1. CASE ~session.disabled
      BY <1>0, <1>5, <2>1 DEF PrepareEnabled, unchanged_but_request, recheck,
         connection, Goto, TypeOK, RecheckInv, Rechecking
    <2>2. CASE ~(~session.disabled)
      BY <1>5, <2>2, Refused DEF PrepareEnabled, IndInv
    <2> QED
      BY <2>1, <2>2
  <1>6. ASSUME NEW p \in {"owner", "facade"}, Issue(p) PROVE RecheckInv'
    <2>1. CASE RightPath(p)
      BY <1>0, <1>6, <2>1 DEF Issue, RightPath, unchanged_but_request, recheck,
         connection, Goto, TypeOK, RecheckInv, Rechecking
    <2>2. CASE ~(RightPath(p))
      BY <1>6, <2>2, Refused DEF Issue, IndInv
    <2> QED
      BY <2>1, <2>2
  <1>7. CASE IssueResolve
    <2>1. CASE Resolves(version) /\ HasAuthority(want)
      BY <1>0, <1>7, <2>1 DEF IssueResolve, Resolves, HasAuthority,
         unchanged_but_request, recheck, connection, Goto, TypeOK, RecheckInv,
         Rechecking
    <2>2. CASE ~(Resolves(version) /\ HasAuthority(want))
      BY <1>7, <2>2, Refused DEF IssueResolve, IndInv
    <2> QED
      BY <2>1, <2>2
  <1>8. CASE IssueEnabled
    <2>1. CASE ~session.disabled
      BY <1>0, <1>8, <2>1 DEF IssueEnabled, unchanged_but_request, recheck,
         connection, Goto, TypeOK, RecheckInv, Rechecking
    <2>2. CASE ~(~session.disabled)
      BY <1>8, <2>2, Refused DEF IssueEnabled, IndInv
    <2> QED
      BY <2>1, <2>2
  <1>9. ASSUME NEW ttl \in Ttls, Sign(ttl) PROVE RecheckInv'
    <2>1. CASE Seconds(Expires(ttl)) > Seconds(clock)
      BY <1>0, <1>9, <2>1 DEF Sign, unchanged_but_request, recheck, connection,
         Goto, TypeOK, RecheckInv, Rechecking
    <2>2. CASE ~(Seconds(Expires(ttl)) > Seconds(clock))
      BY <1>9, <2>2, Refused DEF Sign, IndInv
    <2> QED
      BY <2>1, <2>2
  <1>10. CASE Abort
    BY <1>10, Refused DEF Abort, IndInv
  <1>11. CASE Accept
    BY <1>0, <1>11 DEF Accept, unchanged_but_request, recheck, connection,
       Goto, TypeOK, RecheckInv, Rechecking
  <1>12. CASE Revalidate
    BY <1>0, <1>12 DEF Revalidate, unchanged_but_check, request, connection,
       TypeOK, RecheckInv, Rechecking
  <1>13. CASE CheckStatus
    BY <1>0, <1>13 DEF CheckStatus, unchanged_but_check, request, connection,
       TypeOK, RecheckInv, Rechecking
  <1>14. CASE Narrow
    BY <1>0, <1>14 DEF Narrow, Matches, unchanged_but_check, request,
       connection, TypeOK, RecheckInv, Rechecking
  <1>15. CASE Reset
    BY <1>0, <1>15 DEF Reset, unchanged_but_check, request, connection,
       TypeOK, RecheckInv, Rechecking
  <1>16. ASSUME NEW p \in Policies, Open(p) PROVE RecheckInv'
    BY <1>0, <1>16 DEF Open, unchanged_but_connection, request, recheck,
       TypeOK, RecheckInv, Rechecking
  <1>17. ASSUME NEW r \in {Status, "error"}, CheckConnection(r)
         PROVE  RecheckInv'
    BY <1>0, <1>17 DEF CheckConnection, map_checker_result,
       unchanged_but_connection, request, recheck, TypeOK, RecheckInv, Rechecking
  <1>18. CASE UNCHANGED vars
    BY <1>0, <1>18 DEF vars, request, recheck, connection, TypeOK, RecheckInv,
       Rechecking
  <1> QED
    BY <1>1, <1>2, <1>3, <1>4, <1>5, <1>6, <1>7, <1>8, <1>9, <1>10, <1>11,
       <1>12, <1>13, <1>14, <1>15, <1>16, <1>17, <1>18 DEF Next

\* Every step keeps ConnectionInv.
LEMMA ConnectionStep ==
  ASSUME IndInv, [Next]_vars PROVE ConnectionInv'
  <1>0. TypeOK /\ ConnectionInv
    BY DEF IndInv
  <1>1. CASE Revoke
    BY <1>0, <1>1, HostFacts, HostRevokes, DelegationAssumption DEF
       connection, TypeOK, ConnectionInv, Checked
  <1>2. CASE Host
    BY <1>0, <1>2, HostFacts, HostRevokes DEF connection, TypeOK,
       ConnectionInv, Checked
  <1>3. CASE Tick
    BY <1>0, <1>3, DelegationAssumption DEF Tick, request, recheck,
       connection, TypeOK, ConnectionInv, Checked
  <1>4. ASSUME NEW w \in SUBSET Grants, NEW f \in BOOLEAN, NEW v, Prepare(w, f, v)
        PROVE  ConnectionInv'
    <2>1. CASE Resolves(v) /\ HasAuthority(w)
      BY <1>0, <1>4, <2>1 DEF Prepare, unchanged_but_request, recheck,
         connection, Goto, TypeOK, ConnectionInv, Checked
    <2>2. CASE ~(Resolves(v) /\ HasAuthority(w))
      BY <1>4, <2>2, Refused DEF Prepare, IndInv
    <2> QED
      BY <2>1, <2>2
  <1>5. CASE PrepareEnabled
    <2>1. CASE ~session.disabled
      BY <1>0, <1>5, <2>1 DEF PrepareEnabled, unchanged_but_request, recheck,
         connection, Goto, TypeOK, ConnectionInv, Checked
    <2>2. CASE ~(~session.disabled)
      BY <1>5, <2>2, Refused DEF PrepareEnabled, IndInv
    <2> QED
      BY <2>1, <2>2
  <1>6. ASSUME NEW p \in {"owner", "facade"}, Issue(p) PROVE ConnectionInv'
    <2>1. CASE RightPath(p)
      BY <1>0, <1>6, <2>1 DEF Issue, RightPath, unchanged_but_request, recheck,
         connection, Goto, TypeOK, ConnectionInv, Checked
    <2>2. CASE ~(RightPath(p))
      BY <1>6, <2>2, Refused DEF Issue, IndInv
    <2> QED
      BY <2>1, <2>2
  <1>7. CASE IssueResolve
    <2>1. CASE Resolves(version) /\ HasAuthority(want)
      BY <1>0, <1>7, <2>1 DEF IssueResolve, Resolves, HasAuthority,
         unchanged_but_request, recheck, connection, Goto, TypeOK, ConnectionInv,
         Checked
    <2>2. CASE ~(Resolves(version) /\ HasAuthority(want))
      BY <1>7, <2>2, Refused DEF IssueResolve, IndInv
    <2> QED
      BY <2>1, <2>2
  <1>8. CASE IssueEnabled
    <2>1. CASE ~session.disabled
      BY <1>0, <1>8, <2>1 DEF IssueEnabled, unchanged_but_request, recheck,
         connection, Goto, TypeOK, ConnectionInv, Checked
    <2>2. CASE ~(~session.disabled)
      BY <1>8, <2>2, Refused DEF IssueEnabled, IndInv
    <2> QED
      BY <2>1, <2>2
  <1>9. ASSUME NEW ttl \in Ttls, Sign(ttl) PROVE ConnectionInv'
    <2>1. CASE Seconds(Expires(ttl)) > Seconds(clock)
      BY <1>0, <1>9, <2>1 DEF Sign, unchanged_but_request, recheck, connection,
         Goto, TypeOK, ConnectionInv, Checked
    <2>2. CASE ~(Seconds(Expires(ttl)) > Seconds(clock))
      BY <1>9, <2>2, Refused DEF Sign, IndInv
    <2> QED
      BY <2>1, <2>2
  <1>10. CASE Abort
    BY <1>10, Refused DEF Abort, IndInv
  <1>11. CASE Accept
    BY <1>0, <1>11 DEF Accept, unchanged_but_request, recheck, connection,
       Goto, TypeOK, ConnectionInv, Checked
  <1>12. CASE Revalidate
    BY <1>0, <1>12 DEF Revalidate, unchanged_but_check, request, connection,
       TypeOK, ConnectionInv, Checked
  <1>13. CASE CheckStatus
    BY <1>0, <1>13 DEF CheckStatus, unchanged_but_check, request, connection,
       TypeOK, ConnectionInv, Checked
  <1>14. CASE Narrow
    BY <1>0, <1>14 DEF Narrow, Matches, unchanged_but_check, request,
       connection, TypeOK, ConnectionInv, Checked
  <1>15. CASE Reset
    BY <1>0, <1>15 DEF Reset, unchanged_but_check, request, connection,
       TypeOK, ConnectionInv, Checked
  <1>16. ASSUME NEW p \in Policies, Open(p) PROVE ConnectionInv'
    BY <1>0, <1>16, Deadline, DelegationAssumption DEF Open,
       unchanged_but_connection, request, recheck, TypeOK, ConnectionInv, Checked
  <1>17. ASSUME NEW r \in {Status, "error"}, CheckConnection(r)
         PROVE  ConnectionInv'
    <2>1. CASE conn' = "closed" /\ policy' = None /\ last' = None /\ deadline' = 0
      BY <1>0, <1>17, <2>1
      DEF CheckConnection, unchanged_but_connection, ConnectionInv
    <2>2. CASE /\ map_checker_result(r) = "Active"
               /\ last' = clock
               /\ deadline' = next_deadline(policy, clock, started)
               /\ UNCHANGED <<conn, policy>>
      <3>1. UNCHANGED <<clock, pc, session, revoked_at, expiry, conn, policy, started>>
        BY <1>17, <2>2 DEF CheckConnection, unchanged_but_connection, request
      <3>2. /\ conn = "open" /\ pc = "accepted" /\ policy \in Policies
            /\ policy.min_interval \in Int
            /\ started <= clock
        BY <1>0, <1>17, DelegationAssumption DEF CheckConnection, ConnectionInv
      <3>3. clock # None
        BY <1>0, DelegationAssumption DEF TypeOK
      <3>4. policy.failure_mode = "FailClosed" => ~session.revoked /\ clock < expiry
        BY <1>0, <1>17, <2>2 DEF map_checker_result, Status, TypeOK
      <3>5. /\ clock < expiry => deadline' <= expiry
            /\ deadline' <= clock \/ deadline' <= clock + policy.min_interval
        BY <1>0, <2>2, <3>2, Deadline DEF TypeOK
      <3> QED
        BY <1>0, <2>2, <3>1, <3>2, <3>3, <3>4, <3>5
        DEF ConnectionInv, Checked, TypeOK
    <2> QED
      BY <1>17, <2>1, <2>2 DEF CheckConnection
  <1>18. CASE UNCHANGED vars
    BY <1>0, <1>18 DEF vars, request, recheck, connection, TypeOK,
       ConnectionInv, Checked
  <1> QED
    BY <1>1, <1>2, <1>3, <1>4, <1>5, <1>6, <1>7, <1>8, <1>9, <1>10, <1>11,
       <1>12, <1>13, <1>14, <1>15, <1>16, <1>17, <1>18 DEF Next

-----------------------------------------------------------------------------
(* Theorems.                                                               *)

\* The initial states satisfy the invariant.
LEMMA InitInv == Init => IndInv
  <1> SUFFICES ASSUME Init PROVE IndInv
    OBVIOUS
  <1>1. TypeOK
    BY DelegationAssumption DEF Init, TypeOK, Sessions
  <1> QED
    BY <1>1 DEF Init, IndInv, TokenInv, RecheckInv, ConnectionInv, Issuing,
       Rechecking

\* The inductive invariant holds in every reachable state.
LEMMA Invariance == Spec => []IndInv
  <1>1. IndInv /\ [Next]_vars => IndInv'
    BY TypeStep, TokenStep, RecheckStep, ConnectionStep DEF IndInv
  <1> QED
    BY InitInv, <1>1, PTL DEF Spec

\* Every variable keeps its type.
THEOREM TypeCorrect == Spec => []TypeOK
  BY Invariance, PTL DEF IndInv

\* A delegated token is one the parent session could have granted at one instant
\* of the issuing call (issue_session_bound_access_token_only_for_audience).
THEOREM LiveSession == Spec => []TokenFromLiveSession
  <1>1. IndInv => TokenFromLiveSession
    BY DEF IndInv, TokenInv, Grantor, TokenFromLiveSession
  <1> QED
    BY Invariance, <1>1, PTL

\* A re-check leaves what one current record allows
\* (revalidate_sensitive_principal).
THEOREM Revalidation == Spec => []RevalidatedIsCurrent
  <1>1. IndInv => RevalidatedIsCurrent
    BY DEF IndInv, RecheckInv, RevalidatedIsCurrent
  <1> QED
    BY Invariance, <1>1, PTL

\* A connection that fails closed ends at the token's expiry, and within the
\* interval after the revocation (next_deadline, map_checker_result).
THEOREM ClosesInTime == Spec => []ConnectionClosesInTime
  <1>1. ASSUME IndInv, conn = "open", policy.failure_mode = "FailClosed",
               revoked_at # None
        PROVE  clock <= Max({revoked_at, started}) + Max({policy.min_interval, 1})
    <2>1. /\ revoked_at \in Nat /\ started \in Nat /\ clock \in Nat
          /\ policy.min_interval \in Int
      BY <1>1, DelegationAssumption DEF IndInv, TypeOK, ConnectionInv
    <2>2. PICK t \in {revoked_at, started}, d \in {1, policy.min_interval} :
            clock <= t + d
      BY <1>1 DEF IndInv, ConnectionInv
    <2>3. t <= Max({revoked_at, started}) /\ Max({revoked_at, started}) \in Int
      BY <2>1, OfTwo
    <2>4. /\ d <= Max({policy.min_interval, 1})
          /\ Max({policy.min_interval, 1}) \in Int
      <3> DEFINE i == policy.min_interval
      <3> HIDE DEF i
      <3>1. i \in Int /\ 1 \in Int
        BY <2>1 DEF i
      <3>2. \A S : S = {i, 1} => Max(S) \in {i, 1} /\ i <= Max(S) /\ 1 <= Max(S)
        BY <3>1, OfTwo, Zenon
      <3>3. i <= Max({i, 1}) /\ 1 <= Max({i, 1}) /\ Max({i, 1}) \in Int
        BY <3>1, <3>2
      <3>4. d \in {1, i}
        BY <2>2 DEF i
      <3>5. d <= Max({i, 1}) /\ Max({i, 1}) \in Int
        BY <3>3, <3>4
      <3> QED
        BY <3>5, Zenon DEF i
    <2> QED
      BY <2>1, <2>2, <2>3, <2>4
  <1>2. IndInv => ConnectionClosesInTime
    BY <1>1 DEF IndInv, ConnectionInv, ConnectionClosesInTime
  <1> QED
    BY Invariance, <1>2, PTL
=============================================================================
