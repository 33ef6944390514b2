-------------------------- MODULE OidcLoginProofs --------------------------
(***************************************************************************)
(* Theorems about sign-in through external providers, for any number of    *)
(* requests, callbacks, identities, users and keys, and any lifetimes and  *)
(* cool-down.                                                              *)
(***************************************************************************)
EXTENDS OidcLogin, TLAPS

\* Where a call is whose state was consumed for it, and where it is before.
Past == {"exchange", "userinfo", "profile", "jwks", "fetch", "store", "force",
         "lock", "claims", "find", "resolve", "link", "issue", "done"}
Running == Past \cup {"consume"}

\* Where the sign-in is known to be the request's own.
Verified == {"userinfo", "profile", "find", "resolve", "link", "issue", "done"}

\* Where the ID token was verified with the key it names.
Signed == {"claims", "find", "resolve", "link", "issue", "done"}

\* A callback names requests that exist.
InputInv ==
    \A c \in Calls : pc[c] \in Running =>
        /\ via[c] \in {"oidc", "oauth2"}
        /\ state[c] \in Requests /\ row[state[c]] # "absent"
        /\ code[c] \in Requests

\* A state is spent by at most one call, of its own kind, and the code of a
\* verified sign-in belongs to it.
SpentInv ==
    /\ \A c \in Calls : pc[c] \in Past =>
         row[state[c]] = "consumed" /\ kind[state[c]] = via[c]
    /\ \A c, d \in Calls :
         pc[c] \in Past /\ pc[d] \in Past /\ state[c] = state[d] => c = d
    /\ \A c \in Calls : pc[c] \in Verified => code[c] = state[c]

\* Somebody linked identity s to user u.
Wrote(s, u) == \E w \in writes : w.identity = s /\ w.user = u

\* What is stored was written; a written link is by a call that looked when
\* there was none; and who signs in by a link is the user it was found with.
StoredLink(s) ==
    IF links[s] = None THEN \A w \in writes : w.identity # s
    ELSE Wrote(s, links[s])

WrittenLink(w) ==
    /\ before[w.call] = {}
    /\ pc[w.call] \in {"issue", "done", "failed"}
    /\ pc[w.call] \in {"issue", "done"} =>
         w.identity = Identity(w.call) /\ w.user = user[w.call]

CallLink(c) ==
    /\ pc[c] \in {"resolve", "issue", "done"} /\ found[c] # None =>
         Wrote(Identity(c), found[c])
    /\ pc[c] \in {"issue", "done"} /\ found[c] # None => user[c] = found[c]
    /\ pc[c] = "resolve" /\ found[c] = None => before[c] = {}
    /\ pc[c] = "link" => before[c] = {} /\ found[c] = None /\ user[c] \in Users

LinkInv ==
    /\ \A s \in Subjects : StoredLink(s)
    /\ \A w \in writes : WrittenLink(w)
    /\ \A c \in Calls : CallLink(c)

\* Key k was published at time t or later.
PublishedAt(k, t) == retired[k] = None \/ t <= retired[k]

\* What the cache and the answers on their way say of keys that were withdrawn.
KeyInv ==
    /\ \A k \in Keys : k >= key => retired[k] = None
    /\ jwks_expires_at <= clock + JwksTtl
    /\ jwks # 0 => PublishedAt(jwks, jwks_expires_at - JwksTtl)
    /\ \A c \in Calls :
         /\ now[c] <= clock
         /\ pc[c] = "store" => answer[c] \in Keys /\ PublishedAt(answer[c], now[c])
         /\ pc[c] \in Signed =>
              /\ kid[c] \in Keys
              /\ \/ retired[kid[c]] = None
                 \/ ~fetched[c] /\ now[c] < retired[kid[c]] + JwksTtl
                 \/ fetched[c] /\ now[c] <= retired[kid[c]]
         /\ pc[c] \in {"idle", "consume", "exchange", "jwks"} => ~fetched[c]

\* No refresh was forced after the last one that the provider remembers.
ForcedInv ==
    /\ \A c \in Calls : Cooldown # 0 /\ forced[c] # None =>
         last_forced_jwks_refresh # None /\ forced[c] <= last_forced_jwks_refresh
    /\ ForcedRefreshesSpaced

IndInv == TypeOK /\ InputInv /\ SpentInv /\ LinkInv /\ KeyInv /\ ForcedInv

-----------------------------------------------------------------------------
(* Each part of the invariant is kept by each action.                      *)

\* Every step keeps the types.
LEMMA TypeStep ==
  ASSUME IndInv, [Next]_vars PROVE TypeOK'
  <1>0. TypeOK /\ InputInv /\ SpentInv
    BY DEF IndInv
  <1>1. ASSUME NEW r \in Requests, OidcRequest(r) PROVE TypeOK'
    BY <1>0, <1>1, ProviderAssumption DEF OidcRequest, insert_oauth_state,
       idp, account, cache, input, local, TypeOK, Ended, Keys
  <1>2. ASSUME NEW r \in Requests, OAuth2Request(r) PROVE TypeOK'
    BY <1>0, <1>2, ProviderAssumption DEF OAuth2Request, insert_oauth_state,
       idp, account, cache, input, local, TypeOK, Ended, Keys
  <1>3. CASE Rotate
    BY <1>0, <1>3, ProviderAssumption DEF Rotate, store, idp, account, cache, input,
       local, TypeOK, Ended, Keys
  <1>4. CASE Sweep
    BY <1>0, <1>4 DEF Sweep, idp, account, cache, input, local, TypeOK, Ended
  <1>5. CASE Tick
    BY <1>0, <1>5, ProviderAssumption DEF Tick, store, idp, account, cache, input,
       local, TypeOK, Ended, Keys
  <1>6. ASSUME NEW c \in Calls, Refuse(c) PROVE TypeOK'
    BY <1>0, <1>6 DEF Refuse, Goto, store, idp, account, cache, input, local, TypeOK,
       Ended
  <1>7. ASSUME NEW c \in Calls, NEW k \in {"oidc", "oauth2"},
             NEW r \in Requests, NEW q \in Requests, Begin(c, k, r, q)
        PROVE  TypeOK'
    BY <1>0, <1>7, ProviderAssumption DEF Begin, Goto, store, idp, account, cache,
       TypeOK, Ended, Keys
  <1>8. ASSUME NEW c \in Calls, Consume(c) PROVE TypeOK'
    BY <1>0, <1>8 DEF Consume, Consumable, OwnState, Goto, idp, account, cache, input,
       local, TypeOK, Ended, InputInv, Running, Past
  <1>9. ASSUME NEW c \in Calls, ExchangeOidc(c) PROVE TypeOK'
    BY <1>0, <1>9, ProviderAssumption DEF ExchangeOidc, Goto, store, idp, account,
       cache, input, TypeOK, Ended, Keys
  <1>10. ASSUME NEW c \in Calls, ExchangeOAuth2(c) PROVE TypeOK'
    BY <1>0, <1>10 DEF ExchangeOAuth2, Goto, store, idp, account, cache, input, local,
       TypeOK, Ended
  <1>11. ASSUME NEW c \in Calls, Profile(c) PROVE TypeOK'
    BY <1>0, <1>11 DEF Profile, Goto, store, idp, account, cache, input, local, TypeOK,
       Ended
  <1>12. ASSUME NEW c \in Calls, Jwks(c) PROVE TypeOK'
    BY <1>0, <1>12, ProviderAssumption DEF Jwks, Goto, store, idp, account, cache,
       input, TypeOK, Ended, Keys
  <1>13. ASSUME NEW c \in Calls, Fetch(c) PROVE TypeOK'
    BY <1>0, <1>13, ProviderAssumption DEF Fetch, Goto, store, idp, account, cache,
       input, TypeOK, Ended, Keys
  <1>14. ASSUME NEW c \in Calls, Store(c) PROVE TypeOK'
    BY <1>0, <1>14, ProviderAssumption DEF Store, CacheExpiry, Goto, store,
       idp, account, input, TypeOK, Ended, Keys
  <1>15. ASSUME NEW c \in Calls, ReadClock(c) PROVE TypeOK'
    BY <1>0, <1>15, ProviderAssumption DEF ReadClock, Goto, store, idp, account, cache,
       input, TypeOK, Ended, Keys
  <1>16. ASSUME NEW c \in Calls, Lock(c) PROVE TypeOK'
    <2>1. CASE Cooldown = 0 \/ Cool(c)
      <3>1. /\ last_forced_jwks_refresh' \in Nat \cup {None}
            /\ forced' \in [Calls -> Nat \cup {None}]
            /\ now' \in [Calls -> Nat]
        BY <1>0, <1>16, <2>1 DEF Lock, TypeOK
      <3> QED
        BY <1>0, <1>16, <2>1, <3>1 DEF Lock, Goto, store, idp, account, input, TypeOK, Ended
    <2>2. CASE ~(Cooldown = 0 \/ Cool(c))
      BY <1>0, <1>16, <2>2 DEF Lock, Goto, store, idp, account, input, TypeOK, Ended
    <2> QED
      BY <2>1, <2>2
  <1>17. ASSUME NEW c \in Calls, Claims(c) PROVE TypeOK'
    BY <1>0, <1>17 DEF Claims, NonceMatches, Goto, store, idp, account, cache, input,
       local, TypeOK, Ended
  <1>18. ASSUME NEW c \in Calls, find_external_identity(c) PROVE TypeOK'
    <2>1. Linkers(Identity(c)) \in SUBSET Calls
      BY <1>0 DEF Linkers, TypeOK
    <2>2. before' \in [Calls -> SUBSET Calls]
      BY <1>0, <1>18, <2>1 DEF find_external_identity, TypeOK
    <2>3. Identity(c) \in Subjects
      BY <1>0, <1>18 DEF find_external_identity, InputInv, Identity, Running,
         Past, TypeOK
    <2> QED
      BY <1>0, <1>18, <2>2, <2>3 DEF find_external_identity, Goto, store, idp,
         cache, input, TypeOK, Ended
  <1>19. ASSUME NEW c \in Calls, NEW u \in Users, NEW link \in BOOLEAN,
               Resolve(c, u, link)
         PROVE  TypeOK'
    BY <1>0, <1>19 DEF Resolve, Resolvable, Goto, store, idp, account, cache, input,
       TypeOK, Ended
  <1>20. ASSUME NEW c \in Calls, link_external_identity(c) PROVE TypeOK'
    <2>0. pc[c] = "link" /\ CallLink(c)
      BY <1>20 DEF link_external_identity, IndInv, LinkInv
    <2>1. Identity(c) \in Subjects /\ user[c] \in Users
      BY <1>0, <2>0 DEF CallLink, InputInv, Identity, Running, Past, TypeOK
    <2>2. writes' \subseteq [call: Calls, identity: Subjects, user: Users]
      BY <1>0, <1>20, <2>1 DEF link_external_identity, TypeOK
    <2>3. links' \in [Subjects -> Users \cup {None}]
      BY <1>0, <1>20, <2>1 DEF link_external_identity, TypeOK
    <2>4. pc' = [pc EXCEPT ![c] = "issue"] \/ pc' = [pc EXCEPT ![c] = "failed"]
      BY <1>20 DEF link_external_identity, Goto
    <2> QED
      BY <1>0, <1>20, <2>2, <2>3, <2>4 DEF link_external_identity, store, idp,
         cache, input, local, TypeOK, Ended
  <1>21. ASSUME NEW c \in Calls, IssueSession(c) PROVE TypeOK'
    BY <1>0, <1>21 DEF IssueSession, Goto, store, idp, account, cache, input, local,
       TypeOK, Ended
  <1>22. ASSUME NEW c \in Calls, Fail(c) PROVE TypeOK'
    BY <1>0, <1>22, ProviderAssumption DEF Fail, Ended, Goto, store, idp, account,
       cache, TypeOK, Keys
  <1>23. CASE UNCHANGED vars
    BY <1>0, <1>23 DEF vars, store, idp, account, cache, input, local, TypeOK, Ended
  <1> QED
    BY <1>1, <1>2, <1>3, <1>4, <1>5, <1>6, <1>7, <1>8, <1>9, <1>10, <1>11,
       <1>12, <1>13, <1>14, <1>15, <1>16, <1>17, <1>18, <1>19, <1>20, <1>21,
       <1>22, <1>23 DEF Next

\* Every step keeps InputInv.
LEMMA InputStep ==
  ASSUME IndInv, [Next]_vars PROVE InputInv'
  <1>0. TypeOK /\ InputInv
    BY DEF IndInv
  <1>1. ASSUME NEW r \in Requests, OidcRequest(r) PROVE InputInv'
    BY <1>0, <1>1 DEF OidcRequest, insert_oauth_state, idp, account, cache, input,
       local, TypeOK, InputInv, Running, Past
  <1>2. ASSUME NEW r \in Requests, OAuth2Request(r) PROVE InputInv'
    BY <1>0, <1>2 DEF OAuth2Request, insert_oauth_state, idp, account, cache, input,
       local, TypeOK, InputInv, Running, Past
  <1>3. CASE Rotate
    BY <1>0, <1>3 DEF Rotate, store, idp, account, cache, input, local, TypeOK,
       InputInv, Running, Past
  <1>4. CASE Sweep
    BY <1>0, <1>4 DEF Sweep, idp, account, cache, input, local, TypeOK, InputInv,
       Running, Past
  <1>5. CASE Tick
    BY <1>0, <1>5 DEF Tick, store, idp, account, cache, input, local, TypeOK, InputInv,
       Running, Past
  <1>6. ASSUME NEW c \in Calls, Refuse(c) PROVE InputInv'
    BY <1>0, <1>6 DEF Refuse, Goto, store, idp, account, cache, input, local, TypeOK,
       InputInv, Running, Past
  <1>7. ASSUME NEW c \in Calls, NEW k \in {"oidc", "oauth2"},
             NEW r \in Requests, NEW q \in Requests, Begin(c, k, r, q)
        PROVE  InputInv'
    BY <1>0, <1>7 DEF Begin, Goto, store, idp, account, cache, TypeOK, InputInv,
       Running, Past
  <1>8. ASSUME NEW c \in Calls, Consume(c) PROVE InputInv'
    BY <1>0, <1>8 DEF Consume, Consumable, OwnState, Goto, idp, account, cache, input,
       local, TypeOK, InputInv, Running, Past
  <1>9. ASSUME NEW c \in Calls, ExchangeOidc(c) PROVE InputInv'
    BY <1>0, <1>9 DEF ExchangeOidc, Goto, store, idp, account, cache, input, TypeOK,
       InputInv, Running, Past
  <1>10. ASSUME NEW c \in Calls, ExchangeOAuth2(c) PROVE InputInv'
    BY <1>0, <1>10 DEF ExchangeOAuth2, Goto, store, idp, account, cache, input, local,
       TypeOK, InputInv, Running, Past
  <1>11. ASSUME NEW c \in Calls, Profile(c) PROVE InputInv'
    BY <1>0, <1>11 DEF Profile, Goto, store, idp, account, cache, input, local, TypeOK,
       InputInv, Running, Past
  <1>12. ASSUME NEW c \in Calls, Jwks(c) PROVE InputInv'
    BY <1>0, <1>12 DEF Jwks, Goto, store, idp, account, cache, input, TypeOK, InputInv,
       Running, Past
  <1>13. ASSUME NEW c \in Calls, Fetch(c) PROVE InputInv'
    BY <1>0, <1>13 DEF Fetch, Goto, store, idp, account, cache, input, TypeOK,
       InputInv, Running, Past
  <1>14. ASSUME NEW c \in Calls, Store(c) PROVE InputInv'
    BY <1>0, <1>14 DEF Store, CacheExpiry, Goto, store, idp, account, input, TypeOK,
       InputInv, Running, Past
  <1>15. ASSUME NEW c \in Calls, ReadClock(c) PROVE InputInv'
    BY <1>0, <1>15 DEF ReadClock, Goto, store, idp, account, cache, input, TypeOK,
       InputInv, Running, Past
  <1>16. ASSUME NEW c \in Calls, Lock(c) PROVE InputInv'
    BY <1>0, <1>16 DEF Lock, Cool, Goto, store, idp, account, input, TypeOK, InputInv,
       Running, Past
  <1>17. ASSUME NEW c \in Calls, Claims(c) PROVE InputInv'
    BY <1>0, <1>17 DEF Claims, NonceMatches, Goto, store, idp, account, cache, input,
       local, TypeOK, InputInv, Running, Past
  <1>18. ASSUME NEW c \in Calls, find_external_identity(c) PROVE InputInv'
    BY <1>0, <1>18 DEF find_external_identity, Goto, store, idp, account, cache, input,
       TypeOK, InputInv, Running, Past
  <1>19. ASSUME NEW c \in Calls, NEW u \in Users, NEW link \in BOOLEAN,
               Resolve(c, u, link)
         PROVE  InputInv'
    BY <1>0, <1>19 DEF Resolve, Resolvable, Goto, store, idp, account, cache, input,
       TypeOK, InputInv, Running, Past
  <1>20. ASSUME NEW c \in Calls, link_external_identity(c) PROVE InputInv'
    BY <1>0, <1>20 DEF link_external_identity, Goto, store, idp, account,
       cache, input, TypeOK, InputInv, Running, Past
  <1>21. ASSUME NEW c \in Calls, IssueSession(c) PROVE InputInv'
    BY <1>0, <1>21 DEF IssueSession, Goto, store, idp, account, cache, input, local,
       TypeOK, InputInv, Running, Past
  <1>22. ASSUME NEW c \in Calls, Fail(c) PROVE InputInv'
    BY <1>0, <1>22 DEF Fail, Ended, Goto, store, idp, account, cache, TypeOK, InputInv,
       Running, Past
  <1>23. CASE UNCHANGED vars
    BY <1>0, <1>23 DEF vars, store, idp, account, cache, input, local, TypeOK,
       InputInv, Running, Past
  <1> QED
    BY <1>1, <1>2, <1>3, <1>4, <1>5, <1>6, <1>7, <1>8, <1>9, <1>10, <1>11,
       <1>12, <1>13, <1>14, <1>15, <1>16, <1>17, <1>18, <1>19, <1>20, <1>21,
       <1>22, <1>23 DEF Next

\* Every step keeps SpentInv.
LEMMA SpentStep ==
  ASSUME IndInv, [Next]_vars PROVE SpentInv'
  <1>0. TypeOK /\ InputInv /\ SpentInv
    BY DEF IndInv
  <1>1. ASSUME NEW r \in Requests, OidcRequest(r) PROVE SpentInv'
    BY <1>0, <1>1 DEF OidcRequest, insert_oauth_state, idp, account, cache, input,
       local, TypeOK, InputInv, SpentInv, Verified, Running, Past
  <1>2. ASSUME NEW r \in Requests, OAuth2Request(r) PROVE SpentInv'
    BY <1>0, <1>2 DEF OAuth2Request, insert_oauth_state, idp, account, cache, input,
       local, TypeOK, InputInv, SpentInv, Verified, Running, Past
  <1>3. CASE Rotate
    BY <1>0, <1>3 DEF Rotate, store, idp, account, cache, input, local, TypeOK,
       InputInv, SpentInv, Verified, Running, Past
  <1>4. CASE Sweep
    BY <1>0, <1>4 DEF Sweep, idp, account, cache, input, local, TypeOK, InputInv,
       SpentInv, Verified, Running, Past
  <1>5. CASE Tick
    BY <1>0, <1>5 DEF Tick, store, idp, account, cache, input, local, TypeOK, InputInv,
       SpentInv, Verified, Running, Past
  <1>6. ASSUME NEW c \in Calls, Refuse(c) PROVE SpentInv'
    BY <1>0, <1>6 DEF Refuse, Goto, store, idp, account, cache, input, local, TypeOK,
       InputInv, SpentInv, Verified, Running, Past
  <1>7. ASSUME NEW c \in Calls, NEW k \in {"oidc", "oauth2"},
             NEW r \in Requests, NEW q \in Requests, Begin(c, k, r, q)
        PROVE  SpentInv'
    BY <1>0, <1>7 DEF Begin, Goto, store, idp, account, cache, TypeOK, InputInv,
       SpentInv, Verified, Running, Past
  <1>8. ASSUME NEW c \in Calls, Consume(c) PROVE SpentInv'
    BY <1>0, <1>8 DEF Consume, Consumable, OwnState, Goto, idp, account, cache, input,
       local, TypeOK, InputInv, SpentInv, Verified, Running, Past
  <1>9. ASSUME NEW c \in Calls, ExchangeOidc(c) PROVE SpentInv'
    BY <1>0, <1>9 DEF ExchangeOidc, Goto, store, idp, account, cache, input, TypeOK,
       InputInv, SpentInv, Verified, Running, Past
  <1>10. ASSUME NEW c \in Calls, ExchangeOAuth2(c) PROVE SpentInv'
    BY <1>0, <1>10 DEF ExchangeOAuth2, Goto, store, idp, account, cache, input, local,
       TypeOK, InputInv, SpentInv, Verified, Running, Past
  <1>11. ASSUME NEW c \in Calls, Profile(c) PROVE SpentInv'
    BY <1>0, <1>11 DEF Profile, Goto, store, idp, account, cache, input, local, TypeOK,
       InputInv, SpentInv, Verified, Running, Past
  <1>12. ASSUME NEW c \in Calls, Jwks(c) PROVE SpentInv'
    BY <1>0, <1>12 DEF Jwks, Goto, store, idp, account, cache, input, TypeOK, InputInv,
       SpentInv, Verified, Running, Past
  <1>13. ASSUME NEW c \in Calls, Fetch(c) PROVE SpentInv'
    BY <1>0, <1>13 DEF Fetch, Goto, store, idp, account, cache, input, TypeOK,
       InputInv, SpentInv, Verified, Running, Past
  <1>14. ASSUME NEW c \in Calls, Store(c) PROVE SpentInv'
    BY <1>0, <1>14 DEF Store, CacheExpiry, Goto, store, idp, account, input, TypeOK,
       InputInv, SpentInv, Verified, Running, Past
  <1>15. ASSUME NEW c \in Calls, ReadClock(c) PROVE SpentInv'
    BY <1>0, <1>15 DEF ReadClock, Goto, store, idp, account, cache, input, TypeOK,
       InputInv, SpentInv, Verified, Running, Past
  <1>16. ASSUME NEW c \in Calls, Lock(c) PROVE SpentInv'
    BY <1>0, <1>16 DEF Lock, Cool, Goto, store, idp, account, input, TypeOK, InputInv,
       SpentInv, Verified, Running, Past
  <1>17. ASSUME NEW c \in Calls, Claims(c) PROVE SpentInv'
    BY <1>0, <1>17 DEF Claims, NonceMatches, Goto, store, idp, account, cache, input,
       local, TypeOK, InputInv, SpentInv, Verified, Running, Past
  <1>18. ASSUME NEW c \in Calls, find_external_identity(c) PROVE SpentInv'
    BY <1>0, <1>18 DEF find_external_identity, Goto, store, idp, account, cache, input,
       TypeOK, InputInv, SpentInv, Verified, Running, Past
  <1>19. ASSUME NEW c \in Calls, NEW u \in Users, NEW link \in BOOLEAN,
               Resolve(c, u, link)
         PROVE  SpentInv'
    BY <1>0, <1>19 DEF Resolve, Resolvable, Goto, store, idp, account, cache, input,
       TypeOK, InputInv, SpentInv, Verified, Running, Past
  <1>20. ASSUME NEW c \in Calls, link_external_identity(c) PROVE SpentInv'
    BY <1>0, <1>20 DEF link_external_identity, Goto, store, idp, account,
       cache, input, TypeOK, InputInv, SpentInv, Verified, Running, Past
  <1>21. ASSUME NEW c \in Calls, IssueSession(c) PROVE SpentInv'
    BY <1>0, <1>21 DEF IssueSession, Goto, store, idp, account, cache, input, local,
       TypeOK, InputInv, SpentInv, Verified, Running, Past
  <1>22. ASSUME NEW c \in Calls, Fail(c) PROVE SpentInv'
    BY <1>0, <1>22 DEF Fail, Ended, Goto, store, idp, account, cache, TypeOK, InputInv,
       SpentInv, Verified, Running, Past
  <1>23. CASE UNCHANGED vars
    BY <1>0, <1>23 DEF vars, store, idp, account, cache, input, local, TypeOK,
       InputInv, SpentInv, Verified, Running, Past
  <1> QED
    BY <1>1, <1>2, <1>3, <1>4, <1>5, <1>6, <1>7, <1>8, <1>9, <1>10, <1>11,
       <1>12, <1>13, <1>14, <1>15, <1>16, <1>17, <1>18, <1>19, <1>20, <1>21,
       <1>22, <1>23 DEF Next

\* A call that a step leaves as it was, and one that the step moves outside the
\* part of login_with_callback_in_mode that knows of links.
Same(d) ==
    pc'[d] = pc[d] /\ code'[d] = code[d] /\ found'[d] = found[d] /\ user'[d] = user[d]

Outside(d) ==
    /\ pc'[d] \notin {"resolve", "link", "issue", "done"}
    /\ pc[d] \in {"issue", "done", "failed"} => pc'[d] = "failed"

NoLinkStep ==
    /\ UNCHANGED <<links, writes, before, subject>>
    /\ \A d \in Calls : Same(d) \/ Outside(d)

\* Steps elsewhere keep LinkInv.
LEMMA LinkFrame ==
  ASSUME TypeOK, LinkInv, NoLinkStep PROVE LinkInv'
  <1>0. /\ UNCHANGED <<links, writes, before, subject>>
        /\ \A d \in Calls : Same(d) \/ Outside(d)
    BY DEF NoLinkStep
  <1>1. ASSUME NEW s \in Subjects PROVE StoredLink(s)'
    <2>1. StoredLink(s)
      BY DEF LinkInv
    <2> QED
      BY <1>0, <2>1 DEF StoredLink, Wrote
  <1>2. ASSUME NEW w \in writes' PROVE WrittenLink(w)'
    <2>1. w \in writes /\ w.call \in Calls /\ WrittenLink(w)
      BY <1>0, <1>2 DEF LinkInv, TypeOK
    <2>2. CASE Same(w.call)
      BY <1>0, <2>1, <2>2 DEF WrittenLink, Identity, Same
    <2>3. CASE Outside(w.call)
      BY <1>0, <2>1, <2>3 DEF WrittenLink, Outside
    <2> QED
      BY <1>0, <2>1, <2>2, <2>3
  <1>3. ASSUME NEW c \in Calls PROVE CallLink(c)'
    <2>1. CallLink(c)
      BY DEF LinkInv
    <2>2. CASE Same(c)
      BY <1>0, <2>1, <2>2 DEF CallLink, Wrote, Identity, Same
    <2>3. CASE Outside(c)
      BY <2>3 DEF CallLink, Outside
    <2> QED
      BY <1>0, <2>2, <2>3
  <1> QED
    BY <1>1, <1>2, <1>3 DEF LinkInv

\* Every step keeps LinkInv.
LEMMA LinkStep ==
  ASSUME IndInv, [Next]_vars PROVE LinkInv'
  <1>0. TypeOK /\ InputInv /\ LinkInv
    BY DEF IndInv
  <1>1. ASSUME NEW r \in Requests, OidcRequest(r) PROVE NoLinkStep
    BY <1>0, <1>1 DEF OidcRequest, insert_oauth_state, idp, account, cache, input,
       local, TypeOK, NoLinkStep, Same, Outside
  <1>2. ASSUME NEW r \in Requests, OAuth2Request(r) PROVE NoLinkStep
    BY <1>0, <1>2 DEF OAuth2Request, insert_oauth_state, idp, account, cache, input,
       local, TypeOK, NoLinkStep, Same, Outside
  <1>3. ASSUME Rotate PROVE NoLinkStep
    BY <1>0, <1>3 DEF Rotate, store, idp, account, cache, input, local, TypeOK,
       NoLinkStep, Same, Outside
  <1>4. ASSUME Sweep PROVE NoLinkStep
    BY <1>0, <1>4 DEF Sweep, idp, account, cache, input, local, TypeOK, InputInv,
       NoLinkStep, Same, Outside
  <1>5. ASSUME Tick PROVE NoLinkStep
    BY <1>0, <1>5 DEF Tick, store, idp, account, cache, input, local, TypeOK, InputInv,
       NoLinkStep, Same, Outside
  <1>6. ASSUME NEW c \in Calls, Refuse(c) PROVE NoLinkStep
    BY <1>0, <1>6 DEF Refuse, Goto, store, idp, account, cache, input, local, TypeOK,
       NoLinkStep, Same, Outside
  <1>7. ASSUME NEW c \in Calls, NEW k \in {"oidc", "oauth2"},
             NEW r \in Requests, NEW q \in Requests, Begin(c, k, r, q)
        PROVE  NoLinkStep
    BY <1>0, <1>7 DEF Begin, Goto, store, idp, account, cache, TypeOK, InputInv,
       NoLinkStep, Same, Outside
  <1>8. ASSUME NEW c \in Calls, Consume(c) PROVE NoLinkStep
    BY <1>0, <1>8 DEF Consume, Consumable, OwnState, Goto, idp, account, cache, input,
       local, TypeOK, NoLinkStep, Same, Outside
  <1>9. ASSUME NEW c \in Calls, ExchangeOidc(c) PROVE NoLinkStep
    BY <1>0, <1>9 DEF ExchangeOidc, Goto, store, idp, account, cache, input, TypeOK,
       NoLinkStep, Same, Outside
  <1>10. ASSUME NEW c \in Calls, ExchangeOAuth2(c) PROVE NoLinkStep
    BY <1>0, <1>10 DEF ExchangeOAuth2, Goto, store, idp, account, cache, input, local,
       TypeOK, NoLinkStep, Same, Outside
  <1>11. ASSUME NEW c \in Calls, Profile(c) PROVE NoLinkStep
    BY <1>0, <1>11 DEF Profile, Goto, store, idp, account, cache, input, local, TypeOK,
       NoLinkStep, Same, Outside
  <1>12. ASSUME NEW c \in Calls, Jwks(c) PROVE NoLinkStep
    BY <1>0, <1>12 DEF Jwks, Goto, store, idp, account, cache, input, TypeOK, InputInv,
       NoLinkStep, Same, Outside
  <1>13. ASSUME NEW c \in Calls, Fetch(c) PROVE NoLinkStep
    BY <1>0, <1>13 DEF Fetch, Goto, store, idp, account, cache, input, TypeOK,
       NoLinkStep, Same, Outside
  <1>14. ASSUME NEW c \in Calls, Store(c) PROVE NoLinkStep
    BY <1>0, <1>14 DEF Store, CacheExpiry, Goto, store, idp, account, input, TypeOK,
       NoLinkStep, Same, Outside
  <1>15. ASSUME NEW c \in Calls, ReadClock(c) PROVE NoLinkStep
    BY <1>0, <1>15 DEF ReadClock, Goto, store, idp, account, cache, input, TypeOK,
       NoLinkStep, Same, Outside
  <1>16. ASSUME NEW c \in Calls, Lock(c) PROVE NoLinkStep
    BY <1>0, <1>16 DEF Lock, Cool, Goto, store, idp, account, input, TypeOK, InputInv,
       NoLinkStep, Same, Outside
  <1>17. ASSUME NEW c \in Calls, Claims(c) PROVE NoLinkStep
    BY <1>0, <1>17 DEF Claims, NonceMatches, Goto, store, idp, account, cache, input,
       local, TypeOK, NoLinkStep, Same, Outside
  <1>22. ASSUME NEW c \in Calls, Fail(c) PROVE NoLinkStep
    BY <1>0, <1>22 DEF Fail, Ended, Goto, store, idp, account, cache, TypeOK, InputInv,
       NoLinkStep, Same, Outside
  <1>23. ASSUME UNCHANGED vars PROVE NoLinkStep
    BY <1>0, <1>23 DEF vars, store, idp, account, cache, input, local, TypeOK,
       NoLinkStep, Same, Outside
  <1>18. ASSUME NEW c \in Calls, find_external_identity(c) PROVE LinkInv'
    <2>0. /\ UNCHANGED <<links, writes, subject, code, user>>
          /\ pc[c] = "find" /\ pc' = [pc EXCEPT ![c] = "resolve"]
          /\ found' = [found EXCEPT ![c] = links[Identity(c)]]
          /\ before' = [before EXCEPT ![c] = Linkers(Identity(c))]
      BY <1>18 DEF find_external_identity, Goto, idp, input
    <2>1. ASSUME NEW s \in Subjects PROVE StoredLink(s)'
      <3>1. StoredLink(s)
        BY <1>0 DEF LinkInv
      <3> QED
        BY <2>0, <3>1 DEF StoredLink, Wrote
    <2>2. ASSUME NEW w \in writes' PROVE WrittenLink(w)'
      <3>1. w \in writes /\ w.call \in Calls /\ WrittenLink(w)
        BY <1>0, <2>0, <2>2 DEF LinkInv, TypeOK
      <3>2. w.call # c
        BY <2>0, <3>1 DEF WrittenLink
      <3>3. /\ pc'[w.call] = pc[w.call] /\ before'[w.call] = before[w.call]
            /\ user'[w.call] = user[w.call] /\ Identity(w.call)' = Identity(w.call)
        BY <1>0, <2>0, <3>1, <3>2 DEF TypeOK, Identity
      <3> QED
        BY <3>1, <3>3 DEF WrittenLink
    <2>3. ASSUME NEW d \in Calls, d # c PROVE CallLink(d)'
      <3>1. CallLink(d)
        BY <1>0 DEF LinkInv
      <3>2. /\ pc'[d] = pc[d] /\ before'[d] = before[d] /\ found'[d] = found[d]
            /\ user'[d] = user[d] /\ Identity(d)' = Identity(d)
        BY <1>0, <2>0, <2>3 DEF TypeOK, Identity
      <3> QED
        BY <2>0, <3>1, <3>2 DEF CallLink, Wrote
    <2>4. CallLink(c)'
      <3>1. /\ pc'[c] = "resolve" /\ found'[c] = links[Identity(c)]
            /\ before'[c] = Linkers(Identity(c)) /\ Identity(c)' = Identity(c)
        BY <1>0, <2>0 DEF TypeOK, Identity
      <3>2. Identity(c) \in Subjects
        BY <1>0, <2>0 DEF InputInv, Running, Past, TypeOK, Identity
      <3>3. StoredLink(Identity(c))
        BY <1>0, <3>2 DEF LinkInv
      <3>4. CASE links[Identity(c)] = None
        <4>1. Linkers(Identity(c)) = {}
          BY <3>3, <3>4 DEF StoredLink, Linkers
        <4> QED
          BY <3>1, <3>4, <4>1 DEF CallLink
      <3>5. CASE links[Identity(c)] # None
        <4>1. Wrote(Identity(c), links[Identity(c)])
          BY <3>3, <3>5 DEF StoredLink
        <4>2. Wrote(Identity(c), found[c])'
          BY <2>0, <3>1, <4>1 DEF Wrote
        <4> QED
          BY <3>1, <3>5, <4>2 DEF CallLink
      <3> QED
        BY <3>4, <3>5
    <2> QED
      BY <2>1, <2>2, <2>3, <2>4 DEF LinkInv
  <1>19. ASSUME NEW c \in Calls, NEW u \in Users, NEW link \in BOOLEAN,
               Resolve(c, u, link)
         PROVE  LinkInv'
    <2>0. /\ UNCHANGED <<links, writes, before, subject, code, found>>
          /\ pc[c] = "resolve" /\ pc' = [pc EXCEPT ![c] = pc'[c]]
          /\ user' = [user EXCEPT ![c] = u]
          /\ \/ pc'[c] = "rejected"
             \/ pc'[c] = "link" /\ found[c] = None
             \/ pc'[c] = "issue" /\ found[c] \in {None, u}
      BY <1>0, <1>19 DEF Resolve, Resolvable, Goto, idp, input, account, TypeOK
    <2>1. ASSUME NEW s \in Subjects PROVE StoredLink(s)'
      <3>1. StoredLink(s)
        BY <1>0 DEF LinkInv
      <3> QED
        BY <2>0, <3>1 DEF StoredLink, Wrote
    <2>2. ASSUME NEW w \in writes' PROVE WrittenLink(w)'
      <3>1. w \in writes /\ w.call \in Calls /\ WrittenLink(w)
        BY <1>0, <2>0, <2>2 DEF LinkInv, TypeOK
      <3>2. w.call # c
        BY <2>0, <3>1 DEF WrittenLink
      <3>3. /\ pc'[w.call] = pc[w.call] /\ before'[w.call] = before[w.call]
            /\ user'[w.call] = user[w.call] /\ Identity(w.call)' = Identity(w.call)
        BY <1>0, <2>0, <3>1, <3>2 DEF TypeOK, Identity
      <3> QED
        BY <3>1, <3>3 DEF WrittenLink
    <2>3. ASSUME NEW d \in Calls, d # c PROVE CallLink(d)'
      <3>1. CallLink(d)
        BY <1>0 DEF LinkInv
      <3>2. /\ pc'[d] = pc[d] /\ before'[d] = before[d] /\ found'[d] = found[d]
            /\ user'[d] = user[d] /\ Identity(d)' = Identity(d)
        BY <1>0, <2>0, <2>3 DEF TypeOK, Identity
      <3> QED
        BY <2>0, <3>1, <3>2 DEF CallLink, Wrote
    <2>4. CallLink(c)'
      <3>1. /\ found'[c] = found[c] /\ before'[c] = before[c] /\ user'[c] = u
            /\ Identity(c)' = Identity(c)
        BY <1>0, <2>0 DEF TypeOK, Identity
      <3>2. CallLink(c)
        BY <1>0 DEF LinkInv
      <3>3. CASE found[c] = None
        BY <2>0, <3>1, <3>2, <3>3 DEF CallLink
      <3>4. CASE found[c] # None
        <4>1. Wrote(Identity(c), found[c])'
          BY <2>0, <3>1, <3>2, <3>4 DEF CallLink, Wrote
        <4> QED
          BY <2>0, <3>1, <3>4, <4>1 DEF CallLink
      <3> QED
        BY <3>3, <3>4
    <2> QED
      BY <2>1, <2>2, <2>3, <2>4 DEF LinkInv
  <1>20. ASSUME NEW c \in Calls, link_external_identity(c) PROVE LinkInv'
    <2>0. /\ UNCHANGED <<before, subject, code, found, user>>
          /\ pc[c] = "link" /\ Identity(c) \in Subjects /\ user[c] \in Users
          /\ before[c] = {} /\ found[c] = None
      <3>1. CallLink(c)
        BY <1>0 DEF LinkInv
      <3> QED
        BY <1>0, <1>20, <3>1 DEF link_external_identity, idp, input, local,
           CallLink, InputInv, Running, Past, TypeOK, Identity
    <2>1. CASE pc' = [pc EXCEPT ![c] = "failed"] /\ UNCHANGED <<links, writes>>
      <3>1. NoLinkStep
        BY <1>0, <2>0, <2>1 DEF NoLinkStep, Same, Outside, TypeOK
      <3> QED
        BY <1>0, <3>1, LinkFrame
    <2>2. ASSUME links' = [links EXCEPT ![Identity(c)] = user[c]],
                 writes' = writes \cup {[call |-> c, identity |-> Identity(c),
                                         user |-> user[c]]},
                 pc' = [pc EXCEPT ![c] = "issue"]
          PROVE  LinkInv'
      <3> DEFINE new == [call |-> c, identity |-> Identity(c), user |-> user[c]]
      <3>0. /\ new.call = c /\ new.identity = Identity(c) /\ new.user = user[c]
            /\ writes' = writes \cup {new}
        BY <2>2
      <3> HIDE DEF new
      <3>3. ASSUME NEW s \in Subjects PROVE StoredLink(s)'
        <4>1. StoredLink(s)
          BY <1>0 DEF LinkInv
        <4>2. CASE s = Identity(c)
          <5>1. links'[s] = user[c] /\ user[c] # None
            BY <1>0, <2>0, <2>2, <4>2, ProviderAssumption DEF TypeOK
          <5>2. \E w \in writes' : w.identity = s /\ w.user = user[c]
            BY <3>0, <4>2
          <5> QED
            BY <5>1, <5>2 DEF StoredLink, Wrote
        <4>3. CASE s # Identity(c)
          <5>1. links'[s] = links[s]
            BY <1>0, <2>0, <2>2, <4>3 DEF TypeOK
          <5>2. CASE links[s] = None
            BY <3>0, <4>1, <4>3, <5>1, <5>2 DEF StoredLink
          <5>3. CASE links[s] # None
            BY <3>0, <4>1, <5>1, <5>3 DEF StoredLink, Wrote
          <5> QED
            BY <5>2, <5>3
        <4> QED
          BY <4>2, <4>3
      <3>4. ASSUME NEW w \in writes' PROVE WrittenLink(w)'
        <4>1. CASE w = new
          <5>1. pc'[c] = "issue" /\ before'[c] = {} /\ user'[c] = user[c]
                /\ Identity(c)' = Identity(c)
            BY <1>0, <2>0, <2>2 DEF TypeOK, Identity
          <5> QED
            BY <3>0, <4>1, <5>1 DEF WrittenLink
        <4>2. CASE w \in writes
          <5>1. w.call \in Calls /\ WrittenLink(w)
            BY <1>0, <4>2 DEF LinkInv, TypeOK
          <5>2. w.call # c
            BY <2>0, <5>1 DEF WrittenLink
          <5>3. /\ pc'[w.call] = pc[w.call] /\ before'[w.call] = before[w.call]
                /\ user'[w.call] = user[w.call] /\ Identity(w.call)' = Identity(w.call)
            BY <1>0, <2>0, <2>2, <5>1, <5>2 DEF TypeOK, Identity
          <5> QED
            BY <5>1, <5>3 DEF WrittenLink
        <4> QED
          BY <3>0, <4>1, <4>2
      <3>5. ASSUME NEW d \in Calls, d # c PROVE CallLink(d)'
        <4>1. CallLink(d)
          BY <1>0 DEF LinkInv
        <4>2. /\ pc'[d] = pc[d] /\ before'[d] = before[d] /\ found'[d] = found[d]
              /\ user'[d] = user[d] /\ Identity(d)' = Identity(d)
          BY <1>0, <2>0, <2>2, <3>5 DEF TypeOK, Identity
        <4>3. Wrote(Identity(d), found[d]) => Wrote(Identity(d), found[d])'
          BY <3>0, <4>2 DEF Wrote
        <4> QED
          BY <4>1, <4>2, <4>3 DEF CallLink
      <3>6. CallLink(c)'
        BY <1>0, <2>0, <2>2 DEF CallLink, TypeOK
      <3> QED
        BY <3>3, <3>4, <3>5, <3>6 DEF LinkInv
    <2> QED
      BY <1>20, <2>1, <2>2 DEF link_external_identity, Goto
  <1>21. ASSUME NEW c \in Calls, IssueSession(c) PROVE LinkInv'
    <2>0. /\ UNCHANGED <<links, writes, before, subject, code, found, user>>
          /\ pc[c] = "issue" /\ pc' = [pc EXCEPT ![c] = "done"]
      BY <1>21 DEF IssueSession, Goto, account, idp, input, local
    <2>1. ASSUME NEW s \in Subjects PROVE StoredLink(s)'
      <3>1. StoredLink(s)
        BY <1>0 DEF LinkInv
      <3> QED
        BY <2>0, <3>1 DEF StoredLink, Wrote
    <2>2. ASSUME NEW w \in writes' PROVE WrittenLink(w)'
      <3>1. w \in writes /\ w.call \in Calls /\ WrittenLink(w)
        BY <1>0, <2>0, <2>2 DEF LinkInv, TypeOK
      <3>2. /\ pc'[w.call] = (IF w.call = c THEN "done" ELSE pc[w.call])
            /\ before'[w.call] = before[w.call]
            /\ user'[w.call] = user[w.call] /\ Identity(w.call)' = Identity(w.call)
        BY <1>0, <2>0, <3>1 DEF TypeOK, Identity
      <3> QED
        BY <2>0, <3>1, <3>2 DEF WrittenLink
    <2>3. ASSUME NEW d \in Calls PROVE CallLink(d)'
      <3>1. CallLink(d)
        BY <1>0 DEF LinkInv
      <3>2. /\ pc'[d] = (IF d = c THEN "done" ELSE pc[d])
            /\ before'[d] = before[d] /\ found'[d] = found[d]
            /\ user'[d] = user[d] /\ Identity(d)' = Identity(d)
        BY <1>0, <2>0, <2>3 DEF TypeOK, Identity
      <3> QED
        BY <2>0, <3>1, <3>2 DEF CallLink, Wrote
    <2> QED
      BY <2>1, <2>2, <2>3 DEF LinkInv
  <1> QED
    BY <1>0, <1>1, <1>2, <1>3, <1>4, <1>5, <1>6, <1>7, <1>8, <1>9, <1>10,
       <1>11, <1>12, <1>13, <1>14, <1>15, <1>16, <1>17, <1>18, <1>19, <1>20,
       <1>21, <1>22, <1>23, LinkFrame DEF Next

\* Every step keeps KeyInv.
LEMMA KeyStep ==
  ASSUME IndInv, [Next]_vars PROVE KeyInv'
  <1>0. TypeOK /\ KeyInv
    BY DEF IndInv
  <1>1. ASSUME NEW r \in Requests, OidcRequest(r) PROVE KeyInv'
    BY <1>0, <1>1, ProviderAssumption DEF OidcRequest, insert_oauth_state,
       idp, account, cache, input, local, TypeOK, KeyInv, PublishedAt, Signed, Keys
  <1>2. ASSUME NEW r \in Requests, OAuth2Request(r) PROVE KeyInv'
    BY <1>0, <1>2, ProviderAssumption DEF OAuth2Request, insert_oauth_state,
       idp, account, cache, input, local, TypeOK, KeyInv, PublishedAt, Signed, Keys
  <1>3. CASE Rotate
    BY <1>0, <1>3, ProviderAssumption DEF Rotate, store, idp, account, cache, input,
       local, TypeOK, KeyInv, PublishedAt, Signed, Keys
  <1>4. CASE Sweep
    BY <1>0, <1>4, ProviderAssumption DEF Sweep, idp, account, cache, input, local,
       TypeOK, KeyInv, PublishedAt, Signed, Keys
  <1>5. CASE Tick
    BY <1>0, <1>5, ProviderAssumption DEF Tick, store, idp, account, cache, input,
       local, TypeOK, KeyInv, PublishedAt, Signed, Keys
  <1>6. ASSUME NEW c \in Calls, Refuse(c) PROVE KeyInv'
    BY <1>0, <1>6, ProviderAssumption DEF Refuse, Goto, store, idp, account, cache,
       input, local, TypeOK, KeyInv, PublishedAt, Signed, Keys
  <1>7. ASSUME NEW c \in Calls, NEW k \in {"oidc", "oauth2"},
             NEW r \in Requests, NEW q \in Requests, Begin(c, k, r, q)
        PROVE  KeyInv'
    BY <1>0, <1>7, ProviderAssumption DEF Begin, Goto, store, idp, account, cache,
       TypeOK, KeyInv, PublishedAt, Signed, Keys
  <1>8. ASSUME NEW c \in Calls, Consume(c) PROVE KeyInv'
    BY <1>0, <1>8, ProviderAssumption DEF Consume, Consumable, OwnState, Goto,
       idp, account, cache, input, local, TypeOK, KeyInv, PublishedAt, Signed, Keys
  <1>9. ASSUME NEW c \in Calls, ExchangeOidc(c) PROVE KeyInv'
    BY <1>0, <1>9, ProviderAssumption DEF ExchangeOidc, Goto, store, idp, account,
       cache, input, TypeOK, KeyInv, PublishedAt, Signed, Keys
  <1>10. ASSUME NEW c \in Calls, ExchangeOAuth2(c) PROVE KeyInv'
    BY <1>0, <1>10, ProviderAssumption DEF ExchangeOAuth2, Goto, store, idp, account,
       cache, input, local, TypeOK, KeyInv, PublishedAt, Signed, Keys
  <1>11. ASSUME NEW c \in Calls, Profile(c) PROVE KeyInv'
    BY <1>0, <1>11, ProviderAssumption DEF Profile, Goto, store, idp, account, cache,
       input, local, TypeOK, KeyInv, PublishedAt, Signed, Keys
  <1>12. ASSUME NEW c \in Calls, Jwks(c) PROVE KeyInv'
    BY <1>0, <1>12, ProviderAssumption DEF Jwks, Goto, store, idp, account, cache,
       input, TypeOK, KeyInv, PublishedAt, Signed, Keys
  <1>13. ASSUME NEW c \in Calls, Fetch(c) PROVE KeyInv'
    BY <1>0, <1>13, ProviderAssumption DEF Fetch, Goto, store, idp, account, cache,
       input, TypeOK, KeyInv, PublishedAt, Signed, Keys
  <1>14. ASSUME NEW c \in Calls, Store(c) PROVE KeyInv'
    BY <1>0, <1>14, ProviderAssumption DEF Store, CacheExpiry, Goto, store,
       idp, account, input, TypeOK, KeyInv, PublishedAt, Signed, Keys
  <1>15. ASSUME NEW c \in Calls, ReadClock(c) PROVE KeyInv'
    BY <1>0, <1>15, ProviderAssumption DEF ReadClock, Goto, store, idp, account, cache,
       input, TypeOK, KeyInv, PublishedAt, Signed, Keys
  <1>16. ASSUME NEW c \in Calls, Lock(c) PROVE KeyInv'
    <2>1. /\ pc'[c] \in {"fetch", "unknown"} /\ now'[c] \in {clock, now[c]}
          /\ \A d \in Calls : d # c => pc'[d] = pc[d] /\ now'[d] = now[d]
          /\ UNCHANGED <<clock, key, retired, jwks, jwks_expires_at, answer, kid, fetched>>
      <3>1. CASE Cooldown = 0 \/ Cool(c)
        BY <1>0, <1>16, <3>1 DEF Lock, Goto, idp, TypeOK
      <3>2. CASE ~(Cooldown = 0 \/ Cool(c))
        BY <1>0, <1>16, <3>2 DEF Lock, Goto, idp, TypeOK
      <3> QED
        BY <3>1, <3>2
    <2> QED
      BY <1>0, <2>1, ProviderAssumption DEF TypeOK, KeyInv, PublishedAt, Signed
  <1>17. ASSUME NEW c \in Calls, Claims(c) PROVE KeyInv'
    BY <1>0, <1>17, ProviderAssumption DEF Claims, NonceMatches, Goto, store,
       idp, account, cache, input, local, TypeOK, KeyInv, PublishedAt, Signed, Keys
  <1>18. ASSUME NEW c \in Calls, find_external_identity(c) PROVE KeyInv'
    BY <1>0, <1>18, ProviderAssumption DEF find_external_identity, Goto,
       store, idp, account, cache, input, TypeOK, KeyInv, PublishedAt, Signed, Keys
  <1>19. ASSUME NEW c \in Calls, NEW u \in Users, NEW link \in BOOLEAN,
               Resolve(c, u, link)
         PROVE  KeyInv'
    BY <1>0, <1>19, ProviderAssumption DEF Resolve, Resolvable, Goto, store,
       idp, account, cache, input, TypeOK, KeyInv, PublishedAt, Signed, Keys
  <1>20. ASSUME NEW c \in Calls, link_external_identity(c) PROVE KeyInv'
    BY <1>0, <1>20, ProviderAssumption DEF link_external_identity,
       Goto, store, idp, account, cache, input, local, TypeOK, KeyInv, PublishedAt, Signed, Keys
  <1>21. ASSUME NEW c \in Calls, IssueSession(c) PROVE KeyInv'
    BY <1>0, <1>21, ProviderAssumption DEF IssueSession, Goto, store, idp, account,
       cache, input, local, TypeOK, KeyInv, PublishedAt, Signed, Keys
  <1>22. ASSUME NEW c \in Calls, Fail(c) PROVE KeyInv'
    BY <1>0, <1>22, ProviderAssumption DEF Fail, Ended, Goto, store, idp, account,
       cache, TypeOK, KeyInv, PublishedAt, Signed, Keys
  <1>23. CASE UNCHANGED vars
    BY <1>0, <1>23 DEF vars, store, idp, account, cache, input, local, TypeOK, KeyInv,
       PublishedAt, Signed, Keys
  <1> QED
    BY <1>1, <1>2, <1>3, <1>4, <1>5, <1>6, <1>7, <1>8, <1>9, <1>10, <1>11,
       <1>12, <1>13, <1>14, <1>15, <1>16, <1>17, <1>18, <1>19, <1>20, <1>21,
       <1>22, <1>23 DEF Next

\* Every step keeps ForcedInv.
LEMMA ForcedStep ==
  ASSUME IndInv, [Next]_vars PROVE ForcedInv'
  <1>0. TypeOK /\ KeyInv /\ ForcedInv
    BY DEF IndInv
  <1>1. ASSUME NEW r \in Requests, OidcRequest(r) PROVE ForcedInv'
    BY <1>0, <1>1 DEF OidcRequest, insert_oauth_state, idp, account, cache, input,
       local, TypeOK, ForcedInv, ForcedRefreshesSpaced
  <1>2. ASSUME NEW r \in Requests, OAuth2Request(r) PROVE ForcedInv'
    BY <1>0, <1>2 DEF OAuth2Request, insert_oauth_state, idp, account, cache, input,
       local, TypeOK, ForcedInv, ForcedRefreshesSpaced
  <1>3. CASE Rotate
    BY <1>0, <1>3 DEF Rotate, store, idp, account, cache, input, local, TypeOK,
       ForcedInv, ForcedRefreshesSpaced
  <1>4. CASE Sweep
    BY <1>0, <1>4 DEF Sweep, idp, account, cache, input, local, TypeOK, ForcedInv,
       ForcedRefreshesSpaced
  <1>5. CASE Tick
    BY <1>0, <1>5 DEF Tick, store, idp, account, cache, input, local, TypeOK,
       ForcedInv, ForcedRefreshesSpaced
  <1>6. ASSUME NEW c \in Calls, Refuse(c) PROVE ForcedInv'
    BY <1>0, <1>6 DEF Refuse, Goto, store, idp, account, cache, input, local, TypeOK,
       ForcedInv, ForcedRefreshesSpaced
  <1>7. ASSUME NEW c \in Calls, NEW k \in {"oidc", "oauth2"},
             NEW r \in Requests, NEW q \in Requests, Begin(c, k, r, q)
        PROVE  ForcedInv'
    BY <1>0, <1>7 DEF Begin, Goto, store, idp, account, cache, TypeOK, ForcedInv,
       ForcedRefreshesSpaced
  <1>8. ASSUME NEW c \in Calls, Consume(c) PROVE ForcedInv'
    BY <1>0, <1>8 DEF Consume, Consumable, OwnState, Goto, idp, account, cache, input,
       local, TypeOK, ForcedInv, ForcedRefreshesSpaced
  <1>9. ASSUME NEW c \in Calls, ExchangeOidc(c) PROVE ForcedInv'
    BY <1>0, <1>9 DEF ExchangeOidc, Goto, store, idp, account, cache, input, TypeOK,
       ForcedInv, ForcedRefreshesSpaced
  <1>10. ASSUME NEW c \in Calls, ExchangeOAuth2(c) PROVE ForcedInv'
    BY <1>0, <1>10 DEF ExchangeOAuth2, Goto, store, idp, account, cache, input, local,
       TypeOK, ForcedInv, ForcedRefreshesSpaced
  <1>11. ASSUME NEW c \in Calls, Profile(c) PROVE ForcedInv'
    BY <1>0, <1>11 DEF Profile, Goto, store, idp, account, cache, input, local, TypeOK,
       ForcedInv, ForcedRefreshesSpaced
  <1>12. ASSUME NEW c \in Calls, Jwks(c) PROVE ForcedInv'
    BY <1>0, <1>12 DEF Jwks, Goto, store, idp, account, cache, input, TypeOK,
       ForcedInv, ForcedRefreshesSpaced
  <1>13. ASSUME NEW c \in Calls, Fetch(c) PROVE ForcedInv'
    BY <1>0, <1>13 DEF Fetch, Goto, store, idp, account, cache, input, TypeOK,
       ForcedInv, ForcedRefreshesSpaced
  <1>14. ASSUME NEW c \in Calls, Store(c) PROVE ForcedInv'
    BY <1>0, <1>14 DEF Store, CacheExpiry, Goto, store, idp, account, input, TypeOK,
       ForcedInv, ForcedRefreshesSpaced
  <1>15. ASSUME NEW c \in Calls, ReadClock(c) PROVE ForcedInv'
    BY <1>0, <1>15 DEF ReadClock, Goto, store, idp, account, cache, input, TypeOK,
       ForcedInv, ForcedRefreshesSpaced
  <1>16. ASSUME NEW c \in Calls, Lock(c) PROVE ForcedInv'
    <2>0. /\ forced \in [Calls -> Nat \cup {None}] /\ now[c] \in Nat
          /\ last_forced_jwks_refresh \in Nat \cup {None}
          /\ Cooldown \in Nat /\ None \notin Int
      BY <1>0, ProviderAssumption DEF TypeOK
    <2>1. CASE Cooldown = 0 \/ Cool(c)
      <3>1. /\ forced' = [forced EXCEPT ![c] = now[c]]
            /\ last_forced_jwks_refresh' = IF Cooldown = 0 THEN last_forced_jwks_refresh
                                           ELSE now[c]
        BY <1>16, <2>1 DEF Lock
      <3>2. \A d \in Calls : forced'[d] = IF d = c THEN now[c] ELSE forced[d]
        BY <2>0, <3>1
      <3> QED
        BY <1>0, <2>0, <2>1, <3>1, <3>2 DEF Cool, ForcedInv, ForcedRefreshesSpaced
    <2>2. CASE ~(Cooldown = 0 \/ Cool(c))
      BY <1>0, <1>16, <2>2 DEF Lock, ForcedInv, ForcedRefreshesSpaced
    <2> QED
      BY <2>1, <2>2
  <1>17. ASSUME NEW c \in Calls, Claims(c) PROVE ForcedInv'
    BY <1>0, <1>17 DEF Claims, NonceMatches, Goto, store, idp, account, cache, input,
       local, TypeOK, ForcedInv, ForcedRefreshesSpaced
  <1>18. ASSUME NEW c \in Calls, find_external_identity(c) PROVE ForcedInv'
    BY <1>0, <1>18 DEF find_external_identity, Goto, store, idp, account, cache, input,
       TypeOK, ForcedInv, ForcedRefreshesSpaced
  <1>19. ASSUME NEW c \in Calls, NEW u \in Users, NEW link \in BOOLEAN,
               Resolve(c, u, link)
         PROVE  ForcedInv'
    BY <1>0, <1>19 DEF Resolve, Resolvable, Goto, store, idp, account, cache, input,
       TypeOK, ForcedInv, ForcedRefreshesSpaced
  <1>20. ASSUME NEW c \in Calls, link_external_identity(c) PROVE ForcedInv'
    BY <1>0, <1>20 DEF link_external_identity, Goto, store, idp, account,
       cache, input, local, TypeOK, ForcedInv, ForcedRefreshesSpaced
  <1>21. ASSUME NEW c \in Calls, IssueSession(c) PROVE ForcedInv'
    BY <1>0, <1>21 DEF IssueSession, Goto, store, idp, account, cache, input, local,
       TypeOK, ForcedInv, ForcedRefreshesSpaced
  <1>22. ASSUME NEW c \in Calls, Fail(c) PROVE ForcedInv'
    BY <1>0, <1>22 DEF Fail, Ended, Goto, store, idp, account, cache, TypeOK,
       ForcedInv, ForcedRefreshesSpaced
  <1>23. CASE UNCHANGED vars
    BY <1>0, <1>23 DEF vars, store, idp, account, cache, input, local, TypeOK,
       ForcedInv, ForcedRefreshesSpaced
  <1> QED
    BY <1>1, <1>2, <1>3, <1>4, <1>5, <1>6, <1>7, <1>8, <1>9, <1>10, <1>11,
       <1>12, <1>13, <1>14, <1>15, <1>16, <1>17, <1>18, <1>19, <1>20, <1>21,
       <1>22, <1>23 DEF Next

-----------------------------------------------------------------------------
(* Theorems.                                                               *)

\* The initial states satisfy the invariant.
LEMMA InitInv == Init => IndInv
  <1> SUFFICES ASSUME Init PROVE IndInv
    OBVIOUS
  <1>1. TypeOK
    BY ProviderAssumption DEF Init, TypeOK, Ended, Keys
  <1>2. KeyInv
    BY ProviderAssumption DEF Init, KeyInv, Keys, Signed
  <1>3. LinkInv
    BY ProviderAssumption DEF Init, LinkInv, StoredLink, CallLink
  <1> QED
    BY <1>1, <1>2, <1>3, ProviderAssumption DEF Init, IndInv, InputInv, SpentInv,
       ForcedInv, ForcedRefreshesSpaced, Running, Past, Verified

\* The inductive invariant holds in every reachable state.
LEMMA Invariance == Spec => []IndInv
  <1>1. IndInv /\ [Next]_vars => IndInv'
    BY TypeStep, InputStep, SpentStep, LinkStep, KeyStep, ForcedStep DEF IndInv
  <1> QED
    BY InitInv, <1>1, PTL DEF Spec

\* Every variable keeps its type.
THEOREM TypeCorrect == Spec => []TypeOK
  BY Invariance, PTL DEF IndInv

\* A state admits one acceptance, by the provider that wrote it, however often
\* and wherever the callback is delivered (handle_callback_in_mode,
\* OAuth2Provider::handle_callback).
THEOREM OneLogin == Spec => []OneLoginPerState
  <1>1. IndInv => OneLoginPerState
    BY DEF IndInv, SpentInv, OneLoginPerState, Accepted, Past
  <1> QED
    BY Invariance, <1>1, PTL

\* Whoever is signed in is the person who signed in for the request whose state
\* was spent (validate_claims).
THEOREM RightPerson == Spec => []SignInBelongsToRequest
  <1>1. IndInv => SignInBelongsToRequest
    BY DEF IndInv, SpentInv, SignInBelongsToRequest, Accepted, Verified, Identity
  <1> QED
    BY Invariance, <1>1, PTL

\* A linked identity signs in one user, unless two first sign-ins of it raced for
\* the link and the store took both (login_with_callback_in_mode).
THEOREM OneUser == Spec => []OneUserPerIdentity
  <1>1. IndInv => OneUserPerIdentity
    <2> SUFFICES ASSUME TypeOK, LinkInv, NEW c \in Calls, NEW d \in Calls,
                        pc[c] = "done", pc[d] = "done", Linked(c), Linked(d),
                        Identity(c) = Identity(d)
                 PROVE  \E v, w \in writes :
                          /\ v.identity = Identity(c) /\ v.user = user[c]
                          /\ w.identity = Identity(c) /\ w.user = user[d]
                          /\ v.call \notin before[w.call]
                          /\ w.call \notin before[v.call]
      BY DEF IndInv, OneUserPerIdentity
    <2>1. ASSUME NEW e \in Calls, pc[e] = "done", Linked(e)
          PROVE  \E w \in writes :
                   /\ w.identity = Identity(e) /\ w.user = user[e]
                   /\ before[w.call] = {}
      <3>1. CASE found[e] # None
        <4>1. Wrote(Identity(e), user[e])
          BY <2>1, <3>1 DEF LinkInv, CallLink
        <4> QED
          BY <4>1 DEF Wrote, LinkInv, WrittenLink
      <3>2. CASE found[e] = None
        <4>1. PICK w \in writes : w.call = e
          BY <2>1, <3>2 DEF Linked
        <4>2. WrittenLink(w)
          BY DEF LinkInv
        <4> QED
          BY <2>1, <4>1, <4>2 DEF WrittenLink
      <3> QED
        BY <3>1, <3>2
    <2>2. PICK v \in writes :
            v.identity = Identity(c) /\ v.user = user[c] /\ before[v.call] = {}
      BY <2>1
    <2>3. PICK w \in writes :
            w.identity = Identity(d) /\ w.user = user[d] /\ before[w.call] = {}
      BY <2>1
    <2> QED
      BY <2>2, <2>3
  <1> QED
    BY Invariance, <1>1, PTL

\* A withdrawn key is not served from the cache jwks_cache_ttl after its
\* withdrawal, whatever the delay of the answer that brought it, and a call
\* takes it from its own answer only if it asked before the withdrawal (jwks).
THEOREM KeysDie == Spec => []WithdrawnKeysDie
  <1>1. IndInv => WithdrawnKeysDie
    BY DEF IndInv, KeyInv, WithdrawnKeysDie, Signed
  <1> QED
    BY Invariance, <1>1, PTL

\* Forced refreshes of the key set are a cool-down apart, for any number of
\* racing calls (allow_forced_jwks_refresh).
THEOREM RefreshesSpaced == Spec => []ForcedRefreshesSpaced
  <1>1. IndInv => ForcedRefreshesSpaced
    BY DEF IndInv, ForcedInv
  <1> QED
    BY Invariance, <1>1, PTL
=============================================================================
