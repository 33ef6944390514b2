------------------------------- MODULE KeySet --------------------------------
(***************************************************************************)
(* The keys a resource server verifies access tokens with: the validator's *)
(* key choice (validator.rs), the fixed resolvers and the rotating key set *)
(* (keys.rs) a host keeps up to date while the issuer adds and withdraws   *)
(* keys.  A key is named by its key id; a JWKS document is a set of them.  *)
(***************************************************************************)
EXTENDS AssurancePolicy

CONSTANTS Kids,         \* key ids the issuer uses
          CacheTtl,     \* KeyRefreshPolicy::cache_ttl
          Cooldown,     \* KeyRefreshPolicy::unknown_kid_cooldown
          StalePolicy,  \* "Reject" or "UseStale"
          FetchTime,    \* the host's HTTP client gives up after this long
          MaxKeyTime    \* bound: the last instant looked at

ASSUME KeySetAssumption ==
  /\ CacheTtl \in Nat /\ Cooldown \in Nat /\ FetchTime \in Nat
  /\ MaxKeyTime \in Nat /\ StalePolicy \in {"Reject", "UseStale"}
  /\ Kids # {} /\ None \notin Kids \cup Nat

VARIABLES clock,      \* Clock::now
          published,  \* the document the issuer serves
          withdrawn,  \* when a key left it, None while it is there or unused
          set,        \* RotatingJwksState
          fetches,    \* documents on their way: [keys, sent, forced]
          accepted    \* the last token accepted: [kid, at]
keyVars == <<clock, published, withdrawn, set, fetches, accepted>>

(***************************************************************************)
(* Resolvers: the key and algorithm for a token's key id, or Refused.      *)
(***************************************************************************)
RS256(kid) == [kid |-> kid, alg |-> "RS256"]
StaticRs256Key(expected, kid) ==
  IF expected # None /\ kid # expected THEN Refused ELSE RS256(expected)
StaticHs256Key(expected, kid) ==
  IF None \notin {expected, kid} /\ kid # expected THEN Refused
  ELSE [kid |-> expected, alg |-> "HS256"]
StaticJwksKeySet(doc, kid) ==
  IF kid # None THEN IF kid \in doc THEN RS256(kid) ELSE Refused
  ELSE IF Cardinality(doc) = 1 THEN RS256(CHOOSE k \in doc : TRUE) ELSE Refused

\* Mutant: a document counts as fresh for one instant more.
is_stale_Late(s, now) == now - s.loaded_at > CacheTtl

is_stale(s, now) == now - s.loaded_at >= CacheTtl

\* RotatingJwksKeySet::resolve
resolve(s, kid, now) ==
  IF is_stale(s, now) /\ StalePolicy = "Reject" THEN Refused
  ELSE StaticJwksKeySet(s.keys, kid)

(***************************************************************************)
(* AccessTokenValidatorBuilder: b = [material, key_id, doc, accept_hs256,  *)
(* long_secret, algs], algs = {} when the host chooses none.  A custom     *)
(* resolver is taken as it is.                                             *)
(***************************************************************************)
resolver(b, kid) ==
  CASE b.material = "pem"    -> StaticRs256Key(b.key_id, kid)
    [] b.material = "jwks"   -> StaticJwksKeySet(b.doc, kid)
    [] b.material = "hs256"  -> StaticHs256Key(b.key_id, kid)
    [] b.material = "custom" -> StaticJwksKeySet(b.doc, kid)

build_key_resolver(b) ==
  /\ b.material # None
  /\ b.material = "jwks" => b.doc # {} /\ resolver(b, b.key_id) # Refused
  /\ b.material = "hs256" => b.accept_hs256 /\ b.long_secret

build(b) ==
  IF ~build_key_resolver(b) \/ ("HS256" \in b.algs /\ ~b.accept_hs256)
  THEN Refused
  ELSE [b EXCEPT !.algs = IF @ # {} THEN @
                          ELSE {IF b.material = "hs256" THEN "HS256" ELSE "RS256"}]

Family(alg) == IF alg = "HS256" THEN "HMAC" ELSE "RSA"

\* The signature library refuses a key whose family is not that of every
\* algorithm the configuration allows, and takes the header's algorithm.
signature_fits(key, algs) == \A alg \in algs : Family(alg) = Family(key.alg)

decode_config_for_token(v, header) ==
  LET key == resolver(v, header.kid)
  IN  IF /\ header.alg \in v.algs
         /\ v.key_id # None => header.kid = v.key_id
         /\ key # Refused /\ key.alg \in v.algs /\ signature_fits(key, v.algs)
      THEN key ELSE Refused

(***************************************************************************)
(* The rotating set.  The host starts a fetch on its own schedule or when  *)
(* a key id is unknown, and loads what it receives.                        *)
(***************************************************************************)
KeyInit ==
  /\ clock = 0 /\ accepted = None /\ fetches = {}
  /\ published = {CHOOSE k \in Kids : TRUE}
  /\ withdrawn = [k \in Kids |-> None]
  /\ set = [keys |-> published, loaded_at |-> 0, forced_at |-> None,
            in_flight |-> FALSE]

KeyTick ==
  /\ clock < MaxKeyTime
  /\ \A f \in fetches : clock < f.sent + FetchTime
  /\ clock' = clock + 1
  /\ UNCHANGED <<published, withdrawn, set, fetches, accepted>>

Publish(k) ==
  /\ k \notin published /\ withdrawn[k] = None
  /\ published' = published \cup {k}
  /\ UNCHANGED <<clock, withdrawn, set, fetches, accepted>>

Withdraw(k) ==
  /\ k \in published /\ published # {k}
  /\ published' = published \ {k}
  /\ withdrawn' = [withdrawn EXCEPT ![k] = clock]
  /\ UNCHANGED <<clock, set, fetches, accepted>>

Sent(forced) == fetches' = fetches \cup {[keys |-> published, sent |-> clock,
                                          forced |-> forced]}
Refresh ==
  /\ Cardinality(fetches) < 2
  /\ Sent(FALSE)
  /\ UNCHANGED <<clock, published, withdrawn, set, accepted>>

should_force_refresh_for_unknown_kid ==
  set.forced_at # None => clock - set.forced_at >= Cooldown

begin_forced_refresh(k) ==
  /\ resolve(set, k, clock) = Refused
  /\ should_force_refresh_for_unknown_kid /\ ~set.in_flight
  /\ Cardinality(fetches) < 2
  /\ set' = [set EXCEPT !.in_flight = TRUE, !.forced_at = clock]
  /\ Sent(TRUE)
  /\ UNCHANGED <<clock, published, withdrawn, accepted>>

replace_jwks(f) ==
  /\ fetches' = fetches \ {f}
  /\ set' = [set EXCEPT !.keys = f.keys, !.loaded_at = clock, !.in_flight = FALSE]
  /\ UNCHANGED <<clock, published, withdrawn, accepted>>

end_forced_refresh(f) ==
  /\ f.forced
  /\ fetches' = fetches \ {f}
  /\ set' = [set EXCEPT !.in_flight = FALSE]
  /\ UNCHANGED <<clock, published, withdrawn, accepted>>

\* A fetch fails, or its task is dropped before it can end the refresh.
DropFetch(f) ==
  /\ fetches' = fetches \ {f}
  /\ UNCHANGED <<clock, published, withdrawn, set, accepted>>

authenticate_access_token(k) ==
  /\ resolve(set, k, clock) # Refused
  /\ accepted' = [kid |-> k, at |-> clock]
  /\ UNCHANGED <<clock, published, withdrawn, set, fetches>>

KeyNext ==
  \/ KeyTick \/ Refresh
  \/ \E k \in Kids : \/ Publish(k) \/ Withdraw(k)
                     \/ begin_forced_refresh(k) \/ authenticate_access_token(k)
  \/ \E f \in fetches : replace_jwks(f) \/ end_forced_refresh(f) \/ DropFetch(f)
=============================================================================
