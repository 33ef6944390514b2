----------------------------- MODULE OidcLogin -----------------------------
(***************************************************************************)
(* Sign-in through an external provider: OidcProvider (oidc.rs) and        *)
(* OAuth2Provider (oauth2.rs) over one store of login states, the key-set  *)
(* cache that an OidcProvider shares between its calls, and the linking of *)
(* external identities to local users.  One step per await.                *)
(*                                                                         *)
(* The identity provider and the browser are the environment.  Nothing is  *)
(* assumed of them but the signature and PKCE: a callback may arrive twice, *)
(* at the other kind of provider, or with the code of another request, and *)
(* an ID token may name a key that was retired or never published.         *)
(***************************************************************************)
EXTENDS Integers

CONSTANTS
    Requests,   \* authorization requests; each has its own state, nonce, verifier
    Calls,      \* deliveries of a callback
    Subjects,   \* external identities
    Users,      \* local users
    None,
    StateTtl,   \* state_ttl
    JwksTtl,    \* jwks_cache_ttl
    Cooldown,   \* jwks_forced_refresh_cooldown, zero for no limit
    MaxKeys,    \* keys the provider signs with, one after the other
    MaxClock    \* bound of the clock

ASSUME ProviderAssumption ==
    /\ StateTtl \in Nat \ {0}
    /\ JwksTtl \in Nat \ {0}
    /\ Cooldown \in Nat
    /\ MaxKeys \in Nat \ {0}
    /\ MaxClock \in Nat
    /\ None \notin Users \cup Subjects \cup Requests \cup Int

VARIABLES
    clock,
    \* OAuthStateStore, a row for each request
    row,          \* "absent", "pending" or "consumed"
    kind,         \* the provider that wrote it: "oidc" or "oauth2"
    expires_at,
    \* the identity provider
    subject,      \* who signs in for a request
    key,          \* the key it publishes
    retired,      \* history: when a key was withdrawn
    \* OidcProvider
    jwks,                     \* jwks_cache: the cached key, 0 without a cache
    jwks_expires_at,
    last_forced_jwks_refresh, \* a time or None
    \* ExternalIdentityStore
    links,        \* the user an identity is linked to, or None
    writes,       \* history: the links written, and by which call
    before,       \* history: the calls that had linked the identity a call looks for
    \* the calls
    pc,
    via,          \* the provider the callback was delivered to
    state,        \* the request named by its state parameter
    code,         \* the request its authorization code belongs to
    now,          \* the clock as the call read it last
    kid,          \* the key its ID token names
    answer,       \* the key set the provider answered with, until it is stored
    forced,       \* when the call was allowed to force a refresh, or None
    fetched,      \* history: its key is from its own request, not from the cache
    found,        \* the link it found
    user          \* the user it signs in

store == <<row, kind, expires_at>>
idp == <<subject, key, retired>>
cache == <<jwks, jwks_expires_at, last_forced_jwks_refresh>>
input == <<via, state, code>>
account == <<links, writes, before>>
local == <<now, kid, answer, forced, fetched, found, user>>
vars == <<clock, store, idp, cache, account, pc, input, local>>

Keys == 1..MaxKeys
Ended == {"done", "profile", "rejected", "invalid", "expired", "unknown", "failed"}

Init ==
    /\ clock = 0
    /\ row = [r \in Requests |-> "absent"]
    /\ kind = [r \in Requests |-> None]
    /\ expires_at = [r \in Requests |-> 0]
    /\ subject \in [Requests -> Subjects]
    /\ key = 1
    /\ retired = [k \in Keys |-> None]
    /\ jwks = 0
    /\ jwks_expires_at = 0
    /\ last_forced_jwks_refresh = None
    /\ links = [s \in Subjects |-> None]
    /\ writes = {}
    /\ before = [c \in Calls |-> {}]
    /\ pc = [c \in Calls |-> "idle"]
    /\ via = [c \in Calls |-> None]
    /\ state = [c \in Calls |-> None]
    /\ code = [c \in Calls |-> None]
    /\ now = [c \in Calls |-> 0]
    /\ kid = [c \in Calls |-> 0]
    /\ answer = [c \in Calls |-> 0]
    /\ forced = [c \in Calls |-> None]
    /\ fetched = [c \in Calls |-> FALSE]
    /\ found = [c \in Calls |-> None]
    /\ user = [c \in Calls |-> None]

----------------------------------------------------------------------------
(* Authorization requests.                                                 *)

insert_oauth_state(r, k) ==
    /\ row[r] = "absent"
    /\ row' = [row EXCEPT ![r] = "pending"]
    /\ kind' = [kind EXCEPT ![r] = k]
    /\ expires_at' = [expires_at EXCEPT ![r] = clock + StateTtl]
    /\ UNCHANGED <<clock, idp, cache, account, pc, input, local>>

\* With a nonce: its presence is what marks a state as OIDC's.
OidcRequest(r) == insert_oauth_state(r, "oidc")

\* Without a nonce.
OAuth2Request(r) == insert_oauth_state(r, "oauth2")

\* The provider replaces its signing key.
Rotate ==
    /\ key < MaxKeys
    /\ key' = key + 1
    /\ retired' = [retired EXCEPT ![key] = clock]
    /\ UNCHANGED <<clock, store, subject, cache, account, pc, input, local>>

\* expire_oauth_states, run by the host.
Sweep ==
    /\ \E r \in Requests : row[r] = "pending" /\ expires_at[r] <= clock
    /\ row' = [r \in Requests |-> IF row[r] = "pending" /\ expires_at[r] <= clock
                                  THEN "consumed" ELSE row[r]]
    /\ UNCHANGED <<clock, kind, expires_at, idp, cache, account, pc, input, local>>

Tick ==
    /\ clock < MaxClock
    /\ clock' = clock + 1
    /\ UNCHANGED <<store, idp, cache, account, pc, input, local>>

----------------------------------------------------------------------------
(* The callback, up to the consumption of the state.                       *)

Goto(c, l) == pc' = [pc EXCEPT ![c] = l]

\* A callback with an error, without code or state, or in the wrong response
\* mode: returned before anything is touched.
Refuse(c) ==
    /\ pc[c] = "idle"
    /\ Goto(c, "rejected")
    /\ UNCHANGED <<clock, store, idp, cache, account, input, local>>

Begin(c, k, r, q) ==
    /\ pc[c] = "idle"
    /\ row[r] # "absent" /\ row[q] # "absent"
    /\ via' = [via EXCEPT ![c] = k]
    /\ state' = [state EXCEPT ![c] = r]
    /\ code' = [code EXCEPT ![c] = q]
    /\ now' = [now EXCEPT ![c] = clock]
    /\ Goto(c, "consume")
    /\ UNCHANGED <<clock, store, idp, cache, account, kid, answer, forced, fetched, found, user>>

\* Mutant: the store returns rows that are consumed already.
Consumable_Twice(r) == row[r] # "absent"

\* consume_oauth_state returns an unconsumed row and marks it.
Consumable(r) == row[r] = "pending"

\* The nonce tells the protocols apart when two providers share a name.
OwnState(c) == kind[state[c]] = via[c]

Consume(c) ==
    /\ pc[c] = "consume"
    /\ row' = IF Consumable(state[c]) THEN [row EXCEPT ![state[c]] = "consumed"] ELSE row
    /\ Goto(c, IF ~Consumable(state[c]) THEN "invalid"
               ELSE IF expires_at[state[c]] <= now[c] THEN "expired"
               ELSE IF ~OwnState(c) THEN "invalid"
               ELSE "exchange")
    /\ UNCHANGED <<clock, kind, expires_at, idp, cache, account, input, local>>

----------------------------------------------------------------------------
(* The code exchange and the ID token.                                     *)

\* The provider answers with an ID token of the code's request, under any key
\* that it has or had, or under an unknown one (0).
ExchangeOidc(c) ==
    /\ pc[c] = "exchange" /\ via[c] = "oidc"
    /\ \E k \in 0..key : kid' = [kid EXCEPT ![c] = k]
    /\ Goto(c, "jwks")
    /\ UNCHANGED <<clock, store, idp, cache, account, input, now, answer, forced, fetched, found, user>>

\* Without a nonce everything rests on the code verifier, which the provider
\* compares with the challenge of the code's request.
ExchangeOAuth2(c) ==
    /\ pc[c] = "exchange" /\ via[c] = "oauth2"
    /\ Goto(c, IF code[c] = state[c] THEN "userinfo" ELSE "rejected")
    /\ UNCHANGED <<clock, store, idp, cache, account, input, local>>

\* fetch_profile, with its optional second request for verified addresses.
Profile(c) ==
    /\ pc[c] = "userinfo"
    /\ Goto(c, "profile")
    /\ UNCHANGED <<clock, store, idp, cache, account, input, local>>

\* jwks(false): a cached key set serves until it expires.
Jwks(c) ==
    /\ pc[c] = "jwks"
    /\ now' = [now EXCEPT ![c] = clock]
    /\ Goto(c, IF jwks = 0 \/ jwks_expires_at <= clock THEN "fetch"
               ELSE IF jwks = kid[c] THEN "claims" ELSE "force")
    /\ UNCHANGED <<clock, store, idp, cache, account, input, kid, answer, forced, fetched, found, user>>

\* The provider answers with what it publishes now.
Fetch(c) ==
    /\ pc[c] = "fetch"
    /\ answer' = [answer EXCEPT ![c] = key]
    /\ Goto(c, "store")
    /\ UNCHANGED <<clock, store, idp, cache, account, input, now, kid, forced, fetched, found, user>>

\* Mutant: it counts from the arrival of the answer.
CacheExpiry_OnArrival(c) == clock + JwksTtl

\* The age of an entry counts from before the request.
CacheExpiry(c) == now[c] + JwksTtl

Store(c) ==
    /\ pc[c] = "store"
    /\ jwks' = answer[c]
    /\ jwks_expires_at' = CacheExpiry(c)
    /\ Goto(c, IF answer[c] = kid[c] THEN "claims"
               ELSE IF forced[c] = None THEN "force" ELSE "unknown")
    /\ answer' = [answer EXCEPT ![c] = 0]
    /\ fetched' = [fetched EXCEPT ![c] = TRUE]
    /\ UNCHANGED <<clock, store, idp, last_forced_jwks_refresh, account, input, now, kid, forced, found, user>>

\* allow_forced_jwks_refresh reads the clock before it takes the lock.
ReadClock(c) ==
    /\ pc[c] = "force"
    /\ now' = [now EXCEPT ![c] = clock]
    /\ Goto(c, "lock")
    /\ UNCHANGED <<clock, store, idp, cache, account, input, kid, answer, forced, fetched, found, user>>

\* Mutant: only refreshes at the same instant exclude each other.
Cool_SameInstant(c) ==
    \/ last_forced_jwks_refresh = None
    \/ now[c] > last_forced_jwks_refresh

Cool(c) ==
    \/ last_forced_jwks_refresh = None
    \/ now[c] >= last_forced_jwks_refresh + Cooldown

\* jwks(true) reads the clock again for the age of what it fetches.
Lock(c) ==
    /\ pc[c] = "lock"
    /\ IF Cooldown = 0 \/ Cool(c)
       THEN /\ last_forced_jwks_refresh' = IF Cooldown = 0 THEN last_forced_jwks_refresh
                                           ELSE now[c]
            /\ forced' = [forced EXCEPT ![c] = now[c]]
            /\ now' = [now EXCEPT ![c] = clock]
            /\ Goto(c, "fetch")
       ELSE /\ Goto(c, "unknown")
            /\ UNCHANGED <<last_forced_jwks_refresh, forced, now>>
    /\ UNCHANGED <<clock, store, idp, jwks, jwks_expires_at, account, input, kid, answer, fetched, found, user>>

\* Mutant: a token with some nonce will do.
NonceMatches_Present(c) == TRUE

\* validate_claims: the nonce must be the one of the consumed state.
NonceMatches(c) == code[c] = state[c]

Claims(c) ==
    /\ pc[c] = "claims"
    /\ Goto(c, IF NonceMatches(c) THEN "find" ELSE "rejected")
    /\ UNCHANGED <<clock, store, idp, cache, account, input, local>>

----------------------------------------------------------------------------
(* The local user.                                                         *)

Identity(c) == subject[code[c]]

\* The calls that have linked identity s.
Linkers(s) == {w.call : w \in {x \in writes : x.identity = s}}

find_external_identity(c) ==
    /\ pc[c] = "find"
    /\ found' = [found EXCEPT ![c] = links[Identity(c)]]
    /\ before' = [before EXCEPT ![c] = Linkers(Identity(c))]
    /\ Goto(c, "resolve")
    /\ UNCHANGED <<clock, store, idp, cache, links, writes, input, now, kid, answer, forced, fetched, user>>

\* Mutant: the provisioner may answer with any user.
Resolvable_Any(c, u) == TRUE

\* The host's provisioner answers with a user; it must be the linked one.
Resolvable(c, u) == found[c] \in {None, u}

\* A found identity gets its claims snapshot updated, which links nothing.
Resolve(c, u, link) ==
    /\ pc[c] = "resolve"
    /\ user' = [user EXCEPT ![c] = u]
    /\ Goto(c, IF ~Resolvable(c, u) THEN "rejected"
               ELSE IF found[c] = None /\ link THEN "link" ELSE "issue")
    /\ UNCHANGED <<clock, store, idp, cache, account, input, now, kid, answer, forced, fetched, found>>

\* The link was looked for an await ago.  A store that meets another link by
\* now replaces it, as the repository's own does, or has a unique key and
\* refuses.
link_external_identity(c) ==
    /\ pc[c] = "link"
    /\ \/ /\ links' = [links EXCEPT ![Identity(c)] = user[c]]
          /\ writes' = writes \cup {[call |-> c, identity |-> Identity(c), user |-> user[c]]}
          /\ Goto(c, "issue")
       \/ /\ links[Identity(c)] # None
          /\ Goto(c, "failed")
          /\ UNCHANGED <<links, writes>>
    /\ UNCHANGED <<clock, store, idp, cache, before, input, local>>

\* issue_session_for_user_with_metadata: the root token of a new family.
IssueSession(c) ==
    /\ pc[c] = "issue"
    /\ Goto(c, "done")
    /\ UNCHANGED <<clock, store, idp, cache, account, input, local>>

\* A store or the provider fails, or the call is dropped, at any await; what
\* it held is gone.
Fail(c) ==
    /\ pc[c] \notin Ended \cup {"idle"}
    /\ Goto(c, "failed")
    /\ now' = [now EXCEPT ![c] = 0]
    /\ kid' = [kid EXCEPT ![c] = 0]
    /\ answer' = [answer EXCEPT ![c] = 0]
    /\ fetched' = [fetched EXCEPT ![c] = FALSE]
    /\ found' = [found EXCEPT ![c] = None]
    /\ user' = [user EXCEPT ![c] = None]
    /\ via' = [via EXCEPT ![c] = None]
    /\ state' = [state EXCEPT ![c] = None]
    /\ code' = [code EXCEPT ![c] = None]
    /\ UNCHANGED <<clock, store, idp, cache, account, forced>>

Next ==
    \/ \E r \in Requests : OidcRequest(r) \/ OAuth2Request(r)
    \/ Rotate \/ Sweep \/ Tick
    \/ \E c \in Calls :
        \/ Refuse(c)
        \/ \E k \in {"oidc", "oauth2"}, r, q \in Requests : Begin(c, k, r, q)
        \/ Consume(c) \/ ExchangeOidc(c) \/ ExchangeOAuth2(c) \/ Profile(c)
        \/ Jwks(c) \/ Fetch(c) \/ Store(c) \/ ReadClock(c) \/ Lock(c) \/ Claims(c)
        \/ find_external_identity(c)
        \/ \E u \in Users, link \in BOOLEAN : Resolve(c, u, link)
        \/ link_external_identity(c) \/ IssueSession(c) \/ Fail(c)

Spec == Init /\ [][Next]_vars

----------------------------------------------------------------------------
(* Properties.                                                             *)

\* The values the variables can have.
TypeOK ==
    /\ clock \in Nat
    /\ row \in [Requests -> {"absent", "pending", "consumed"}]
    /\ kind \in [Requests -> {"oidc", "oauth2", None}]
    /\ expires_at \in [Requests -> Nat]
    /\ subject \in [Requests -> Subjects]
    /\ key \in Keys
    /\ retired \in [Keys -> Nat \cup {None}]
    /\ jwks \in Keys \cup {0}
    /\ jwks_expires_at \in Nat
    /\ last_forced_jwks_refresh \in Nat \cup {None}
    /\ links \in [Subjects -> Users \cup {None}]
    /\ writes \subseteq [call: Calls, identity: Subjects, user: Users]
    /\ before \in [Calls -> SUBSET Calls]
    /\ pc \in [Calls -> Ended \cup {"idle", "consume", "exchange", "userinfo", "jwks",
                                    "fetch", "store", "force", "lock", "claims",
                                    "find", "resolve", "link", "issue"}]
    /\ via \in [Calls -> {"oidc", "oauth2", None}]
    /\ state \in [Calls -> Requests \cup {None}]
    /\ code \in [Calls -> Requests \cup {None}]
    /\ now \in [Calls -> Nat]
    /\ kid \in [Calls -> Keys \cup {0}]
    /\ answer \in [Calls -> Keys \cup {0}]
    /\ forced \in [Calls -> Nat \cup {None}]
    /\ fetched \in [Calls -> BOOLEAN]
    /\ found \in [Calls -> Users \cup {None}]
    /\ user \in [Calls -> Users \cup {None}]

Accepted(c) == pc[c] \in {"done", "profile"}

\* However often a callback is delivered, and to whichever provider, its state
\* admits one acceptance, by the provider that wrote the state
\* (handle_callback_in_mode, OAuth2Provider::handle_callback).
OneLoginPerState ==
    \A c \in Calls : Accepted(c) =>
        /\ kind[state[c]] = via[c]
        /\ \A d \in Calls : Accepted(d) /\ state[d] = state[c] => c = d

\* A sign-in is for the person who signed in for the request whose state it
\* spent, even when the callback carries the code of another request
\* (validate_claims).
SignInBelongsToRequest ==
    \A c \in Calls : Accepted(c) => Identity(c) = subject[state[c]]

\* A sign-in that rests on a link: it found one or wrote one.
Linked(c) == found[c] # None \/ \E w \in writes : w.call = c

\* Two finished sign-ins of one linked identity are for different users only
\* after a race of first sign-ins: two calls linked it, to these two users, and
\* neither link was there when the other call looked.  That gap between look
\* and link is the store's to close; no other course of sign-ins, of link
\* updates and of the provisioner's answers splits an identity
\* (login_with_callback_in_mode).
OneUserPerIdentity ==
    \A c, d \in Calls :
        /\ pc[c] = "done" /\ pc[d] = "done"
        /\ Linked(c) /\ Linked(d)
        /\ Identity(c) = Identity(d)
        /\ user[c] # user[d]
        => \E v, w \in writes :
             /\ v.identity = Identity(c) /\ v.user = user[c]
             /\ w.identity = Identity(c) /\ w.user = user[d]
             /\ v.call \notin before[w.call] /\ w.call \notin before[v.call]

\* A withdrawn key is accepted in two ways only.  From the cache, less than
\* jwks_cache_ttl after the withdrawal, however long the answer that filled the
\* cache was on its way; now[c] is then the time of acceptance.  Or by a call
\* from the answer to its own request, which it made before the withdrawal: it
\* accepts on arrival, without a look at the age of the answer, so that only
\* the HTTP client's timeout bounds when (jwks).
WithdrawnKeysDie ==
    \A c \in Calls :
        pc[c] \in {"claims", "find", "resolve", "link", "issue", "done"} =>
            \/ retired[kid[c]] = None
            \/ ~fetched[c] /\ now[c] < retired[kid[c]] + JwksTtl
            \/ fetched[c] /\ now[c] <= retired[kid[c]]

\* Tokens with unknown key IDs, however many calls bring them at once, force
\* the provider to be asked once per cool-down (allow_forced_jwks_refresh).
ForcedRefreshesSpaced ==
    \A c, d \in Calls :
        c # d /\ forced[c] # None /\ forced[d] # None =>
            \/ forced[c] >= forced[d] + Cooldown
            \/ forced[d] >= forced[c] + Cooldown
============================================================================
