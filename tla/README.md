# A TLA+ model of agql-auth

agql-auth is a Rust library of authentication primitives. A host application
brings its own database behind storage traits; the library brings the protocols
that run over it. Almost everything that can go wrong is therefore a matter of
*interleaving*: each operation is an async function that reads a record, awaits
something else (another store, a password worker, a clock), and then acts on
what it read, while other calls, other processes and the host change the same
records. The modules here model those protocols with one step per await.

Source paths below are relative to `src/` of the repository.

## Inventory

| Component | Source | State | Operations | Talks to |
|---|---|---|---|---|
| Refresh rotation, logout | `service.rs` | refresh-token records: family, expiry, revoked_at, replaced_by, grants, assurance | login issues; refresh, step_up_session, logout, logout of a family | refresh store, user store, grant authority, observer |
| Reuse grace | `refresh_reuse_grace.rs` | none of its own; reads the chain | superseded_within, can_replace_newest, audit event | rotation |
| Abuse protection | `service.rs`, `models.rs`, `config.rs` | versioned counters per flow and bucket: attempts, window start, backoff, lockout, expiry | reject_if_rate_limited, record (compare-and-swap loop), clear, request admission | rate-limit store, every credential flow |
| Password login | `service.rs` | none | gate, find user, verify, clear or record, find the user again, issue | counters, pool, user store, rotation |
| In-memory counter store | `memory_rate_limit.rs` | entries and an expiry index under one mutex, a capacity | find, compare_exchange, clear, purge | abuse protection |
| Password pool | `password_work.rs` | a bounded channel, a mutex around its receiver, worker threads | execute, worker loop, spawn | login, challenges, resets |
| Login challenges | `service/challenge.rs` | attempts and consumed_at of a one-time code | create, verify | challenge store, counters, pool |
| Password reset | `service/password_reset.rs` | IDs of one-time reset tokens, issued and consumed | issue, authenticate (signature, purpose, expiry), consume; changing the password and revoking sessions is the host's | reset store, counters |
| TOTP | `service/totp.rs` | the used (principal, factor, step) triples | verify, verify with limits, verify once; secrets and enrolment are the host's | replay store, counters |
| OIDC, OAuth2 | `oidc.rs`, `oidc_authorization.rs`, `oauth2.rs` | one-time login state, cached discovery document and JWKS, cool-down of forced refreshes | authorization request, callback, login with linking | state store, identity provider, link store |
| Delegation | `service.rs`, `service/fixed_audience.rs` | none; holds a parent session over awaits | prepare, revalidate, issue | refresh store, status checks |
| Token status | `token_status.rs`, `principal_reference.rs` | deadlines | revalidate, next_deadline | user and session stores |
| Assurance | `assurance.rs`, `session.rs` | policy, time and method of authentication | evaluate | rotation (step-up), guards |
| API tokens | `api_tokens.rs` | hashed tokens | issue, authenticate, revoke | API-token store |
| Scopes, roles, grants | `scope_match.rs`, `role_scope.rs`, `grant.rs`, `purpose_grant.rs` | none | match, expand, decide | guards |
| JWT | `claims.rs`, `token_decode.rs`, `validator.rs`, `keys.rs` | a cached key set, its age and a forced refresh in flight | issue, validate, replace the key set | everything |
| Client authentication | `client_auth.rs` | none | choose and sign a client credential | OIDC, OAuth2 |
| GraphQL glue | `graphql.rs`, `channel.rs`, `combined.rs`, `guards.rs` | none | inject a principal, guard a field | host |

Which behaviour is hard, and what makes a component correct:

* **Rotation.** Two refreshes that hold the same token race for one
  compare-and-swap. Without the grace the loser is a thief; with it the loser
  gets the successor's place in the chain. Correct means: one live token per
  family, one linear chain, no widening of grants, a reported replay ends the
  family for good, and nobody is called a thief for losing a race.
* **Abuse protection.** A failure is read, computed and written back against a
  revision; a success clears what it saw when it was admitted. Correct means: no
  failure is lost, none is cleared unseen, racing requests do not share one
  admission, a store that fails half way is not reported as a charge.
* **Login.** The user may be disabled or given another password while Argon2
  waits in a queue; the session must rest on the user as it is then.
* **Counter store.** Every update moves a key in the expiry index; a stale index
  entry would evict a live lockout.
* **Pool.** Panics, dropped callers, slow jobs and threads that do not start
  must neither lose a worker, nor refund a place, nor leave a caller waiting.
* **Challenges.** Attempts are admitted before the code is compared. Correct
  means: the budget is exact under concurrency, one acceptance, no charge for a
  full pool or a late answer.
* **One-time credentials.** A reset token or a TOTP step is validated, then spent
  in another await. Correct means: one acceptance per token and step, only of a
  credential that is in force, every rejection charged to the right key.
* **External sign-in.** Browser, provider and key set are on the far side of a
  network: callbacks come twice or with another request's code, keys rotate,
  answers are late. Correct means: one sign-in per state and by the person who
  signed in for it, one user per identity, withdrawn keys die, the provider is
  not asked more often than the cool-down allows.
* **Delegation and re-checks.** The parent session changes between any two
  awaits. Correct means: the token is one that the session could have granted
  during the call, a re-check leaves what a current record allows, a connection
  does not outlive token or session by more than the policy says.
* **Decisions.** Scope matching, role catalogues, assurance, the six kinds of
  tokens that one key signs, the sign-in policy, client JWTs and provider
  profiles are decided by pure code, in one place when something is issued and
  in another when it is used. Correct means that the two places agree.

`PROJECT.json` lists each of these hazards at its line, with the properties that
watch it.

## Modules

| Module | Models | Proofs |
|---|---|---|
| `RefreshRotation` | refresh, step_up_session, logout, reuse grace | `RefreshRotationProofs` |
| `SessionFamily` | abstract: what rotation promises of a family | refinement in `RefreshRotationProofs` |
| `RateLimit` | counters, password login, request admission | `RateLimitProofs` |
| `MemoryRateLimitStore` | the in-memory counter store | `MemoryRateLimitStoreProofs` |
| `CounterStore` | abstract: what AuthRateLimitStore promises | refinement in `MemoryRateLimitStoreProofs` |
| `PasswordWork` | the worker pool | last section of `RateLimitProofs` |
| `LoginChallenge` | one-time login codes | `LoginChallengeProofs` |
| `Credentials` | reset tokens, TOTP steps, API tokens | `CredentialsProofs` |
| `OidcLogin` | callbacks, key-set cache, linking for OIDC and OAuth2 | `OidcLoginProofs` |
| `Delegation` | delegated tokens, sensitive re-checks, connections | `DelegationProofs` |
| `ScopeMatching` | scope patterns, role catalogues, guards | `AccessProofs` |
| `AssurancePolicy` | session assurance, its evaluation, step-up | `AccessProofs` |
| `TokenKinds` | claims of the issuers, checks of the readers | `AccessProofs` |
| `OidcPolicy` | sign-in options, stored policy, ID-token claims | `AccessProofs` |
| `ProviderConfig` | provider configuration, client JWTs, profiles | `AccessProofs` |
| `KeySet` | key resolvers and the refreshed key set | `AccessProofs` |
| `Access` | composes the six: one decision per behaviour, and the life of a key set | `AccessProofs` |

`MC*` modules instantiate them for TLC and hold nothing but constants,
symmetry sets and, in `MCAccess`, the inputs that are tried. Operators named `X_Something` with a comment *Mutant* are faulty
variants of `X`: each property is known to fail when the variant takes the place
of the original. They are not used otherwise.

### How calls are modelled

A call is a process. `pc[c]` says which await it is at, or its result; other
functions of `c` hold its local variables. One step performs one store operation
(or reads the clock, or gets the answer of the pool) together with the purely
local code up to the next await. `Fail` ends a call at any await: a store error,
a dropped future, or a crash of the process. Whatever the call had stored stays.
So a crash between two writes needs no action of its own.

Stores are the reference implementations of the test suite (`src/tests.rs`) or
the documented contract of the trait (`stores.rs`), as atomic operations. They
are the environment; where a trait leaves a choice, it is a constant
(`LiveReads`, `Overwrites` in `RefreshRotation`) or nondeterministic (`Reclaim`
in `RateLimit`, `Delete` in `LoginChallenge`).

### RefreshRotation

`tokens` is the refresh store. `seen[c]` is the record the call read and
`attempt[c]` the replacement it prepares: `newest`, narrowed `grants`, the number
of `retries`. `find` to `rotate` are the awaits of `rotate_session`; `grace`,
`live` and `reread` those of `reissue_within_reuse_grace`; `observe` the observer.
`RotateWon` and `RotateLost` are the two answers of `rotate_refresh_token`. The
root token of a family is named by the family and a call's token by the call, as
a call commits at most one. Roles, scopes and authorization roles appear as one set
of grants, as each is kept only if the presented token, the newest one and current
authority have it. That authority is the user record, or the host's
`RefreshGrantAuthority`, for roles and scopes; for authorization roles it is the
`AdditionalTokenRolesProvider` that `issue_tokens_only` asks, without which a
replacement has none (`service.rs:1625`). Instances may have clocks that differ by
`Skew`. History variables: `witness` (users in force during a call), `audit`.

### RateLimit

`store` maps keys to snapshots of a state and a revision; revisions are fresh.
`next_rate_limit_state`, `Control` and `backoff_duration` are the arithmetic of
one counter. `todo` is the rest of the loop over the keys, `permit` the revisions
that `reject_if_rate_limited` saw. The compare-and-swap loop is `RecordRead`,
then `CasWon` or `CasLost`, at most `MaxTries` times. `counted`, `known` and
`charged` are histories: which attempts a stored count stands for, which ones a
permit had seen, which keys an attempt was written to.

The session that `IssueSession` opens is the root token of `RefreshRotation`
(action `Issue`); the counter store that it uses is the one `MemoryRateLimitStore`
is shown to implement.

### MemoryRateLimitStore

Each operation takes the mutex, reads the clock, purges and works, so it is one
step. The clock moves to any time, also back, and may panic under the mutex,
which poisons it: afterwards every operation answers *unavailable*. An absent
bucket of the index is an empty one. Of a counter only revision and expiry are
kept.

### PasswordWork

`queue` is the channel, `lock` the receiver's mutex. A worker locks, waits in
`recv` with the lock held, releases it and runs the job. A job ends with a result
or a panic. `Cancel` drops the caller and leaves the job. `Spawn` and
`SpawnFails` are `with_spawner`: when a thread cannot be started the sender is
dropped and the workers that exist must leave.

### LoginChallenge

`row`, `attempts`, `consumed_at` and `expires_at` are columns of the challenge
table. The copy found first is `seen` and `spent`; `reserved` is the count that
the reservation returned. `Plausible` is the comparison of that snapshot with
the first copy, by which the code detects a broken store. The two gates are
`RateLimit`'s and only admit or refuse here; `charged` says who recorded a failed
attempt. Fields that never change are not copied, which makes
`same_challenge_definition` true by the store's contract.

### Credentials

`reset`, `api`, `revoked_at`, `last_used_at`, `expires_at` and `used` are the
three stores. A call of any kind goes from `gate` (or `find`, for an API token)
over `consume` to `clear` or `record`. The gates are `RateLimit`'s and admit here;
a refusal is `Fail`. `client` says whether the caller gave the address of its
client: `consume_password_reset_token` and `verify_totp_code_for_principal` without
metadata have none, and then `rate_limit_keys` has no key for one. A factor that
cannot be used (a malformed secret or an impossible configuration) ends the call
as `unusable`, which is not charged. A time step has the code `step % Codes`, so that with two
codes the code of one step comes again inside the skew window, as six digits
rarely do; `Matching` takes the earliest step as the code does. The kind `plain`
is `verify_totp_code_for_principal`, which has no replay store. A signed reset
token that was never recorded can be presented too. `spender` and `charged` are
histories.

### OidcLogin

A request is its state, nonce and PKCE verifier. `row`, `kind` and `expires_at`
are the state store; a nonce in the row is what tells the two providers apart,
and two providers may share a name, so a callback can reach either. `Begin` takes
the state of one request and the code of another. For OIDC the provider hands out
tokens for any code and the nonce must stop the mix-up; for OAuth2 it is PKCE, as
there is no nonce. `Jwks`, `Fetch`, `Store`, `ReadClock` and `Lock` are
`decode_id_token` with the cache and the mutex of forced refreshes; an answer may
be stored long after it was given, and `fetched` says that a call verified with the
answer to its own request. `Resolve` is the host's resolver: an existing
or a new user, linked or not. `link_external_identity` replaces the link of an
identity, as the repository's `MemoryExternalIdentityStore` does, or refuses a second
one, as `docs/storage-traits.md:280` recommends; `stores.rs:333` leaves the choice to
the host. `writes` and `before` are histories: which call linked what, and which
calls had linked before a call looked. Refusals that need no store (response mode,
provider errors, a missing code) are `Refuse`. The discovery document is constant.
`IssueSession` is `Issue` of `RefreshRotation`.

### Delegation

`session` is the host's authoritative record of session and user. `Prepare` to
`PrepareEnabled` and `Issue` to `Sign` are the awaits of the two calls, directly
or through the fixed-audience facade (`path`); the facade alone reads the user
record. The clock has `Second` ticks in a second and `exp` whole seconds, so that
truncation is visible. `Revalidate`, `CheckStatus` and `Narrow` are
`revalidate_sensitive_principal`; a failing checker or resolver and another
`active_scope` than the token's deny. `Open` and `CheckConnection` are a host's loop
over `ReauthorizationPolicy`: it checks when the deadline has come and closes at
`max_connection_ttl`. `AlwaysActiveTokenStatus`, for hosts without a revocation store,
behaves as a checker that always fails does under `FailOpen`. Refusals of malformed requests are `Abort`. `seen` and
`watched` are the records in force during a call. Delegations share nothing but
the parent, so one is enough.

### Access and its parts

Here the code is pure, so each behaviour is an input, a *probe*, and `Decide`
gives the answer, a record of everything the code would tell its callers.
Properties relate the answers of two places, never an answer to itself. `KeyNext`
runs the key set of `keys.rs` as a state machine: keys are published and
withdrawn, documents are fetched, arrive late or never, forced refreshes begin
and end.

* `ScopeMatching`. Scopes are sequences of characters, as matching is by raw
  prefix: `a.*` must not match `ab`. `split` names its segments by position (the
  n-th one starts behind the n-th cut), which is what the proofs reason about;
  likewise `dedupe_stable` keeps the n-th first occurrence. `delegable` is what a session may pass on;
  the parent session carries no bindings to an actor or resource. `binding_valid`
  and `expand_roles` are the signed catalogue; its size limits and display names
  are left out.
* `AssurancePolicy`. Times have a sub-second part, which claims lose.
* `TokenKinds`. A token is a function from claims to values. `issue` has the six
  issuers, the readers are the service, the fixed-audience facade, a remote
  validator, purpose and reset tokens. Issuer and signature are constant: all
  tokens come from one service. Purpose tokens carry a `sid` here. The lifetime
  of a session token is not compared with the maximum; only requests without a
  session are. What `valid_scope_set` refuses besides (scopes longer than 512
  characters or with characters outside RFC 6749) and the same rules for
  authorization roles are left out: writer and reader share the function.
* `OidcPolicy`, `ProviderConfig`. Values and sizes are abstracted to counts.
  An ID token never carries a placeholder as its tenant. `exp` and `nbf` of an ID
  token are checked by the JWT library. A state stored by an older release has no
  policy, and its tokens are asked for nothing; the runs and proofs are about states
  that have one.
* `KeySet`. An allowlist with algorithms of two families verifies nothing, as the
  signature library does not mix them (external). Inside a family the library takes
  the header's algorithm: a validator that allows RS384 verifies it with a key that
  was resolved for RS256, though `keys.rs:20` calls that *the* algorithm the key may be
  used with.

## Runs

| Run | Shows | Bounds |
|---|---|---|
| `refresh_rotation` | one live token, ended families stay ended, races are not replays, windows do not move, a commit matches what was presented, no widening, authority not older than the call, every step of a call brings it closer to its return; implements `SessionFamily` | 3 calls, 1 family, 1 retry; on one side refreshes and at most one call of each other kind, time 0..3 with window 2 and ttl 3; on the other refreshes at one instant, 1 grant, 2 changes to the user, all grant sources |
| `ratelimit_counters` | no failure lost, none cleared unseen, who is charged, session on the current user, bounded bursts | 2 logins or requests over principal, client and reset keys, 2 changes to the user, time through window, backoff and lockout |
| `ratelimit_lockout` | *violation*, see below | 3 logins, one key |
| `memory_rate_limit_store` | implements `CounterStore` | 3 keys, 2 places, 2 revisions, 3 times |
| `password_work` | every job ends, places stay charged, failed pools vanish | 2 workers, 2 queue places, 5 calls, 1 job that never ends |
| `login_challenge` | one acceptance, exact budget, fair charges, right codes | 3 calls for 2 attempts, expiry at 2 |
| `oidc_login` | one login per state, for the right person, one user per identity but for overlapping links, when withdrawn keys are still accepted, spaced refreshes | 2 callbacks, 2 requests, 2 identities, 2 users, 2 keys, time 0..2 |
| `delegation` | tokens from a live session, current re-checks, connections that close | 2 grants, 2 versions, 2 host changes, time 0..7, half-second ticks, 5 policies |
| `credentials` | accepted once, while valid, who pays for a rejection | 3 calls of one kind of credential, with or without a client address, 1 reset token, 1 API token, 2 codes, skew 1, time 0..4 |
| `access_decisions` | eight agreements between issuers and readers, see `Access` | the inputs of `MCAccess` |
| `step_up_recent_mfa` | *violation*, see below | step-ups at all sub-second offsets |
| `delegation_amplifies` | *violation*, see below | the documented super-scope matcher, 3 sessions, 4 requests |

The bounds are chosen so that each hazard needs fewer actors than there are. A
race over a token needs two calls and the reuse that repairs it a third; a budget
of two needs three calls to be exceeded; one slow job and two panics take out two
workers if they can; races over a state, a link, a cool-down, a counter or a
credential need two calls. `NoWidening` needs two changes to the user: a grant is
lost, a token without it issued, the grant regained. Times reach past every window
and expiry of the instance. With `MaxRetries = 1` the retry limit itself is met.
In `MCAccess` each family of inputs has the values on both sides of every
comparison the code makes.

`refresh_rotation` has two sides (`SideNext` in `MCRefreshRotation`), because the
product of time and grants is out of TLC's reach: `TimeSide` lets time pass over
sessions without grants, `GrantSide` changes grants and users at one instant. Each
side takes the actions of `Next` unchanged, and the theorems are about all of it.
In the same way `credentials` looks at one of the three stores at a time
(`SideNext` in `MCCredentials`): they share no state.

Deadlock is not checked where every call may have returned: the instances are
finite. It is checked for `memory_rate_limit_store`, which never stops.

### Fairness

`FairSpec` of `PasswordWork` assumes that a free mutex goes to *some* waiting
worker (not to each: std's mutex is not fair), that a worker that can receive
does, and that a job that is not in `Slow` ends, as Argon2 does. Submitting and
cancelling are never assumed.

Rotation needs no fairness to be shown to end: `CallsAdvance` says that `AwaitsLeft`,
the number of awaits a call can still meet, falls at every step of the call and
never rises at a step of another. An executor that polls a woken task and store
calls that return then give termination, also for a call that loses every race:
the retry limit pays for it.

### What the code does otherwise than documented

`ratelimit_lockout`: a lockout can end before `lockout_duration`. A failure that
was admitted before the lockout and is recorded after the counting window has
ended restarts the window: `next_rate_limit_state` does not look at
`locked_until` before it resets. With a lockout as long as the window, as in
the default policy, one slow login is enough. `config.rs:294` and
`docs/abuse-protection.md:56` say otherwise. `NoFailureLost` allows it: the
failure is counted, in the new window.

`step_up_recent_mfa`: after a step-up, a recent-MFA policy can stay unsatisfied.
The evaluation compares `auth_time`, which a token has in whole seconds, with
`authenticated_at` of the session, which keeps its sub-second part
(`assurance.rs:630`); only a step-up in the first instant of a second passes. The
tests use whole seconds. `docs/session-assurance.md` promises the contrary.

`delegation_amplifies`: a delegated token can open more than the session it comes
from. `validate_session_bound_current_authority` (`service.rs:1523`) asks whether the
session's scopes satisfy each requested scope, and a super-scope is a requirement
like any other there. With the configuration that `README.md:150` and
`docs/scope-matching.md:112` show, a session that holds `platform.*` satisfies
`platform.admin`; a token that carries `platform.admin` satisfies everything. Declaring
the super-scope exact-only closes this. `docs/access-token-only.md:134` promises a
subset of the current authority. The second way needs no super-scope. What stands
before a trailing wildcard is compared as raw text, so in `a.*.*` the first `*` is a
plain character: the scope grants `a.*.a` and not `a.b.a`. In `a.*.a`, which such a
session may therefore delegate, the same `*` is a middle wildcard, and the guards
open `a.b.a` to the delegate. `NoAmplification` says that there is no third way.

Remarks without a run. `token_status.rs:68` calls `min_interval` a minimum; the code
takes the earliest of it, the fraction and the expiry, so it is a maximum between
two checks. `docs/key-rotation.md` calls `UseStale` the default and
`KeyRefreshPolicy::default` is `Reject`. Between looking up a link and writing it
nothing holds two sign-ins of one identity apart (`oidc.rs:829`): with a store that
replaces, both end with a session, of two users. `OneUserPerIdentity` says that only
calls whose links overlap in this way can differ. The answer to a JWKS request is
accepted whatever its age (`oidc.rs:1037`): a call that asked before a key was
withdrawn verifies with it when the answer arrives, so the host's HTTP client, which
`oidc.rs:64` makes responsible for timeouts, bounds how late that is;
`WithdrawnKeysDie` bounds every other use by the cache time. An invalid reset token
presented without client metadata costs nobody an attempt (`password_reset.rs:136`).

## Proofs

The theorems hold for every number of calls, families, keys, challenges, users
and grants, and every value of windows, lifetimes and limits that the named
assumptions of the modules allow. These say what the code's configuration checks
and types enforce, and no more:

* lifetimes and periods are positive, limits and skews natural numbers;
  `PolicyAssumption` is `AuthRateLimitPolicy::validate` and the range of a `u32`;
* an absent option (`None`) and an error (`Refused`) are not values, and
  identifiers of different kinds differ;
* calls are finitely many where they are counted (`RateLimit`, `LoginChallenge`);
* the keys of one attempt differ, and a login and a request for admission, being
  different flows, have different keys (`ModelAssumption`);
* the inputs put to a decision have the types of the code (`ProbesAssumption`):
  times are integers, lists are sequences, an audience set is finite, an issuer
  has a tenant, a token request has one of the six issuers, a record has its
  fields. `Texts` stands for the strings a client JWT can hold and `Chars` for the
  characters of a scope, the space among them, as the provers do not know
  `STRING`; scopes and wildcards are any sequences of characters, of any length.

Every inductive invariant below was checked by TLC on the run of its component
before it was proved.

* **RefreshRotationProofs.** `OneLive`, `Chain`, `Narrowing`, `Ended`,
  `ReplayJustified`, `WindowFixed`, `TypeCorrect` and `Refinement` (implements
  `SessionFamily`). None of these is inductive: a call about to swap says nothing
  by itself about what the store holds by then. `IndInv` adds `CallsInv`, which
  relates a call's copies to the store at each await (an unrevoked copy has the
  immutable fields of its record; the newest token of a reuse was live and in the
  same family; a call that has not committed has no token), and `RootInv`.
  Everything then follows from the compare in `rotate_refresh_token`: the record
  swapped out is live at that moment.
  `Advances` needs no invariant beyond this one: `AwaitsLeft` falls at each await,
  and the retry counter pays for the loop. `CommitMatches` and `CurrentAuthority`
  add, for each call, what its copies say of the presented token inside the reuse
  loop (`WindowInv`) and which records of the user it has witnessed
  (`WitnessInv`); `WindowFixed` carries a window that was open when it was read to
  the commit. `RaceTolerated` is about executions of refreshes and step-ups alone.
  There a revoked token has a successor and was revoked at a time the clock has
  shown, and each family has a live token (`QuietInv`), so whoever loses a race
  finds a window that is open and a newest token.
* **RateLimitProofs.** `NoneLost`, `Charged`, `SessionCurrent`, `BurstBounded`,
  `ClearsOnlySeen`. The argument is in the revisions, which are never handed out
  twice: a snapshot or a permit whose revision is still the stored one *is* what
  is stored (`SnapOf`, `PermitOf`). So a swap that wins adds one call to the set it
  counted, and a clear removes what its permit knew. `ChargeOf` says that the keys
  charged and the keys to do make up the request. `BurstInv` is what makes racing
  admissions safe: once a request of this moment is charged to a key, the key's
  state outlives the moment, counts at least as many attempts as there are such
  requests, and with the last one admitted shuts the others out. It needs that
  the two flows have keys of their own, as a login would clear the count. The last
  section is about the pool that a login waits for: `PoolSafe`, the bound of the
  queue and the mutual exclusion in `recv`, and from it `PoolCharged`
  (`StaysCharged`). Only a worker that runs holds a job, so that taking one up never
  overwrites another.
* **MemoryRateLimitStoreProofs.** `IndexExact`, `CapacityKept` and `Implements`.
  The invariant `StateOK` is a property of the two maps; `purge_expired`,
  `remove` and `insert` each keep it, as functions. It says that the index is
  exact, and that the stored keys are finite, without which their number means
  nothing. The refinement needs the exact index: a purge removes what the index
  names, and only exactness makes that expired entries and nothing else. The
  clock is unconstrained.
* **LoginChallengeProofs.** `SingleUse`, `Budget`, `Charges`, `RightCode`,
  `Final`. `IndInv` has a part for each question: who is admitted (`AdmittedInv`),
  the count as the size of that set (`BudgetInv`), the first copy never ahead of
  the store, hence every reservation plausible (`SeenInv`), rows deleted only
  after expiry (`RowInv`), the worker's answer (`WorkInv`), who consumed a
  challenge (`SpenderInv`), and how calls end (`OutcomeInv`). `RowInv` is what
  makes a refused consumption mean a replay: a row that is gone had expired, and
  the clock is looked at first.
* **CredentialsProofs.** `SingleUse`, `InForce`, `Charges`. `SpenderInv` ties the
  history of who spent what to the two stores: a credential has a spender exactly
  when its store says spent, and the spender is past its consumption. `ValidInv`
  carries the decision of a call over the awaits that follow; it holds because an
  issued token keeps its expiry and a revocation is stamped with a later time. That
  the matching step is inside the window rests on the least element of a set of
  steps, which the library's well-founded orders provide.
* **OidcLoginProofs.** `OneLogin`, `RightPerson`, `OneUser`, `KeysDie`,
  `RefreshesSpaced`. `SpentInv`: of the calls past `Consume` each has a state of its
  own; `LinkInv`: a link was written by some call, and whoever writes one had looked
  before there was any. `KeyInv` bounds the age of what the
  cache and every answer on its way say of a withdrawn key, since an expiry is
  computed from the time read *before* the request was sent. `ForcedInv`: no forced
  refresh is later than the one remembered under the mutex, so the next one is a
  cool-down after all of them.
* **DelegationProofs.** `LiveSession`, `Revalidation`, `ClosesInTime`. `TokenInv`
  names, for each await of the issuing call, a record in force during the call
  that grants the request; `ConnectionInv` bounds the next check by the last one
  and says that a check after the revocation leaves no connection open.
* **AccessProofs.** `KeyDies` by `KeyInv`: a document on its way was served at most
  `FetchTime` ago, and the loaded set within `FetchTime` of its loading. The others
  are about single decisions: `Decided` says that a verdict is the answer to its
  probe, and then `CatalogueClosed`, `SatisfiedUntil`, `JwtUsable`, `EmailVouched`
  and `PolicyEnforced` are facts about the operators, for every input the types
  admit. Most of their work is rounding: times truncated to seconds on one side
  and not on the other (`RoundedDown`, `AgeBound`, `SignedJwt`).
  `NotAmplified` shows `NoAmplification` for every matcher and every wildcard text,
  also one that holds the separator: whatever a guard opens to the delegate alone is
  owed to one of the two kinds of scopes in `Amplifies`. Its core is `HierarchyTransitive`: two matches
  in a row are one match, if the first scope has no wildcard before a trailing one. A
  scope with a trailing wildcard keeps its prefix through
  the second match (`PrefixKept`: the segments before the first wildcard are equal,
  hence the characters are) and, without `multi`, keeps its rest a single segment
  (`LastKept`); a scope matched segment by segment never matches one with a trailing
  wildcard unless it ends with the wildcard itself (`TrailingKept`). Underneath are
  facts on `split`: every rank is taken once (`RankIsTaken`, `RankIsUnique`), and a
  segment is what stands between a cut and the next one (`SegmentAt`).
  `AcceptedAlways` shows `AcceptedAsIssued`. `AccessToken` and `IssuedPurpose` say
  what a token says of itself: as reserved names are refused, no claim of the host
  hides one the issuer sealed, whatever the order of flattening. Readers are then
  told apart by type, purpose and audience, the lifetime is rounding again
  (`NotExpired`), and the scopes come back whole by `ScopesReadBack`: joining with a
  space and splitting again gives the same set (`SplitJoin`), and so does removing
  repetitions (`DedupeKeeps`). What recursion `join` needs is shown by a least
  counterexample (`JoinExists`), not by the library's induction theorems.

Attempts to prove corrected two properties. `SatisfiedUntilIsExact` said nothing of
the end of time: a later evaluation fails when the clock with the skew added is no
longer a time, whatever `satisfied_until` says; the property is now about the
instants before. `NoAmplification` turned out to be false of the code for scopes
with two wildcards, as told above, and now names what amplifies.

Only model-checked: liveness, which is outside the prover's reach. That is
`EveryJobEnds`, and with it the fairness of `PasswordWork`. Every other property of
a passing run is also a theorem. The three properties that a run refutes have none.
The bound on a joined scope claim is a fold in `valid_scope_set`; no theorem
depends on what it computes. `LinearChain`, `ReplayOnlyForReuse`, the window of the
reuse loop and the exactness of the expiry index are proved, for every instance,
and no run repeats them.

## Plan

Every component with a protocol of its own has a module, and every safety property
that a run shows is proved for all instances. What would come next is breadth: the
refresh-cookie directive and the transport wiring, which are now left out (below),
and a rotation over two stores that fail independently.

## Not modelled

Cryptography, JWT and HTTP encodings, Argon2 and TOTP arithmetic are library
code or pure computation: a hash matches or does not. Error texts, redaction,
logging and the transport wiring (`CombinedAuth`, the parsing of
`connection_init`, `RequireChannelScheme`) carry no protocol. Purpose grants and
decision hooks call the host and compare a field. TOTP secrets and enrolment are
the host's. The refresh-cookie directive (`graphql.rs:161`) rewrites a response
body; reading it, an issuing entry without a session field ends the scan, so that
later entries keep their token, while its comment speaks of all top-level entries. The refresh, challenge and user
stores of a host are represented by the reference stores of the test suite; a
host whose store breaks the documented atomicity is outside these results.
Overflow of timestamps is an error of the call (`Fail`).
