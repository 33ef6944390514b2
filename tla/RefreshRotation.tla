-------------------------- MODULE RefreshRotation --------------------------
(***************************************************************************)
(* Refresh-token rotation of AuthService: refresh, step_up_session and     *)
(* logout, with the optional reuse grace.                                  *)
(*                                                                         *)
(* Every call is an async function over a store that other calls, other    *)
(* processes and the host also use.  pc, request, seen and attempt hold a  *)
(* call's local variables; each await on a store is one step, so that what *)
(* the call read before an await may be stale after it.  A call may be     *)
(* dropped or fail between any two steps.                                  *)
(*                                                                         *)
(* Abstractions.  A token's raw value, its hash and its record id are one  *)
(* identifier: the root token of family f is f, and the token that call c  *)
(* commits (a call commits at most one) is c.  Roles, scopes and           *)
(* authorization roles are one set of grants: each is kept if the source,  *)
(* the newest token and current authority have it, where the authority for *)
(* authorization roles is the AdditionalTokenRolesProvider that            *)
(* issue_tokens_only asks (without one the replacement has none).          *)
(***************************************************************************)
EXTENDS Integers, FiniteSets

CONSTANTS
    Families,       \* session families that logins may open
    Calls,          \* calls to refresh, step_up_session and logout
    Kinds,          \* operations that are called
    Users,          \* local users
    Grants,         \* roles, scopes and authorization roles
    Sources,        \* values of RefreshGrantSource found in the store
    None,           \* Rust's None
    TTL,            \* config.refresh_token_ttl
    GraceWindow,    \* refresh_reuse_grace; 0 when it is not configured
    LiveReads,      \* the store overrides find_live_refresh_tokens_in_family
    Overwrites,     \* family revocation also rewrites revoked records
    HostAuthority,  \* a RefreshGrantAuthority is installed
    MaxRetries,     \* MAX_REFRESH_REUSE_GRACE_RETRIES
    Skew,           \* how far an instance's clock may be from true time
    MaxClock,       \* bound on time, for model checking
    MaxUpdates      \* bound on changes to users, for model checking

TokenId == Families \cup Calls

\* A stored record.  session_id and user_id are fixed per family.
TokenRecord ==
    [family: Families, user: Users, source: Sources, grants: SUBSET Grants,
     assurance: {"login", "step_up"}, expires_at: Int,
     revoked_at: Int \cup {None}, replaced_by: Calls \cup {None}]

UserRecord ==
    [status: {"enabled", "disabled", "missing"}, grants: SUBSET Grants]

\* with_refresh_reuse_grace rejects a window that is not shorter than the ttl.
ASSUME ConfigAssumption ==
    /\ TTL \in Nat \ {0}
    /\ GraceWindow \in Nat
    /\ GraceWindow < TTL
    /\ MaxRetries \in Nat \ {0}
    /\ Skew \in Nat
    /\ MaxClock \in Nat
    /\ MaxUpdates \in Nat
    /\ {LiveReads, Overwrites, HostAuthority} \subseteq BOOLEAN
    /\ Kinds \subseteq {"refresh", "step_up", "logout", "logout_family"}
    /\ Sources \subseteq {"StoredUser", "Host", "Legacy"}

ASSUME IdentityAssumption ==
    /\ Families \cap Calls = {}
    /\ None \notin TokenId
    /\ None \notin Int
    /\ None \notin TokenRecord

VARIABLES
    clock,      \* true time
    users,      \* the host's user store and grant authority
    updates,    \* number of changes made to users
    tokens,     \* the refresh-token store: id -> record or None
    pc,         \* where each call is, and its result once it returned
    request,    \* what each call was given, and the `now` it entered with
    seen,       \* `existing`, later `current`: the call's copy of the record
    attempt,    \* the call's current attempt at a replacement
    witness,    \* history: user records in force since each call began
    audit       \* events given to the RefreshReuseGraceObserver

world == <<clock, users, updates>>
locals == <<pc, request, seen, attempt>>
vars == <<world, tokens, locals, witness, audit>>

Steps == {"find", "grace", "live", "user", "authority", "rotate", "observe",
          "reread", "revoke", "revoke_family"}

Results == {"Ok", "Invalid", "Replay", "Expired", "Disabled", "Forbidden",
            "Store", "Failed"}

Request ==
    [kind: {"refresh", "step_up", "logout", "logout_family"},
     token: TokenId \cup {None},
     entered: Int]

Attempt ==
    [now: Int,                          \* `now` of the reuse loop
     newest: TokenId \cup {None},       \* the live token a reuse replaces
     grants: SUBSET Grants,             \* grants of the prepared record
     retries: 0..MaxRetries]            \* passes of the reuse loop lost

NoRequest == [kind |-> "refresh", token |-> None, entered |-> 0]

NoAttempt == [now |-> 0, newest |-> None, grants |-> {}, retries |-> 0]

AuditEvent == [presented: TokenId, superseded: TokenId, replacement: Calls]

TypeOK ==
    /\ clock \in Nat
    /\ users \in [Users -> UserRecord]
    /\ updates \in Nat
    /\ tokens \in [TokenId -> TokenRecord \cup {None}]
    /\ pc \in [Calls -> {"idle"} \cup Steps \cup Results]
    /\ request \in [Calls -> Request]
    /\ seen \in [Calls -> TokenRecord \cup {None}]
    /\ attempt \in [Calls -> Attempt]
    /\ witness \in [Calls -> SUBSET UserRecord]
    /\ audit \in SUBSET AuditEvent

-----------------------------------------------------------------------------
(* Records and the store.                                                  *)

Exists(i) == tokens[i] # None

is_expired(r, t) == r.expires_at <= t

is_revoked(r) == r.revoked_at # None

\* Mutant: the window is not looked at.
superseded_within_AnyAge(r, t) ==
    /\ is_revoked(r)
    /\ r.replaced_by # None
    /\ ~is_expired(r, t)

superseded_within(r, t) ==
    /\ is_revoked(r)
    /\ r.replaced_by # None
    /\ ~is_expired(r, t)
    /\ t - r.revoked_at < GraceWindow
    /\ r.revoked_at - t < GraceWindow

\* The ids differ because the presented token is revoked, and the session id
\* agrees because the family does.
can_replace_newest(presented, r, t) ==
    /\ ~is_revoked(r)
    /\ ~is_expired(r, t)
    /\ r.family = presented.family
    /\ r.user = presented.user
    /\ r.source = presented.source

Live(f) == {i \in TokenId : /\ Exists(i)
                            /\ tokens[i].family = f
                            /\ ~is_revoked(tokens[i])}

\* The default implementation returns None, which the caller treats as it
\* treats an empty list.
find_live_refresh_tokens_in_family(f) == IF LiveReads THEN Live(f) ELSE {}

\* Mutant: an already revoked record is revoked again.
revoke_refresh_token_Again(i, t) ==
    tokens' = IF Exists(i)
              THEN [tokens EXCEPT ![i].revoked_at = t, ![i].replaced_by = None]
              ELSE tokens

revoke_refresh_token(i, t) ==
    tokens' = IF Exists(i) /\ ~is_revoked(tokens[i])
              THEN [tokens EXCEPT ![i].revoked_at = t]
              ELSE tokens

revoke_refresh_token_family(f, t) ==
    tokens' = [i \in TokenId |->
                 IF /\ Exists(i)
                    /\ tokens[i].family = f
                    /\ Overwrites \/ ~is_revoked(tokens[i])
                 THEN [tokens[i] EXCEPT !.revoked_at = t]
                 ELSE tokens[i]]

\* A rotated record: revoked, with its replacement.
Superseded(r, id, t) ==
    [[r EXCEPT !.revoked_at = t] EXCEPT !.replaced_by = id]

\* Mutants: the swap does not compare; it inserts the replacement
\* and leaves the current token as it was.
rotate_refresh_token_NoCompare(i, replacement, id, t) ==
    tokens' = [tokens EXCEPT ![i] = Superseded(tokens[i], id, t),
                             ![id] = replacement]

rotate_refresh_token_InsertOnly(i, replacement, id, t) ==
    /\ ~is_revoked(tokens[i])
    /\ tokens' = [tokens EXCEPT ![id] = replacement]

\* The successful half of the store's compare-and-swap.
rotate_refresh_token(i, replacement, id, t) ==
    /\ ~is_revoked(tokens[i])
    /\ tokens' = [tokens EXCEPT ![i] = Superseded(tokens[i], id, t),
                                ![id] = replacement]

-----------------------------------------------------------------------------
(* The environment: time, the host's users, logins, failures.              *)

\* What an instance's clock may read.
Reading == {t \in (clock - Skew)..(clock + Skew) : t >= 0}

Tick ==
    /\ clock < MaxClock
    /\ clock' = clock + 1
    /\ UNCHANGED <<users, updates, tokens, locals, witness, audit>>

Running(c) == pc[c] \in Steps

\* The host disables, deletes or restores a user or changes its grants.
UpdateUser(u) ==
    /\ updates < MaxUpdates
    /\ updates' = updates + 1
    /\ \E r \in UserRecord :
         /\ r # users[u]
         /\ users' = [users EXCEPT ![u] = r]
         /\ witness' = [c \in Calls |->
              IF /\ Running(c)
                 /\ request[c].token # None
                 /\ tokens[request[c].token].user = u
              THEN witness[c] \cup {r}
              ELSE witness[c]]
    /\ UNCHANGED <<clock, tokens, locals, audit>>

\* issue_auth_payload: a login, or any verified-session issuance, opens a
\* family.  A "Legacy" record is one that an older release persisted.
Issue(f, u) ==
    /\ ~Exists(f)
    /\ users[u].status = "enabled"
    /\ \E g \in SUBSET Grants, s \in Sources, t \in Reading :
         tokens' = [tokens EXCEPT ![f] =
           [family |-> f, user |-> u, source |-> s, grants |-> g,
            assurance |-> "login", expires_at |-> t + TTL,
            revoked_at |-> None, replaced_by |-> None]]
    /\ UNCHANGED <<world, locals, witness, audit>>

\* The call goes on to its next await.
Go(c, step) == pc' = [pc EXCEPT ![c] = step]

\* The call returns and its local variables are gone.
Return(c, result) ==
    /\ Go(c, result)
    /\ seen' = [seen EXCEPT ![c] = None]
    /\ attempt' = [attempt EXCEPT ![c] = NoAttempt]

\* The call's future is dropped, the process stops, or a store or provider
\* returns an error, which `?` propagates.
Fail(c) ==
    /\ Running(c)
    /\ Return(c, "Failed")
    /\ UNCHANGED <<world, tokens, request, witness, audit>>

-----------------------------------------------------------------------------
(* Steps of a call.                                                        *)

Rotating(c) == request[c].kind \in {"refresh", "step_up"}

\* The stored record of the token that the call presents.
Presented(c) == tokens[request[c].token]

\* Raw tokens a client can hold: a token whose response was lost is known to
\* nobody.
Delivered == {i \in TokenId : Exists(i) /\ (i \in Calls => pc[i] = "Ok")}

\* The call is made; it reads the clock and then asks the store.
Begin(c, kind, i) ==
    /\ pc[c] = "idle"
    /\ Go(c, "find")
    /\ \E t \in Reading :
         request' = [request EXCEPT ![c] =
                       [kind |-> kind, token |-> i, entered |-> t]]
    /\ witness' = [witness EXCEPT ![c] =
                     IF i = None THEN {} ELSE {users[tokens[i].user]}]
    /\ UNCHANGED <<world, tokens, seen, attempt, audit>>

CallStep == UNCHANGED <<world, tokens, request, witness, audit>>

FindUnknown(c) ==
    /\ pc[c] = "find"
    /\ request[c].token = None
    /\ Return(c, IF Rotating(c) THEN "Invalid" ELSE "Ok")
    /\ CallStep

\* The store has the record.
Found(c) == pc[c] = "find" /\ request[c].token # None

\* The call takes a copy of the record and goes on to the given step.
Keep(c, step) ==
    /\ Go(c, step)
    /\ seen' = [seen EXCEPT ![c] = Presented(c)]
    /\ UNCHANGED attempt
    /\ CallStep

\* rotate_session and a record that is revoked, expired or current.
FindRevoked(c) ==
    /\ Found(c)
    /\ Rotating(c)
    /\ is_revoked(Presented(c))
    /\ Keep(c, IF GraceWindow > 0 THEN "grace" ELSE "revoke_family")

FindExpired(c) ==
    /\ Found(c)
    /\ Rotating(c)
    /\ ~is_revoked(Presented(c))
    /\ is_expired(Presented(c), request[c].entered)
    /\ Keep(c, "revoke")

FindCurrent(c) ==
    /\ Found(c)
    /\ Rotating(c)
    /\ ~is_revoked(Presented(c))
    /\ ~is_expired(Presented(c), request[c].entered)
    /\ Keep(c, "user")

\* logout: with the grace on, signing out a revoked token is a no-op.
LogoutIsNoop(c) ==
    /\ request[c].kind = "logout"
    /\ GraceWindow > 0
    /\ is_revoked(Presented(c))

FindLogout(c) ==
    /\ Found(c)
    /\ ~Rotating(c)
    /\ ~LogoutIsNoop(c)
    /\ Keep(c, IF request[c].kind = "logout" THEN "revoke"
                                             ELSE "revoke_family")

FindLogoutNoop(c) ==
    /\ Found(c)
    /\ ~Rotating(c)
    /\ LogoutIsNoop(c)
    /\ Return(c, "Ok")
    /\ CallStep

-----------------------------------------------------------------------------
(* reissue_within_reuse_grace: one pass of the loop is GraceOpen, then     *)
(* NewestFound, then prepare_rotation, then the compare-and-swap.          *)

GraceExhausted(c) ==
    /\ pc[c] = "grace"
    /\ attempt[c].retries = MaxRetries
    /\ Return(c, "Store")
    /\ CallStep

GraceOpen(c) ==
    /\ pc[c] = "grace"
    /\ attempt[c].retries < MaxRetries
    /\ \E t \in Reading :
         /\ attempt' = [attempt EXCEPT ![c].now = t]
         /\ Go(c, IF superseded_within(seen[c], t)
                  THEN "live" ELSE "revoke_family")
    /\ UNCHANGED seen
    /\ CallStep

\* The family's one live token, if there is exactly one and it will do.
Replaceable(c) ==
    {n \in TokenId :
       /\ find_live_refresh_tokens_in_family(seen[c].family) = {n}
       /\ can_replace_newest(seen[c], tokens[n], attempt[c].now)}

NewestFound(c) ==
    /\ pc[c] = "live"
    /\ \E n \in Replaceable(c) :
         attempt' = [attempt EXCEPT ![c].newest = n]
    /\ Go(c, "user")
    /\ UNCHANGED seen
    /\ CallStep

NewestRefused(c) ==
    /\ pc[c] = "live"
    /\ Replaceable(c) = {}
    /\ Go(c, "revoke_family")
    /\ UNCHANGED <<seen, attempt>>
    /\ CallStep

-----------------------------------------------------------------------------
(* prepare_rotation and the compare-and-swap.                              *)

\* Mutants: the newest token, or current authority, is not consulted.
Narrowed_IgnoresNewest(c) == seen[c].grants \cap users[seen[c].user].grants

Narrowed_IgnoresAuthority(c) ==
    { g \in seen[c].grants :
        attempt[c].newest # None => g \in tokens[attempt[c].newest].grants }

\* Roles and scopes kept by the replacement: in the presented token, in
\* current authority and, on a reuse, in the token that is replaced.
Narrowed(c) ==
    { g \in seen[c].grants :
        /\ g \in users[seen[c].user].grants
        /\ attempt[c].newest # None => g \in tokens[attempt[c].newest].grants }

Refusals(c) ==
    CASE users[seen[c].user].status = "missing" -> {"Invalid"}
      [] users[seen[c].user].status = "disabled" -> {"Disabled"}
      [] OTHER -> IF \/ seen[c].source = "Legacy"
                     \/ seen[c].source = "Host" /\ ~HostAuthority
                  THEN {"Forbidden"} ELSE {}

UserRefused(c) ==
    /\ pc[c] = "user"
    /\ \E error \in Refusals(c) : Return(c, error)
    /\ CallStep

\* The replacement is prepared with the grants authority gives now.
Prepare(c) ==
    /\ attempt' = [attempt EXCEPT ![c].grants = Narrowed(c)]
    /\ Go(c, "rotate")
    /\ UNCHANGED seen
    /\ CallStep

\* A stored user brings its grants; a host grant is asked for separately.
StoredUserRead(c) ==
    /\ pc[c] = "user"
    /\ Refusals(c) = {}
    /\ seen[c].source = "StoredUser"
    /\ Prepare(c)

HostUserRead(c) ==
    /\ pc[c] = "user"
    /\ Refusals(c) = {}
    /\ seen[c].source = "Host"
    /\ Go(c, "authority")
    /\ UNCHANGED <<seen, attempt>>
    /\ CallStep

AuthorityRead(c) ==
    /\ pc[c] = "authority"
    /\ Prepare(c)

\* Which token the compare-and-swap replaces, and the `now` it is given.
Target(c) == IF attempt[c].newest = None THEN request[c].token
                                         ELSE attempt[c].newest

RotatedAt(c) == IF attempt[c].newest = None THEN request[c].entered
                                            ELSE attempt[c].now

\* The record issue_tokens_only builds from the presented token.
Replacement(c) ==
    [family |-> seen[c].family, user |-> seen[c].user,
     source |-> seen[c].source, grants |-> attempt[c].grants,
     assurance |-> IF request[c].kind = "step_up"
                   THEN "step_up" ELSE seen[c].assurance,
     expires_at |-> RotatedAt(c) + TTL,
     revoked_at |-> None, replaced_by |-> None]

RotateWon(c) ==
    /\ pc[c] = "rotate"
    /\ rotate_refresh_token(Target(c), Replacement(c), c, RotatedAt(c))
    /\ IF attempt[c].newest = None
       THEN Return(c, "Ok")
       ELSE Go(c, "observe") /\ UNCHANGED <<seen, attempt>>
    /\ UNCHANGED <<world, request, witness, audit>>

\* The reuse loop goes round again.
RetryLost(c) ==
    /\ pc[c] = "rotate"
    /\ attempt[c].newest # None
    /\ is_revoked(tokens[Target(c)])
    /\ attempt' = [attempt EXCEPT ![c] =
                     [NoAttempt EXCEPT !.retries = attempt[c].retries + 1]]
    /\ Go(c, "grace")
    /\ UNCHANGED seen
    /\ CallStep

\* Mutant: losing the first compare-and-swap is replay although the grace is
\* on.
RotateLost_NoReread(c) ==
    /\ pc[c] = "rotate"
    /\ attempt[c].newest = None
    /\ is_revoked(tokens[Target(c)])
    /\ Go(c, "revoke_family")
    /\ UNCHANGED <<seen, attempt>>
    /\ CallStep

RotateLost(c) ==
    /\ pc[c] = "rotate"
    /\ attempt[c].newest = None
    /\ is_revoked(tokens[Target(c)])
    /\ Go(c, IF GraceWindow > 0 THEN "reread" ELSE "revoke_family")
    /\ UNCHANGED <<seen, attempt>>
    /\ CallStep

\* The observer runs after the commit; then the reuse returns its token.
Observe(c) ==
    /\ pc[c] = "observe"
    /\ audit' = audit \cup {[presented |-> request[c].token,
                             superseded |-> attempt[c].newest,
                             replacement |-> c]}
    /\ Return(c, "Ok")
    /\ UNCHANGED <<world, tokens, request, witness>>

\* Mutant: the lost swap is simply tried again.
Reread_TriesAgain(c) ==
    /\ pc[c] = "reread"
    /\ Go(c, "rotate")
    /\ UNCHANGED <<seen, attempt>>
    /\ CallStep

\* A call that lost the race reads its token again and tries the grace.
Reread(c) ==
    /\ pc[c] = "reread"
    /\ Go(c, "grace")
    /\ seen' = [seen EXCEPT ![c] = Presented(c)]
    /\ UNCHANGED attempt
    /\ CallStep

\* Mutant: replay revokes only the token that was presented.
RevokeFamily_OneToken(c) ==
    /\ pc[c] = "revoke_family"
    /\ revoke_refresh_token(request[c].token, request[c].entered)
    /\ Return(c, IF Rotating(c) THEN "Replay" ELSE "Ok")
    /\ UNCHANGED <<world, request, witness, audit>>

RevokeFamily(c) ==
    /\ pc[c] = "revoke_family"
    /\ revoke_refresh_token_family(seen[c].family, request[c].entered)
    /\ Return(c, IF Rotating(c) THEN "Replay" ELSE "Ok")
    /\ UNCHANGED <<world, request, witness, audit>>

\* The expired token of a rotation, or the token a logout names.
RevokeToken(c) ==
    /\ pc[c] = "revoke"
    /\ revoke_refresh_token(request[c].token, request[c].entered)
    /\ Return(c, IF Rotating(c) THEN "Expired" ELSE "Ok")
    /\ UNCHANGED <<world, request, witness, audit>>

-----------------------------------------------------------------------------
Init ==
    /\ clock = 0
    /\ users = [u \in Users |-> [status |-> "enabled", grants |-> Grants]]
    /\ updates = 0
    /\ tokens = [i \in TokenId |-> None]
    /\ pc = [c \in Calls |-> "idle"]
    /\ request = [c \in Calls |-> NoRequest]
    /\ seen = [c \in Calls |-> None]
    /\ attempt = [c \in Calls |-> NoAttempt]
    /\ witness = [c \in Calls |-> {}]
    /\ audit = {}

Step(c) ==
    \/ FindUnknown(c) \/ FindRevoked(c) \/ FindExpired(c) \/ FindCurrent(c)
    \/ FindLogout(c) \/ FindLogoutNoop(c)
    \/ GraceExhausted(c) \/ GraceOpen(c) \/ NewestFound(c) \/ NewestRefused(c)
    \/ UserRefused(c) \/ StoredUserRead(c) \/ HostUserRead(c)
    \/ AuthorityRead(c)
    \/ RotateWon(c) \/ RetryLost(c) \/ RotateLost(c) \/ Observe(c)
    \/ Reread(c) \/ RevokeFamily(c) \/ RevokeToken(c)

Next ==
    \/ Tick
    \/ \E u \in Users : UpdateUser(u)
    \/ \E f \in Families, u \in Users : Issue(f, u)
    \/ \E c \in Calls : \E k \in Kinds, i \in Delivered \cup {None} :
         Begin(c, k, i)
    \/ \E c \in Calls : Step(c)
    \/ \E c \in Calls : Fail(c)

Spec == Init /\ [][Next]_vars
-----------------------------------------------------------------------------
(* Properties.                                                             *)

\* A session family has at most one live token after every step, whatever
\* mix of rotations, reuses, retries and sign-outs is in flight
\* (rotate_refresh_token is the only way a family gets another token).
OneLiveToken == \A f \in Families : \A i, j \in Live(f) : i = j

\* A replacement is a successor, never a branch: two tokens are not replaced
\* by the same token, only revoked tokens have been replaced, a replacement
\* is in the family of what it replaced, and a token that is not a root
\* replaced one.
LinearChain ==
    /\ \A i \in TokenId :
         Exists(i) /\ tokens[i].replaced_by # None =>
           LET n == tokens[i].replaced_by
           IN  /\ is_revoked(tokens[i])
               /\ n # i
               /\ Exists(n)
               /\ tokens[n].family = tokens[i].family
    /\ \A i, j \in TokenId :
         /\ Exists(i) /\ Exists(j)
         /\ tokens[i].replaced_by # None
         /\ tokens[i].replaced_by = tokens[j].replaced_by
         => i = j
    /\ \A c \in Calls :
         Exists(c) => \E i \in TokenId : Exists(i) /\ tokens[i].replaced_by = c

\* No widening: a replacement holds only grants of the token it replaced,
\* also when it was minted for the holder of an older token, so a grant the
\* newest token lost cannot come back (prepare_rotation).
NoWidening ==
    \A i \in TokenId :
      Exists(i) /\ tokens[i].replaced_by # None =>
        tokens[tokens[i].replaced_by].grants \subseteq tokens[i].grants

\* A call is granted a token only if the user was enabled at some moment
\* between the call's start and its end, and only with grants that authority
\* gave at some moment in between: neither a retry nor the reuse path works
\* from a user record read before the call.
AuthorityIsCurrent ==
    \A c \in Calls :
      Exists(c) =>
        /\ \E r \in witness[c] : r.status = "enabled"
        /\ \E r \in witness[c] : tokens[c].grants \subseteq r.grants

\* A call that reported replay, or a family sign-out that reported success,
\* leaves a family without a live token, and no call in flight brings one
\* back.
EndedFamilyStaysEnded ==
    \A c \in Calls :
      /\ request[c].token # None
      /\ \/ pc[c] = "Replay"
         \/ request[c].kind = "logout_family" /\ pc[c] = "Ok"
      => Live(tokens[request[c].token].family) = {}

\* A rotation revokes a family only when the token it was given had been
\* used up by somebody: losing the compare-and-swap is evidence of that.
ReplayOnlyForReuse ==
    \A c \in Calls :
      /\ Rotating(c)
      /\ pc[c] = "revoke_family" \/ pc[c] = "Replay"
      => is_revoked(tokens[request[c].token])

\* The reuse grace does what it is for: while no token can have left its
\* window and nobody signs out, no interleaving of concurrent refreshes,
\* lost responses and retries is taken for theft.
RaceIsNotReplay ==
    /\ GraceWindow > 0 /\ LiveReads /\ Skew = 0
    /\ clock < GraceWindow
    /\ \A c \in Calls : Rotating(c)
    => \A c \in Calls : pc[c] # "Replay"

\* A step keeps the window of every revoked token, unless it leaves the family
\* without a live token.
WindowKept ==
    \A i \in TokenId :
      Exists(i) /\ is_revoked(tokens[i]) =>
        \/ Live(tokens[i].family)' = {}
        \/ /\ tokens'[i].revoked_at = tokens[i].revoked_at
           /\ tokens'[i].replaced_by = tokens[i].replaced_by

\* While a family has a live token, nothing changes revoked_at or
\* replaced_by of a revoked token: a chain of reuses, an expiry or a racing
\* sign-out cannot move the window of an old token.
WindowNeverMoves == [][WindowKept]_vars

\* What a commit gives is what the presented token is good for: a superseded
\* token buys another only inside the window measured from the revoked_at the
\* store holds at the commit, and the replacement has the presented token's
\* assurance, or the step-up's, even when a stepped-up token is replaced.
CommitMatchesPresented ==
    [][\A c \in Calls :
         ~Exists(c) /\ Exists(c)' =>
           LET p == tokens[request[c].token]
           IN  /\ tokens'[c].assurance = IF request[c].kind = "step_up"
                                         THEN "step_up" ELSE p.assurance
               /\ is_revoked(p) =>
                    /\ p.replaced_by # None
                    /\ attempt[c].now - p.revoked_at < GraceWindow
                    /\ p.revoked_at - attempt[c].now < GraceWindow]_vars

\* The awaits a call still has before it, at most: the first attempt is ahead
\* of the reuse loop, which has MaxRetries passes.
AwaitsLeft(c) ==
    LET first == [find |-> 5, user |-> 4, authority |-> 3, rotate |-> 2,
                  reread |-> 1]
        pass  == [grace |-> 6, live |-> 5, user |-> 4, authority |-> 3,
                  rotate |-> 2, observe |-> 1, revoke |-> 1,
                  revoke_family |-> 1]
    IN  IF ~Running(c) THEN 0
        ELSE IF pc[c] \in DOMAIN first /\ attempt[c].newest = None
        THEN first[pc[c]] + 6 * (MaxRetries + 1)
        ELSE pass[pc[c]] + 6 * (MaxRetries - attempt[c].retries)

\* Every step a call takes brings its return closer, whatever the others do
\* between its awaits: however often a reuse loses the swap, rotate_session
\* returns within a number of awaits that only MaxRetries bounds.
CallsAdvance ==
    [][\A c \in Calls :
         Running(c) => \/ UNCHANGED <<pc[c], seen[c], attempt[c]>>
                       \/ AwaitsLeft(c)' < AwaitsLeft(c)]_vars

\* The abstract session family, and the rotation protocol implements it.
Family == INSTANCE SessionFamily WITH
    Tokens <- TokenId,
    opened <- {f \in Families : Exists(f)},
    live <- [f \in Families |-> Live(f)],
    used <- {i \in TokenId : Exists(i)}

\* Rotation implements the abstract family: the live token moves to a token
\* never used before, or the family ends for good.
ImplementsFamily == Family!Spec
-----------------------------------------------------------------------------
(* The inductive invariant behind the theorems of RefreshRotationProofs.   *)

\* What a record keeps for ever.
SameSession(r, s) ==
    /\ r.family = s.family
    /\ r.user = s.user
    /\ r.source = s.source
    /\ r.grants = s.grants
    /\ r.assurance = s.assurance
    /\ r.expires_at = s.expires_at

PastFind == {"grace", "live", "user", "authority", "rotate", "observe",
             "reread", "revoke", "revoke_family"}

\* A call past its first read holds a copy of the presented record that is
\* stale at most in revoked_at and replaced_by.
SnapshotOf(c) ==
    /\ request[c].token # None => Exists(request[c].token)
    /\ pc[c] \in PastFind =>
         /\ request[c].token # None
         /\ seen[c] # None
         /\ SameSession(seen[c], Presented(c))

\* A call mints its token when it commits and not before, and then with grants
\* of the token it replaces.
MintOf(c) ==
    /\ Exists(c) => pc[c] \in {"observe"} \cup Results
    /\ pc[c] = "rotate" =>
         /\ attempt[c].grants \subseteq seen[c].grants
         /\ attempt[c].newest # None =>
              attempt[c].grants \subseteq tokens[attempt[c].newest].grants

\* A call in the reuse loop, or about to report replay, was given a token
\* that is revoked, and the token it means to replace is of that family.
ReuseOf(c) ==
    /\ attempt[c].newest # None =>
         /\ pc[c] \in {"user", "authority", "rotate", "observe"}
         /\ Exists(attempt[c].newest)
         /\ tokens[attempt[c].newest].family = seen[c].family
         /\ attempt[c].retries < MaxRetries
         /\ is_revoked(Presented(c))
    /\ pc[c] = "observe" => attempt[c].newest # None
    /\ pc[c] = "live" => attempt[c].retries < MaxRetries
    /\ pc[c] \in {"grace", "live", "reread"} =>
         Rotating(c) /\ is_revoked(Presented(c))
    /\ pc[c] \in {"user", "authority", "rotate", "observe"} => Rotating(c)
    /\ pc[c] = "revoke_family" /\ Rotating(c) => is_revoked(Presented(c))
    /\ pc[c] = "revoke" => request[c].kind # "logout_family"
    /\ pc[c] = "Replay" => /\ Rotating(c)
                           /\ request[c].token # None
                           /\ is_revoked(Presented(c))

CallsInv == \A c \in Calls : SnapshotOf(c) /\ MintOf(c) /\ ReuseOf(c)

\* Every family starts with its root token.
RootInv ==
    \A i \in TokenId :
      Exists(i) => /\ Exists(tokens[i].family)
                   /\ i \in Families => tokens[i].family = i

IndInv ==
    /\ TypeOK
    /\ CallsInv
    /\ RootInv
    /\ OneLiveToken
    /\ LinearChain
    /\ NoWidening
    /\ EndedFamilyStaysEnded
=============================================================================
