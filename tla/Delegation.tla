----------------------------- MODULE Delegation -----------------------------
(***************************************************************************)
(* One session-bound delegated token, from its preparation to the end of   *)
(* its life: prepare_session_bound_access_token_only and                   *)
(* issue_session_bound_access_token_only (service.rs) with their           *)
(* fixed-audience facade (fixed_audience.rs), the re-check before a        *)
(* sensitive operation and the periodic re-check of a connection           *)
(* (token_status.rs).  One step per await; between two awaits the host may  *)
(* revoke, re-version, re-grant, disable or touch the parent session.      *)
(* Delegations share nothing but the parent session, so one is enough.     *)
(***************************************************************************)
EXTENDS Integers, FiniteSetsExt

CONSTANTS
    Grants,       \* roles and scopes
    None,
    Second,       \* ticks of the clock in a second
    Ttls,         \* lifetimes a request may ask for
    MaxTtl,       \* max_session_bound_delegation_ttl
    IdleTtl,      \* by how much the host's touch extends the idle expiry
    Absolute,     \* absolute_expires_at of the session
    Policies,     \* values of ReauthorizationPolicy
    MaxVersion,   \* bound of the session version
    MaxChanges,   \* bound of the host's changes
    MaxClock      \* bound of the clock

ASSUME DelegationAssumption ==
    /\ Second \in Nat \ {0}
    /\ Ttls \subseteq Nat \ {0}
    /\ {MaxTtl, IdleTtl, Absolute, MaxVersion} \subseteq Nat \ {0}
    /\ Policies \subseteq [min_interval : Int, lifetime_percent : Int \cup {None},
                           max_connection_ttl : Int \cup {None},
                           failure_mode : {"FailClosed", "FailOpen"}]
    /\ {MaxChanges, MaxClock} \subseteq Nat
    /\ None \notin Int

VARIABLES
    clock,
    session,        \* the authoritative record of the parent session and user
    changes,        \* how often the host changed it
    revoked_at,     \* history: when it was revoked, or None
    \* the request and its token
    pc,
    want,           \* the grants asked for
    fixed,          \* fixed_audience: prepared by the facade
    path,           \* which of the two issues it: "owner" or "facade"
    version,        \* session_version of the request and the token
    expiry,         \* effective_expires_at as read, then the token's exp
    seen,           \* history: the records in force during the issuing call
    \* the re-check before a sensitive operation
    check,          \* where it is
    now,            \* the time the host passed in
    result,         \* the grants it left
    watched,        \* history: the records in force during it
    \* a connection opened with the token
    conn,           \* "none", "open" or "closed"
    policy,         \* its ReauthorizationPolicy; lifetime_fraction in percent,
                    \* None when it is not finite
    started,
    last,           \* history: the previous check of the connection
    deadline

request == <<pc, want, fixed, path, version, expiry, seen>>
recheck == <<check, now, result, watched>>
connection == <<conn, policy, started, last, deadline>>
vars == <<clock, session, changes, revoked_at, request, recheck, connection>>

effective_expires_at(s) == Min({s.idle_expires_at, Absolute})

Init ==
    /\ clock = 0
    /\ session = [revoked |-> FALSE, version |-> 1, grants |-> Grants,
                  disabled |-> FALSE, idle_expires_at |-> IdleTtl]
    /\ changes = 0
    /\ revoked_at = None
    /\ pc = "idle" /\ want = {} /\ fixed = FALSE /\ path = None
    /\ version = None /\ expiry = 0 /\ seen = {}
    /\ check = "idle" /\ now = 0 /\ result = {} /\ watched = {}
    /\ conn = "none" /\ policy = None /\ started = 0 /\ last = None /\ deadline = 0

----------------------------------------------------------------------------
(* The host.                                                               *)

Issuing == pc \in {"resolve", "enabled", "sign"}
Rechecking == check \in {"status", "current"}

HostChanges(s) ==
    /\ changes < MaxChanges
    /\ s # session
    /\ session' = s
    /\ changes' = changes + 1
    /\ seen' = IF Issuing THEN seen \cup {s} ELSE seen
    /\ watched' = IF Rechecking THEN watched \cup {s} ELSE watched
    /\ UNCHANGED <<clock, pc, want, fixed, path, version, expiry,
                   check, now, result, connection>>

Revoke ==
    /\ ~session.revoked
    /\ HostChanges([session EXCEPT !.revoked = TRUE])
    /\ revoked_at' = clock

Host ==
    /\ \/ session.version < MaxVersion /\ HostChanges([session EXCEPT !.version = @ + 1])
       \/ \E g \in SUBSET Grants : HostChanges([session EXCEPT !.grants = g])
       \/ HostChanges([session EXCEPT !.disabled = ~@])
       \/ effective_expires_at(session) > clock
          /\ HostChanges([session EXCEPT !.idle_expires_at = clock + IdleTtl])
    /\ UNCHANGED revoked_at

\* The host's loop checks a connection as soon as its deadline has come, and
\* again at the next tick when the new deadline has come too.
Tick ==
    /\ clock < MaxClock
    /\ conn = "open" => deadline > clock \/ last = clock
    /\ clock' = clock + 1
    /\ UNCHANGED <<session, changes, revoked_at, request, recheck, connection>>

----------------------------------------------------------------------------
(* Preparation and issue.                                                  *)

\* resolve_active_user_session with from_authoritative_record, for a reference
\* that carries version v or none.
Resolves(v) ==
    /\ ~session.revoked
    /\ v \in {None, session.version}
    /\ effective_expires_at(session) > clock

\* Mutant: the wanted grants are looked up when the request is prepared only.
HasAuthority_Once(w) == pc = "resolve" \/ w \subseteq session.grants

\* validate_session_bound_current_authority, against the record just read.
HasAuthority(w) == w \subseteq session.grants

Goto(l) == pc' = l

unchanged_but_request ==
    UNCHANGED <<clock, session, changes, revoked_at, recheck, connection>>

\* A refusal leaves nothing of the request.
Refuse ==
    /\ pc' = "refused"
    /\ want' = {} /\ fixed' = FALSE /\ path' = None
    /\ version' = None /\ expiry' = 0 /\ seen' = {}

\* The source token was accepted under some earlier version, or carries none.
Prepare(w, f, v) ==
    /\ pc = "idle"
    /\ IF Resolves(v) /\ HasAuthority(w)
       THEN /\ Goto(IF f THEN "enable" ELSE "prepared")
            /\ want' = w /\ fixed' = f
            /\ version' = session.version
            /\ UNCHANGED <<path, expiry, seen>>
       ELSE Refuse
    /\ unchanged_but_request

\* require_enabled_delegation_parent of the facade's preparation.
PrepareEnabled ==
    /\ pc = "enable"
    /\ IF session.disabled THEN Refuse
       ELSE Goto("prepared") /\ UNCHANGED <<want, fixed, path, version, expiry, seen>>
    /\ unchanged_but_request

\* The owner refuses a request of the facade and the facade one of the owner.
RightPath(p) == (p = "facade") = fixed

Issue(p) ==
    /\ pc = "prepared"
    /\ IF RightPath(p)
       THEN /\ Goto("resolve")
            /\ path' = p
            /\ seen' = {session}
            /\ UNCHANGED <<want, fixed, version, expiry>>
       ELSE Refuse
    /\ unchanged_but_request

\* The second read.
IssueResolve ==
    /\ pc = "resolve"
    /\ IF Resolves(version) /\ HasAuthority(want)
       THEN /\ Goto(IF fixed THEN "enabled" ELSE "sign")
            /\ expiry' = effective_expires_at(session)
            /\ UNCHANGED <<want, fixed, path, version, seen>>
       ELSE Refuse
    /\ unchanged_but_request

IssueEnabled ==
    /\ pc = "enabled"
    /\ IF session.disabled THEN Refuse
       ELSE Goto("sign") /\ UNCHANGED <<want, fixed, path, version, expiry, seen>>
    /\ unchanged_but_request

Seconds(t) == t \div Second

Expires(ttl) == Min({clock + ttl, clock + MaxTtl, expiry})

\* A JWT carries whole seconds.
Sign(ttl) ==
    /\ pc = "sign"
    /\ IF Seconds(Expires(ttl)) > Seconds(clock)
       THEN /\ Goto("issued")
            /\ expiry' = Second * Seconds(Expires(ttl))
            /\ UNCHANGED <<want, fixed, path, version, seen>>
       ELSE Refuse
    /\ unchanged_but_request

\* Invalid bindings or claims, a failing store, a dropped call.
Abort ==
    /\ pc \in {"enable", "prepared", "resolve", "enabled", "sign"}
    /\ Refuse
    /\ unchanged_but_request

\* The receiver authenticates the token.
Accept ==
    /\ pc = "issued" /\ clock < expiry
    /\ Goto("accepted")
    /\ seen' = {} /\ fixed' = FALSE /\ path' = None
    /\ UNCHANGED <<want, version, expiry>>
    /\ unchanged_but_request

----------------------------------------------------------------------------
(* revalidate_sensitive_principal.                                         *)

unchanged_but_check ==
    UNCHANGED <<clock, session, changes, revoked_at, request, connection>>

Revalidate ==
    /\ pc = "accepted" /\ check = "idle"
    /\ now' = clock
    /\ check' = IF expiry <= clock THEN "denied" ELSE "status"
    /\ watched' = {session}
    /\ UNCHANGED result
    /\ unchanged_but_check

\* The host's TokenStatusChecker knows revoked tokens and sessions; an error of
\* the checker is final.
CheckStatus ==
    /\ check = "status"
    /\ \/ check' = IF session.revoked THEN "denied" ELSE "current"
       \/ check' = "denied"
    /\ UNCHANGED <<now, result, watched>>
    /\ unchanged_but_check

\* Mutant: the version is not among what must match.
Matches_AnyVersion == ~session.revoked /\ ~session.disabled

\* The resolver refuses revoked sessions and disabled users; for a delegation
\* PrincipalReference::matches compares the version with the parent's.
Matches ==
    /\ ~session.revoked /\ ~session.disabled
    /\ version = session.version

\* A failing resolver denies too, and so does a session that now acts in
\* another active_scope than the token's.
Narrow ==
    /\ check = "current"
    /\ \/ /\ Matches /\ effective_expires_at(session) > now
          /\ check' = "allowed" /\ result' = want \cap session.grants
       \/ check' = "denied" /\ UNCHANGED result
    /\ UNCHANGED <<now, watched>>
    /\ unchanged_but_check

\* A later operation is checked anew.
Reset ==
    /\ check \in {"allowed", "denied"}
    /\ check' = "idle" /\ now' = 0 /\ result' = {} /\ watched' = {}
    /\ unchanged_but_check

----------------------------------------------------------------------------
(* Periodic re-checks of a connection.                                     *)

\* The share of r whole seconds, rounded up, in ticks.
Fraction(p, r) ==
    LET percent == Max({1, Min({p.lifetime_percent, 100})})
    IN  Second * Max({1, (r * percent + 99) \div 100})

\* Mutant: the interval alone decides.
next_deadline_Interval(p, t, start) == t + p.min_interval

\* A policy that makes no sense asks for a check at once.  (So does one whose
\* times leave the calendar, which no clock here comes near; a delegated token
\* always has an expiry.)
next_deadline(p, t, start) ==
    IF \/ p.min_interval <= 0 \/ p.lifetime_percent = None
       \/ p.max_connection_ttl # None /\ p.max_connection_ttl <= 0
    THEN t
    ELSE LET remaining == expiry - t
             byToken == IF remaining > 0
                        THEN {t + Fraction(p, Seconds(remaining)), expiry} ELSE {t}
             byAge == IF p.max_connection_ttl = None THEN {}
                      ELSE {start + p.max_connection_ttl}
         IN  Min({t + p.min_interval} \cup byToken \cup byAge)

unchanged_but_connection ==
    UNCHANGED <<clock, session, changes, revoked_at, request, recheck>>

Open(p) ==
    /\ pc = "accepted" /\ conn = "none" /\ clock < expiry
    /\ conn' = "open" /\ policy' = p /\ started' = clock
    /\ deadline' = next_deadline(p, clock, clock)
    /\ UNCHANGED last
    /\ unchanged_but_connection

\* What an authoritative TokenStatusChecker answers.  AlwaysActiveTokenStatus,
\* for hosts with no revocation store, answers what map_checker_result makes
\* of an error under FailOpen.
Status == IF session.revoked THEN "Revoked"
          ELSE IF expiry <= clock THEN "Expired" ELSE "Active"

map_checker_result(r) ==
    IF r = "error" /\ policy.failure_mode = "FailOpen" THEN "Active" ELSE r

\* At the deadline the host asks the checker, which may fail; it closes the
\* connection on any other answer than Active, or when it is too old.
CheckConnection(r) ==
    /\ conn = "open" /\ deadline <= clock
    /\ IF \/ map_checker_result(r) # "Active"
          \/ /\ policy.max_connection_ttl # None
             /\ started + policy.max_connection_ttl <= clock
       THEN conn' = "closed" /\ policy' = None /\ last' = None /\ deadline' = 0
       ELSE /\ last' = clock
            /\ deadline' = next_deadline(policy, clock, started)
            /\ UNCHANGED <<conn, policy>>
    /\ UNCHANGED started
    /\ unchanged_but_connection

Next ==
    \/ Revoke \/ Host \/ Tick
    \/ \E w \in SUBSET Grants, f \in BOOLEAN, v \in {None} \cup 1..session.version :
            Prepare(w, f, v)
    \/ PrepareEnabled \/ IssueResolve \/ IssueEnabled \/ Abort \/ Accept
    \/ \E p \in {"owner", "facade"} : Issue(p)
    \/ \E ttl \in Ttls : Sign(ttl)
    \/ Revalidate \/ CheckStatus \/ Narrow \/ Reset
    \/ \E p \in Policies : Open(p)
    \/ \E r \in {Status, "error"} : CheckConnection(r)

Spec == Init /\ [][Next]_vars

----------------------------------------------------------------------------
(* Properties.                                                             *)

\* The records that the host can keep of a session and its user.
Sessions == [revoked : BOOLEAN, version : Nat, grants : SUBSET Grants,
             disabled : BOOLEAN, idle_expires_at : Nat]

\* The values the variables can have.
TypeOK ==
    /\ clock \in Nat
    /\ session \in Sessions
    /\ changes \in Nat
    /\ revoked_at \in Nat \cup {None}
    /\ pc \in {"idle", "enable", "prepared", "resolve", "enabled", "sign", "issued",
              "accepted", "refused"}
    /\ want \subseteq Grants
    /\ fixed \in BOOLEAN
    /\ path \in {"owner", "facade", None}
    /\ version \in Nat \cup {None}
    /\ expiry \in Nat
    /\ seen \subseteq Sessions
    /\ check \in {"idle", "status", "current", "allowed", "denied"}
    /\ now \in Nat
    /\ result \subseteq Grants
    /\ watched \subseteq Sessions
    /\ conn \in {"none", "open", "closed"}
    /\ policy \in Policies \cup {None}
    /\ started \in Nat
    /\ last \in Nat \cup {None}
    /\ deadline \in Nat

\* A token is one that the parent session could have granted at one instant of
\* the issuing call, whatever happened since the preparation: live, under the
\* prepared version, with every wanted grant and an expiry no earlier than the
\* token's; and one of the facade never ignores a user who was disabled
\* throughout (issue_session_bound_access_token_only_for_audience).
TokenFromLiveSession ==
    pc = "issued" =>
        /\ \E s \in seen :
            /\ ~s.revoked /\ s.version = version /\ want \subseteq s.grants
            /\ expiry <= effective_expires_at(s)
        /\ path = "facade" => \E s \in seen : ~s.disabled

\* What a re-check leaves of a token is what one record in force during the
\* check allowed, under the version of the token and before its expiry
\* (revalidate_sensitive_principal).
RevalidatedIsCurrent ==
    check = "allowed" =>
        /\ now < expiry
        /\ \E s \in watched :
            /\ ~s.revoked /\ ~s.disabled /\ s.version = version
            /\ result = want \cap s.grants

\* When errors of the checker are failures, no connection is open after the
\* token's expiry, nor min_interval after the revocation of the session; a
\* policy without an interval allows the instant until the next check
\* (ReauthorizationPolicy::next_deadline, map_checker_result).
ConnectionClosesInTime ==
    conn = "open" /\ policy.failure_mode = "FailClosed" =>
        /\ clock <= expiry
        /\ revoked_at # None =>
            clock <= Max({revoked_at, started}) + Max({policy.min_interval, 1})
=============================================================================
